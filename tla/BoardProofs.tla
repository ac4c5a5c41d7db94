----------------------------- MODULE BoardProofs -----------------------------
(***************************************************************************)
(* What the device keeps.  Of the settings, for any number of keys and     *)
(* values: what is not in flash is known not to be, while one flush runs   *)
(* at a time and no write fails.                                           *)
(*                                                                         *)
(* Of the module manager (Kernel), for any modules and times of theirs: a  *)
(* stop is cut short by the restart, never by the hardware watchdog.       *)
(*                                                                         *)
(* Of the relays (Outputs), for any relays, expander and guards: the byte  *)
(* they share is what their drivers believe, what nothing drives is off,   *)
(* pins move with their drivers, safe mode holds and guarded outputs last. *)
(*                                                                         *)
(* Of the player, for any sounds and queue: a silent task has nothing left *)
(* open, and an alarm stands.  Of the MP3 decoder (Clip), for any clips    *)
(* and sizes of its buffer: no sync word is passed over, and helix is      *)
(* shown whole frames.                                                     *)
(***************************************************************************)
EXTENDS PersistService, Sequences, FiniteSetTheorems, WellFoundedInduction, TLAPS

CONSTANTS
  Registered, Priority, Timeout, Watchdog, ErrorService, Http, MAX_RESTARTS, CHECK_INTERVAL,
  WDT_TIMEOUT, STOP_WAIT, RESTART_TAIL, SLACK, UpdateTime, StopTime, MayFail, Subscribed,
  StartsAtZero, CLOCK_RANGE,
  Length, Endless, QUEUE, MaxCommands, MaxSwitches, Hurried,
  Files, IN_SZ, MP3_FRAME_MAX, ReadErrors,
  Order, OnExpander, ActiveHigh, Ours, Guarded, MAX_ACTUATORS, RolesLeft, MinOn, MinOff,
  TIMER_SATISFIED, Failures, MaxFaults, NestedFatal, MaxBoots

VARIABLES
  phase, modules, state, last_update_ms, kernel_at, kernel_pos, clock, turn_start, since_reset,
  uptime, elapsed, check, restarts, reported, kernel_stop_requested, stop_done, asked, safe_mode,
  safe_mode_key,
  keys, shown, q, player_at, player_task, playing, dev, budget, heard,
  file, base, len, mp3_pos, eof, mp3_at, passed,
  outputs_phase, board, drivers, tried, req, published, outputs_safe_mode, guard, outputs_at,
  held, boots

Kernel == INSTANCE ModuleManager WITH
  at <- kernel_at, pos <- kernel_pos, stop_requested <- kernel_stop_requested

Player == INSTANCE Player WITH task <- player_task, at <- player_at

Clip == INSTANCE Mp3Decoder WITH pos <- mp3_pos, at <- mp3_at

Outputs == INSTANCE Equipment WITH
  phase <- outputs_phase, safe_mode <- outputs_safe_mode, at <- outputs_at

-----------------------------------------------------------------------------
(* PERSISTENCE *)

(* What the proofs need of the build: one flush at a time, and a flash     *)
(* whose writes do not fail.                                               *)
FlushesApart == ~Crossing /\ "nvs_error" \notin Faults

(* A task that is in a callback or about to write is at a key and has the  *)
(* value it was given; the HTTP task flushes only for a request; two       *)
(* flushes do not overlap; and what was moved at boot is not moved again.  *)
InHand(t) == task[t].at \in {"callback", "write"}
HandsAreFull == \A t \in Task : InHand(t) => task[t].key \in Key /\ task[t].val \in Value
FlushedOnRequest == Flushing("http") => job.at \in {"flush", "last_flush"}
OneFlush == \A t, u \in Task : Flushing(t) /\ Flushing(u) => t = u

(* The newest value of a key is on its way: its callback is yet to run.    *)
Announced(k) == \E t \in Task : /\ task[t].at = "callback" /\ task[t].key = k
                                /\ task[t].val = map[k]
Taken(k) == \E t \in Task : /\ task[t].at = "write" /\ task[t].key = k
                            /\ task[t].val = map[k]

(* A value that is not in flash is known not to be; and a flush that is    *)
(* about to write an older value will be followed by another.              *)
Known(k) == Stored(k) = map[k] \/ dirty[k] \/ Announced(k) \/ Taken(k)
NothingUnknown == Running /\ nvs_ready => \A k \in Key : Known(k)
OldIsFollowed ==
  \A t \in Task, k \in Key :
    task[t].at = "write" /\ task[t].key = k => task[t].val = map[k] \/ dirty[k] \/ Announced(k)

IInv ==
  /\ TypeOK /\ HandsAreFull /\ FlushedOnRequest /\ OneFlush
  /\ NothingUnknown /\ OldIsFollowed

(* A set of natural numbers that is not empty has a least member: among    *)
(* its initial segments, one has no proper part that is a segment too.     *)
LEMMA LeastMember ==
  ASSUME NEW n \in Nat, NEW T \in SUBSET (0..n), T # {}
  PROVE  \E x \in T : \A y \in T : ~ (y < x)
<1> DEFINE upto(x) == {y \in T : y <= x}
           Segments == {upto(x) : x \in T}
<1>1. Segments \subseteq FiniteSubsetsOf(T) /\ Segments # {}
  <2>1. IsFiniteSet(T)
    <3>1. IsFiniteSet(0..n)
      BY FS_Interval, 0 \in Int, n \in Int
    <3> QED
      BY <3>1, FS_Subset
  <2>2. \A x \in T : upto(x) \in SUBSET T /\ IsFiniteSet(upto(x))
    BY <2>1, FS_Subset
  <2> QED
    BY <2>2 DEF FiniteSubsetsOf
<1>2. PICK S \in Segments :
        \A R \in Segments : ~ (<<R, S>> \in StrictSubsetOrdering(T))
  BY <1>1, FS_StrictSubsetOrderingWellFounded, WFMin
<1>3. PICK x \in T : S = upto(x)
  OBVIOUS
<1>4. ASSUME NEW y \in T, y < x
      PROVE  FALSE
  <2>1. \A z \in T : z \in Int
    OBVIOUS
  <2>2. upto(y) \subseteq upto(x) /\ x \in upto(x) /\ x \notin upto(y)
    <3>1. x \in Int /\ y \in Int
      BY <2>1
    <3>2. x <= x /\ ~ (x <= y)
      BY <1>4, <3>1
    <3>3. \A z \in T : z <= y => z <= x
      BY <1>4, <3>1, <2>1
    <3> QED
      BY <3>2, <3>3
  <2>3. <<upto(y), upto(x)>> \in StrictSubsetOrdering(T)
    BY <2>2 DEF StrictSubsetOrdering
  <2> QED
    BY <1>2, <1>3, <2>3
<1> QED
  BY <1>4

(* The key a flush goes to next is one of the dirty ones, and the first.   *)
LEMMA NextKey ==
  ASSUME PersistServiceAssumption, NEW T, T \subseteq Key, T # {}
  PROVE  Least(T) \in T /\ \A j \in T : Least(T) <= j
<1>1. KeyCount \in Nat /\ T \in SUBSET (0..KeyCount)
  BY DEF PersistServiceAssumption, Key
<1>2. PICK x \in T : \A y \in T : ~ (y < x)
  BY <1>1, LeastMember
<1>3. \A y \in T : x <= y
  BY <1>1, <1>2
<1> QED
  BY <1>3 DEF Least

LEMMA InitIInv ==
  ASSUME PersistServiceAssumption
  PROVE  Init => IInv
<1>1. \A t \in Task : task = [u \in Task |-> Free] => task[t] = Free
  OBVIOUS
<1>2. ASSUME Init PROVE TypeOK
  <2>1. task \in [Task -> [at : {"free", "callback", "scan", "write"}, key : 0..KeyCount,
                          val : Value \cup {NoValue}]]
    BY <1>2 DEF Init, Free, PersistServiceAssumption
  <2>2. job \in [kind : Jobs \cup {"none"}, at : {"none", "flush", "stop", "last_flush", "reboot"}]
    BY <1>2 DEF Init
  <2>3. legacy \in [Key -> Value \cup {NoValue}] /\ map \in [Key -> Value]
    BY <1>2 DEF Init, PersistServiceAssumption
  <2>4. 0 \in 0..DEBOUNCE_MS
    BY DEF PersistServiceAssumption
  <2> QED
    BY <1>2, <2>1, <2>2, <2>3, <2>4 DEF Init, TypeOK
<1>3. ASSUME Init PROVE \A t \in Task : task[t].at = "free"
  BY <1>3 DEF Init, Free
<1>4. Init => ~Running
  BY DEF Init, Running
<1>5. "http" \in Task
  BY DEF Task
<1> QED
  BY <1>2, <1>3, <1>4, <1>5 DEF IInv, HandsAreFull, FlushedOnRequest, OneFlush, NothingUnknown,
     OldIsFollowed, InHand, Flushing

(* What the flash holds after a boot is what the shared state is filled    *)
(* with, unless a write failed.                                            *)
LEMMA BootKeepsIInv ==
  ASSUME PersistServiceAssumption, FlushesApart, IInv, Boot
  PROVE  IInv'
<1>1. /\ map' = Restored
      /\ nvs' = [k \in Key |-> IF k \in Migrating THEN legacy[k] ELSE nvs[k]]
      /\ legacy' = [k \in Key |-> IF k \in Migrating THEN NoValue ELSE legacy[k]]
      /\ nvs_ready' = TRUE
      /\ dirty' = [k \in Key |-> FALSE] /\ debounce_timer' = 0
      /\ task' = [t \in Task |-> Free] /\ job' = NoJob
      /\ stop_requested' = FALSE /\ stopped' = FALSE
  BY DEF Boot, FlushesApart
<1>2. \A t \in Task : task'[t] = Free
  BY <1>1
<1>3. TypeOK'
  <2>1. map' \in [Key -> Value]
    BY <1>1 DEF IInv, TypeOK, Restored, Stored, Migrating, PersistServiceAssumption
  <2>2. nvs' \in [Key -> Value \cup {NoValue}] /\ legacy' \in [Key -> Value \cup {NoValue}]
    BY <1>1 DEF IInv, TypeOK
  <2>3. task' \in [Task -> [at : {"free", "callback", "scan", "write"}, key : 0..KeyCount,
                           val : Value \cup {NoValue}]]
    BY <1>1 DEF Free, PersistServiceAssumption
  <2> QED
    <3>1. job' \in [kind : Jobs \cup {"none"}, at : {"none", "flush", "stop", "last_flush", "reboot"}]
      BY <1>1 DEF NoJob
    <3>2. 0 \in 0..DEBOUNCE_MS
      BY DEF PersistServiceAssumption
    <3> QED
      BY <1>1, <2>1, <2>2, <2>3, <3>1, <3>2 DEF TypeOK
<1>4. \A k \in Key : Stored(k)' = map'[k]
  BY <1>1 DEF IInv, TypeOK, Restored, Stored, Migrating, PersistServiceAssumption
<1>5. NothingUnknown'
  BY <1>4 DEF NothingUnknown, Known
<1>6. \A t \in Task : task'[t].at = "free"
  BY <1>2 DEF Free
<1>7. "http" \in Task
  BY DEF Task
<1>8. HandsAreFull' /\ FlushedOnRequest' /\ OneFlush' /\ OldIsFollowed'
  BY <1>6, <1>7 DEF HandsAreFull, FlushedOnRequest, OneFlush, OldIsFollowed, InHand, Flushing
<1> QED
  BY <1>3, <1>5, <1>8 DEF IInv

(* set() of a key: it is announced by the task that sets it.               *)
LEMMA SetKeyKeepsIInv ==
  ASSUME PersistServiceAssumption, IInv, NEW t \in Task, NEW k \in Key, NEW v \in Value,
         SetKey(t, k, v)
  PROVE  IInv'
<1>1. /\ map' = [map EXCEPT ![k] = v] /\ task[t] = Free
      /\ task' = [task EXCEPT ![t] = [at |-> "callback", key |-> k, val |-> v]]
      /\ UNCHANGED <<nvs, legacy, nvs_ready, dirty, debounce_timer, job, stop_requested, stopped>>
  BY DEF SetKey, flash, stopVars
<1>2. TypeOK
  BY DEF IInv
<1>3. /\ task'[t] = [at |-> "callback", key |-> k, val |-> v]
      /\ \A u \in Task \ {t} : task'[u] = task[u]
      /\ map'[k] = v /\ \A j \in Key \ {k} : map'[j] = map[j]
  BY <1>1, <1>2 DEF TypeOK
<1>4. task[t].at = "free"
  BY <1>1 DEF Free
<1>5. TypeOK'
  <2>1. [at |-> "callback", key |-> k, val |-> v] \in
          [at : {"free", "callback", "scan", "write"}, key : 0..KeyCount, val : Value \cup {NoValue}]
    BY DEF Key, PersistServiceAssumption
  <2> QED
    BY <1>1, <1>2, <2>1 DEF TypeOK
<1>6. HandsAreFull' /\ FlushedOnRequest' /\ OneFlush'
  BY <1>1, <1>3, <1>4 DEF IInv, HandsAreFull, FlushedOnRequest, OneFlush, InHand, Flushing, Task
<1>7. Announced(k)'
  BY <1>3 DEF Announced
<1>8. ASSUME NEW j \in Key \ {k}
      PROVE  /\ Announced(j) => Announced(j)'
             /\ Taken(j) => Taken(j)'
  BY <1>3, <1>4 DEF Announced, Taken
<1>9. NothingUnknown'
  BY <1>1, <1>3, <1>7, <1>8 DEF IInv, NothingUnknown, Known, Running, Stored
<1>10. OldIsFollowed'
  <2> SUFFICES ASSUME NEW u \in Task, NEW j \in Key, task'[u].at = "write", task'[u].key = j
               PROVE  task'[u].val = map'[j] \/ dirty'[j] \/ Announced(j)'
    BY DEF OldIsFollowed
  <2>1. u # t /\ task'[u] = task[u]
    BY <1>3
  <2>2. CASE j = k
    BY <2>2, <1>7
  <2>3. CASE j # k
    <3>1. task[u].val = map[j] \/ dirty[j] \/ Announced(j)
      BY <2>1 DEF IInv, OldIsFollowed
    <3> QED
      BY <2>1, <2>3, <3>1, <1>1, <1>3, <1>8
  <2> QED
    BY <2>2, <2>3
<1> QED
  BY <1>5, <1>6, <1>9, <1>10 DEF IInv

(* The callback: what was announced is dirty from now on.                  *)
LEMMA CallbackKeepsIInv ==
  ASSUME PersistServiceAssumption, IInv, NEW t \in Task, OnStateChanged(t)
  PROVE  IInv'
<1>1. /\ task[t].at = "callback" /\ dirty' = [dirty EXCEPT ![task[t].key] = TRUE]
      /\ task' = [task EXCEPT ![t] = Free]
      /\ UNCHANGED <<map, nvs, legacy, nvs_ready, debounce_timer, job, stop_requested, stopped>>
  BY DEF OnStateChanged, flash, stopVars
<1>2. TypeOK /\ task[t].key \in Key
  BY <1>1 DEF IInv, HandsAreFull, InHand
<1>3. /\ task'[t].at = "free" /\ \A u \in Task \ {t} : task'[u] = task[u]
      /\ dirty'[task[t].key] /\ \A j \in Key : dirty[j] => dirty'[j]
  BY <1>1, <1>2 DEF TypeOK, Free
<1>4. TypeOK'
  <2>1. Free \in [at : {"free", "callback", "scan", "write"}, key : 0..KeyCount,
          val : Value \cup {NoValue}]
    BY DEF Free, PersistServiceAssumption
  <2> QED
    BY <1>1, <1>2, <2>1 DEF TypeOK
<1>5. HandsAreFull' /\ FlushedOnRequest' /\ OneFlush'
  BY <1>1, <1>3 DEF IInv, HandsAreFull, FlushedOnRequest, OneFlush, InHand, Flushing, Task
<1>6. ASSUME NEW j \in Key
      PROVE  /\ Announced(j) => Announced(j)' \/ dirty'[j]
             /\ Taken(j) => Taken(j)'
  BY <1>1, <1>3 DEF Announced, Taken
<1>7. NothingUnknown'
  BY <1>1, <1>3, <1>6 DEF IInv, NothingUnknown, Known, Running, Stored
<1>8. OldIsFollowed'
  <2> SUFFICES ASSUME NEW u \in Task, NEW j \in Key, task'[u].at = "write", task'[u].key = j
               PROVE  task'[u].val = map'[j] \/ dirty'[j] \/ Announced(j)'
    BY DEF OldIsFollowed
  <2>1. u # t /\ task'[u] = task[u]
    BY <1>3
  <2>2. task[u].val = map[j] \/ dirty[j] \/ Announced(j)
    BY <2>1 DEF IInv, OldIsFollowed
  <2> QED
    BY <2>1, <2>2, <1>1, <1>3, <1>6
<1> QED
  BY <1>4, <1>5, <1>7, <1>8 DEF IInv

(* A flush takes a key: its value is on its way to flash.                  *)
LEMMA TakeDirtyKeepsIInv ==
  ASSUME PersistServiceAssumption, IInv, NEW t \in Task, TakeDirty(t)
  PROVE  IInv'
<1>1. /\ task[t].at = "scan" /\ DirtyAfter(task[t].key) # {}
      /\ UNCHANGED <<map, nvs, legacy, nvs_ready, debounce_timer, job, stop_requested, stopped>>
  BY DEF TakeDirty, flash, stopVars
<1>2. TypeOK
  BY DEF IInv
<1>3. PICK k \in Key :
        /\ dirty' = [dirty EXCEPT ![k] = FALSE]
        /\ task' = [task EXCEPT ![t] = [at |-> "write", key |-> k, val |-> map[k]]]
  <2> DEFINE next == Least(DirtyAfter(task[t].key))
  <2>1. DirtyAfter(task[t].key) \subseteq Key
    BY DEF DirtyAfter
  <2>2. next \in Key
    BY <1>1, <2>1, NextKey
  <2>3. /\ dirty' = [dirty EXCEPT ![next] = FALSE]
        /\ task' = [task EXCEPT ![t] = [at |-> "write", key |-> next, val |-> map[next]]]
    BY DEF TakeDirty
  <2> QED
    BY <2>2, <2>3
<1>4. /\ task'[t] = [at |-> "write", key |-> k, val |-> map[k]]
      /\ \A u \in Task \ {t} : task'[u] = task[u]
      /\ \A j \in Key \ {k} : dirty'[j] = dirty[j]
  BY <1>1, <1>2, <1>3 DEF TypeOK
<1>5. TypeOK'
  <2>1. [at |-> "write", key |-> k, val |-> map[k]] \in
          [at : {"free", "callback", "scan", "write"}, key : 0..KeyCount, val : Value \cup {NoValue}]
    BY <1>2, <1>3 DEF TypeOK, Key, PersistServiceAssumption
  <2> QED
    BY <1>1, <1>2, <1>3, <2>1 DEF TypeOK
<1>6. \A u \in Task \ {t} : ~Flushing(u)
  BY <1>1 DEF IInv, OneFlush, Flushing
<1>7. HandsAreFull'
  BY <1>2, <1>3, <1>4 DEF IInv, HandsAreFull, InHand, TypeOK
<1>8. FlushedOnRequest'
  BY <1>1, <1>4 DEF IInv, FlushedOnRequest, Flushing, Task
<1>9. OneFlush'
  BY <1>4, <1>6 DEF OneFlush, Flushing
<1>10. ASSUME NEW j \in Key \ {k}
       PROVE  /\ Announced(j) => Announced(j)'
              /\ Taken(j) => Taken(j)'
  BY <1>1, <1>4 DEF Announced, Taken
<1>11. Taken(k)'
  BY <1>1, <1>4 DEF Taken
<1>12. NothingUnknown'
  BY <1>1, <1>4, <1>10, <1>11 DEF IInv, NothingUnknown, Known, Running, Stored
<1>13. OldIsFollowed'
  BY <1>1, <1>4, <1>6 DEF OldIsFollowed, Flushing
<1> QED
  BY <1>5, <1>7, <1>8, <1>9, <1>12, <1>13 DEF IInv

(* A flush writes: the value is the newest one, or another flush follows.  *)
LEMMA WriteKeepsIInv ==
  ASSUME PersistServiceAssumption, FlushesApart, IInv, NEW t \in Task, Write(t)
  PROVE  IInv'
<1> DEFINE k == task[t].key
<1>1. /\ task[t].at = "write"
      /\ \/ nvs_ready /\ nvs' = [nvs EXCEPT ![k] = task[t].val]
         \/ ~nvs_ready /\ UNCHANGED nvs
      /\ task' = [task EXCEPT ![t].at = "scan"]
      /\ UNCHANGED <<map, legacy, nvs_ready, dirty, debounce_timer, job, stop_requested, stopped>>
  BY DEF Write, FlushesApart, stopVars
<1>2. TypeOK /\ k \in Key /\ task[t].val \in Value
  BY <1>1 DEF IInv, HandsAreFull, InHand
<1>3. /\ task'[t].at = "scan" /\ \A u \in Task \ {t} : task'[u] = task[u]
  BY <1>1, <1>2 DEF TypeOK
<1>4. TypeOK'
  <2>1. task' \in [Task -> [at : {"free", "callback", "scan", "write"}, key : 0..KeyCount,
                           val : Value \cup {NoValue}]]
    BY <1>1, <1>2 DEF TypeOK
  <2>2. nvs' \in [Key -> Value \cup {NoValue}]
    BY <1>1, <1>2 DEF TypeOK
  <2> QED
    BY <1>1, <1>2, <2>1, <2>2 DEF TypeOK
<1>5. HandsAreFull' /\ FlushedOnRequest' /\ OneFlush'
  BY <1>1, <1>3 DEF IInv, HandsAreFull, FlushedOnRequest, OneFlush, InHand, Flushing, Task
<1>6. ASSUME NEW j \in Key PROVE Announced(j) => Announced(j)'
  BY <1>1, <1>3 DEF Announced
<1>7. ASSUME NEW j \in Key \ {k} PROVE Taken(j) => Taken(j)'
  BY <1>1, <1>3 DEF Taken
<1>8. NothingUnknown'
  <2> SUFFICES ASSUME Running', nvs_ready', NEW j \in Key PROVE Known(j)'
    BY DEF NothingUnknown
  <2>1. Running /\ nvs_ready /\ nvs' = [nvs EXCEPT ![k] = task[t].val]
    BY <1>1 DEF Running
  <2>2. CASE j # k
    <3>1. Stored(j)' = Stored(j)
      BY <2>1, <2>2, <1>2 DEF TypeOK, Stored
    <3>2. Known(j)
      BY <2>1 DEF IInv, NothingUnknown
    <3> QED
      BY <3>1, <3>2, <2>2, <1>1, <1>6, <1>7 DEF Known
  <2>3. CASE j = k
    <3>1. task[t].val = map[j] \/ dirty[j] \/ Announced(j)
      BY <2>3, <1>1 DEF IInv, OldIsFollowed
    <3>2. Stored(j)' = task[t].val
      BY <2>1, <2>3, <1>2 DEF TypeOK, Stored, PersistServiceAssumption
    <3> QED
      BY <3>1, <3>2, <1>1, <1>6 DEF Known
  <2> QED
    BY <2>2, <2>3
<1>9. OldIsFollowed'
  <2> SUFFICES ASSUME NEW u \in Task, NEW j \in Key, task'[u].at = "write", task'[u].key = j
               PROVE  task'[u].val = map'[j] \/ dirty'[j] \/ Announced(j)'
    BY DEF OldIsFollowed
  <2>1. u # t
    BY <1>3
  <2> QED
    BY <2>1, <1>1, <1>3, <1>6 DEF IInv, OldIsFollowed
<1> QED
  BY <1>4, <1>5, <1>8, <1>9 DEF IInv

(* A step that leaves the values alone, and the task between two flushes.  *)
LEMMA TurnKeepsIInv ==
  ASSUME PersistServiceAssumption, IInv, NEW t \in Task, task[t].at \in {"free", "scan"},
         task' = [task EXCEPT ![t] = task'[t]], task'[t].at \in {"free", "scan"},
         task'[t] \in [at : {"free", "scan"}, key : 0..KeyCount, val : Value \cup {NoValue}],
         UNCHANGED <<map, dirty>>,
         Running' => Running,
         nvs_ready' => nvs_ready /\ UNCHANGED nvs,
         nvs' \in [Key -> Value \cup {NoValue}], legacy' \in [Key -> Value \cup {NoValue}],
         nvs_ready' \in BOOLEAN, debounce_timer' \in 0..DEBOUNCE_MS,
         job' \in [kind : Jobs \cup {"none"}, at : {"none", "flush", "stop", "last_flush", "reboot"}],
         stop_requested' \in BOOLEAN, stopped' \in BOOLEAN,
         FlushedOnRequest', OneFlush'
  PROVE  IInv'
<1>1. TypeOK
  BY DEF IInv
<1>2. \A u \in Task \ {t} : task'[u] = task[u]
  BY <1>1 DEF TypeOK
<1>3. TypeOK'
  BY <1>1 DEF TypeOK
<1>4. HandsAreFull'
  BY <1>2 DEF IInv, HandsAreFull, InHand
<1>5. ASSUME NEW j \in Key
      PROVE  /\ Announced(j) => Announced(j)'
             /\ Taken(j) => Taken(j)'
  BY <1>2 DEF Announced, Taken
<1>6. NothingUnknown'
  BY <1>5 DEF IInv, NothingUnknown, Known, Stored
<1>7. OldIsFollowed'
  BY <1>2, <1>5 DEF IInv, OldIsFollowed
<1> QED
  BY <1>3, <1>4, <1>6, <1>7 DEF IInv

(* The end of a flush: the HTTP task goes on with its request.             *)
LEMMA EndFlushKeepsIInv ==
  ASSUME PersistServiceAssumption, IInv, NEW t \in Task, EndFlush(t)
  PROVE  IInv'
<1>1. /\ Running /\ task[t].at = "scan" /\ task' = [task EXCEPT ![t] = Free]
      /\ debounce_timer' = 0 /\ job' = (IF t = "http" THEN AfterFlush ELSE job)
      /\ UNCHANGED <<map, nvs, legacy, nvs_ready, dirty, stop_requested, stopped>>
  BY DEF EndFlush, flash, stopVars
<1>2. TypeOK
  BY DEF IInv
<1>3. task'[t] = Free /\ \A u \in Task \ {t} : task'[u] = task[u]
  BY <1>1, <1>2 DEF TypeOK
<1>4. Free \in [at : {"free", "scan"}, key : 0..KeyCount, val : Value \cup {NoValue}]
  BY DEF Free, PersistServiceAssumption
<1>5. job' \in [kind : Jobs \cup {"none"}, at : {"none", "flush", "stop", "last_flush", "reboot"}]
  <2>1. t = "http" => job.at \in {"flush", "last_flush"}
    BY <1>1 DEF IInv, FlushedOnRequest, Flushing
  <2> QED
    BY <1>1, <1>2, <2>1 DEF AfterFlush, TypeOK
<1>6. FlushedOnRequest' /\ OneFlush'
  BY <1>1, <1>3 DEF IInv, FlushedOnRequest, OneFlush, Flushing, Free, Task
<1>7. debounce_timer' \in 0..DEBOUNCE_MS
  BY <1>1 DEF PersistServiceAssumption
<1>8. task'[t].at = "free"
  BY <1>3 DEF Free
<1>9. task' = [task EXCEPT ![t] = task'[t]]
  BY <1>1, <1>3
<1> QED
  BY <1>1, <1>2, <1>3, <1>4, <1>5, <1>6, <1>7, <1>8, <1>9, TurnKeepsIInv DEF TypeOK

(* A flush starts, if no other is on its way.                              *)
LEMMA StartFlushStarts ==
  ASSUME PersistServiceAssumption, FlushesApart, IInv, NEW t \in Task, MayFlush(t), StartFlush(t),
         t = "http" => job'.at \in {"flush", "last_flush"},
         t = "main" => UNCHANGED job
  PROVE  /\ task' = [task EXCEPT ![t] = task'[t]] /\ task'[t].at = "scan"
         /\ task'[t] \in [at : {"free", "scan"}, key : 0..KeyCount, val : Value \cup {NoValue}]
         /\ FlushedOnRequest' /\ OneFlush'
<1>1. TypeOK /\ \A u \in Task \ {t} : ~Flushing(u)
  BY DEF IInv, MayFlush, FlushesApart
<1>2. /\ task'[t] = [at |-> "scan", key |-> 0, val |-> NoValue]
      /\ \A u \in Task \ {t} : task'[u] = task[u]
  BY <1>1 DEF StartFlush, TypeOK
<1>3. task' = [task EXCEPT ![t] = task'[t]]
  BY <1>2 DEF StartFlush
<1>4. 0 \in 0..KeyCount
  BY DEF PersistServiceAssumption
<1>5. OneFlush'
  BY <1>1, <1>2 DEF OneFlush, Flushing
<1>6. FlushedOnRequest'
  BY <1>1, <1>2 DEF IInv, FlushedOnRequest, Flushing, Task
<1> QED
  BY <1>2, <1>3, <1>4, <1>5, <1>6

(* on_update(), on the main task.                                          *)
LEMMA OnUpdateKeepsIInv ==
  ASSUME PersistServiceAssumption, FlushesApart, IInv, OnUpdate
  PROVE  IInv'
<1>1. /\ Running /\ task["main"] = Free
      /\ UNCHANGED <<map, nvs, legacy, nvs_ready, dirty, job, stop_requested, stopped>>
  BY DEF OnUpdate, flash, stopVars
<1>2. TypeOK /\ FlushedOnRequest /\ OneFlush /\ "main" \in Task
  BY DEF IInv, Task
<1>3. task["main"].at = "free"
  BY <1>1 DEF Free
<1>4. debounce_timer \in Nat /\ DEBOUNCE_MS \in Nat /\ debounce_timer <= DEBOUNCE_MS
  BY <1>2 DEF TypeOK, PersistServiceAssumption
<1>5. ASSUME UNCHANGED task, debounce_timer' \in 0..DEBOUNCE_MS
      PROVE  IInv'
  <2>1. FlushedOnRequest' /\ OneFlush'
    BY <1>1, <1>2, <1>5 DEF FlushedOnRequest, OneFlush, Flushing
  <2>2. task' = [task EXCEPT !["main"] = task'["main"]]
    BY <1>2, <1>5 DEF TypeOK
  <2>3. task'["main"] \in [at : {"free", "scan"}, key : 0..KeyCount, val : Value \cup {NoValue}]
    BY <1>1, <1>5 DEF Free, PersistServiceAssumption
  <2> QED
    BY <1>1, <1>2, <1>3, <1>5, <2>1, <2>2, <2>3, TurnKeepsIInv DEF TypeOK, Running
<1>6. CASE debounce_timer + 1 < DEBOUNCE_MS /\ debounce_timer' = debounce_timer + 1 /\ UNCHANGED task
  BY <1>4, <1>5, <1>6
<1>7. CASE MayFlush("main") /\ StartFlush("main") /\ UNCHANGED debounce_timer
  <2>1. /\ task' = [task EXCEPT !["main"] = task'["main"]] /\ task'["main"].at = "scan"
        /\ task'["main"] \in [at : {"free", "scan"}, key : 0..KeyCount, val : Value \cup {NoValue}]
        /\ FlushedOnRequest' /\ OneFlush'
    BY <1>1, <1>2, <1>7, StartFlushStarts
  <2> QED
    BY <1>1, <1>2, <1>3, <1>7, <2>1, TurnKeepsIInv DEF TypeOK, Running
<1>8. CASE debounce_timer' = 0 /\ UNCHANGED task
  BY <1>4, <1>5, <1>8
<1> QED
  BY <1>6, <1>7, <1>8 DEF OnUpdate

(* flush_now(), on the HTTP task.                                          *)
LEMMA FlushNowKeepsIInv ==
  ASSUME PersistServiceAssumption, FlushesApart, IInv, FlushNow
  PROVE  IInv'
<1>1. /\ job.at \in {"flush", "last_flush"} /\ task["http"] = Free
      /\ UNCHANGED <<map, nvs, legacy, nvs_ready, dirty, stop_requested, stopped>>
  BY DEF FlushNow, flash, stopVars
<1>2. TypeOK /\ FlushedOnRequest /\ OneFlush /\ "http" \in Task /\ Running
  BY <1>1 DEF IInv, Task, Running
<1>3. task["http"].at = "free"
  BY <1>1 DEF Free
<1>4. CASE MayFlush("http") /\ StartFlush("http") /\ UNCHANGED <<debounce_timer, job>>
  <2>1. /\ task' = [task EXCEPT !["http"] = task'["http"]] /\ task'["http"].at = "scan"
        /\ task'["http"] \in [at : {"free", "scan"}, key : 0..KeyCount, val : Value \cup {NoValue}]
        /\ FlushedOnRequest' /\ OneFlush'
    BY <1>1, <1>2, <1>4, StartFlushStarts
  <2> QED
    BY <1>1, <1>2, <1>3, <1>4, <2>1, TurnKeepsIInv DEF TypeOK
<1>5. CASE debounce_timer' = 0 /\ job' = AfterFlush /\ UNCHANGED task
  <2>1. FlushedOnRequest' /\ OneFlush'
    BY <1>2, <1>3, <1>5 DEF FlushedOnRequest, OneFlush, Flushing
  <2>2. task' = [task EXCEPT !["http"] = task'["http"]]
    BY <1>2, <1>5 DEF TypeOK
  <2>3. task'["http"] \in [at : {"free", "scan"}, key : 0..KeyCount, val : Value \cup {NoValue}]
    BY <1>1, <1>5 DEF Free, PersistServiceAssumption
  <2>4. job' \in [kind : Jobs \cup {"none"}, at : {"none", "flush", "stop", "last_flush", "reboot"}]
    BY <1>1, <1>2, <1>5 DEF AfterFlush, TypeOK
  <2>5. debounce_timer' \in 0..DEBOUNCE_MS
    BY <1>5 DEF PersistServiceAssumption
  <2> QED
    BY <1>1, <1>2, <1>3, <1>5, <2>1, <2>2, <2>3, <2>4, <2>5, TurnKeepsIInv DEF TypeOK
<1> QED
  BY <1>4, <1>5 DEF FlushNow

(* The requests, and the stop of the modules: neither flush is touched.    *)
LEMMA StopKeepsIInv ==
  ASSUME PersistServiceAssumption, IInv, StopModules \/ RequestStop \/ AwaitStop
  PROVE  IInv'
<1>1. /\ UNCHANGED <<map, nvs, legacy, nvs_ready, dirty, debounce_timer, task>>
      /\ Running
  BY DEF StopModules, RequestStop, AwaitStop, Running, flash
<1>2. TypeOK
  BY DEF IInv
<1>3. job' \in [kind : Jobs \cup {"none"}, at : {"none", "flush", "stop", "last_flush", "reboot"}]
  BY <1>2 DEF StopModules, RequestStop, AwaitStop, LastStage, TypeOK
<1>4. stop_requested' \in BOOLEAN /\ stopped' \in BOOLEAN
  BY <1>2 DEF StopModules, RequestStop, AwaitStop, stopVars, TypeOK
<1>5. TypeOK'
  BY <1>1, <1>2, <1>3, <1>4 DEF TypeOK
<1>6. FlushedOnRequest'
  BY <1>1 DEF IInv, FlushedOnRequest, Flushing, StopModules, RequestStop, AwaitStop
<1>7. NothingUnknown'
  BY <1>1 DEF IInv, NothingUnknown, Known, Announced, Taken, Stored
<1>8. HandsAreFull' /\ OneFlush' /\ OldIsFollowed'
  BY <1>1 DEF IInv, HandsAreFull, OneFlush, OldIsFollowed, Announced, InHand, Flushing
<1> QED
  BY <1>5, <1>6, <1>7, <1>8 DEF IInv

LEMMA RequestKeepsIInv ==
  ASSUME PersistServiceAssumption, IInv, NEW kind \in Jobs, Request(kind)
  PROVE  IInv'
<1>1. /\ UNCHANGED <<map, dirty, debounce_timer, task, stop_requested, stopped>>
      /\ Running /\ job = NoJob /\ task["http"] = Free
      /\ job' = [kind |-> kind, at |-> FirstStage(kind)]
      /\ \/ /\ nvs' = [k \in Key |-> NoValue] /\ legacy' = nvs' /\ nvs_ready' = FALSE
         \/ UNCHANGED <<nvs, legacy, nvs_ready>>
  BY DEF Request, stopVars, flash
<1>2. TypeOK
  BY DEF IInv
<1>3. job' \in [kind : Jobs \cup {"none"}, at : {"none", "flush", "stop", "last_flush", "reboot"}]
  BY <1>1 DEF FirstStage
<1>4. nvs' \in [Key -> Value \cup {NoValue}] /\ legacy' \in [Key -> Value \cup {NoValue}]
        /\ nvs_ready' \in BOOLEAN
  BY <1>1, <1>2 DEF TypeOK
<1>5. TypeOK'
  BY <1>1, <1>2, <1>3, <1>4 DEF TypeOK
<1>6. FlushedOnRequest'
  <2>1. task'["http"].at = "free"
    BY <1>1 DEF Free
  <2> QED
    BY <2>1 DEF FlushedOnRequest, Flushing
<1>7. NothingUnknown'
  BY <1>1 DEF IInv, NothingUnknown, Known, Announced, Taken, Stored
<1>8. HandsAreFull' /\ OneFlush' /\ OldIsFollowed'
  BY <1>1 DEF IInv, HandsAreFull, OneFlush, OldIsFollowed, Announced, InHand, Flushing
<1> QED
  BY <1>5, <1>6, <1>7, <1>8 DEF IInv

LEMMA NextIInv ==
  ASSUME PersistServiceAssumption, FlushesApart, IInv, [Next]_vars
  PROVE  IInv'
<1>1. "main" \in Task /\ "http" \in Task
  BY DEF Task
<1>2. CASE \E t \in Task, k \in Key, v \in Value : SetKey(t, k, v)
  BY <1>2, SetKeyKeepsIInv
<1>3. CASE \E kind \in Jobs : Request(kind)
  BY <1>3, RequestKeepsIInv
<1>4. CASE MainStep
  BY <1>1, <1>4, OnUpdateKeepsIInv, StopKeepsIInv, CallbackKeepsIInv, TakeDirtyKeepsIInv,
     WriteKeepsIInv, EndFlushKeepsIInv DEF MainStep
<1>5. CASE HttpStep
  BY <1>1, <1>5, FlushNowKeepsIInv, StopKeepsIInv, BootKeepsIInv, CallbackKeepsIInv,
     TakeDirtyKeepsIInv, WriteKeepsIInv, EndFlushKeepsIInv DEF HttpStep, Reboot
<1>6. CASE PowerLoss
  BY <1>6, BootKeepsIInv DEF PowerLoss
<1>7. CASE UNCHANGED vars
  <2>1. UNCHANGED <<map, nvs, legacy, nvs_ready, dirty, debounce_timer, task, job,
                    stop_requested, stopped>>
    BY <1>7 DEF vars, flash, stopVars
  <2>2. TypeOK' /\ FlushedOnRequest' /\ NothingUnknown'
    BY <2>1 DEF IInv, TypeOK, FlushedOnRequest, Flushing, NothingUnknown, Running, Known, Announced,
       Taken, Stored
  <2>3. HandsAreFull' /\ OneFlush' /\ OldIsFollowed'
    BY <2>1 DEF IInv, HandsAreFull, OneFlush, OldIsFollowed, Announced, InHand, Flushing
  <2> QED
    BY <2>2, <2>3 DEF IInv
<1> QED
  BY <1>2, <1>3, <1>4, <1>5, <1>6, <1>7 DEF Next

LEMMA NothingIsUnknown ==
  ASSUME IInv
  PROVE  NothingForgotten
BY DEF IInv, NothingUnknown, Known, Announced, Taken, NothingForgotten

(***************************************************************************)
(* PersistService, while its two flushes do not overlap and no write       *)
(* fails: what is not in flash is known not to be, through restarts, busy  *)
(* flash, a stop that takes too long and power cuts.                       *)
(***************************************************************************)
THEOREM NothingIsForgotten ==
  ASSUME PersistServiceAssumption, FlushesApart
  PROVE  Spec => []NothingForgotten
<1>1. Init => IInv
  BY InitIInv
<1>2. IInv /\ [Next]_vars => IInv'
  BY NextIInv
<1>3. IInv => NothingForgotten
  BY NothingIsUnknown
<1> QED
  BY <1>1, <1>2, <1>3, PTL DEF Spec

-----------------------------------------------------------------------------
(* MODULES AND THE WATCHDOG *)

(* The hardware watchdog guards the loop; it is reset between two turns,   *)
(* and a task that asked for a stop does not wait beyond its deadline.     *)
Times ==
  /\ since_reset \in Nat /\ asked \in 0..Kernel!Deadline
  /\ kernel_at \in {"register", "init"} => phase \in 1..3 /\ since_reset = 0
  /\ kernel_at = "idle" /\ Subscribed => since_reset <= SLACK
  /\ kernel_at = "stop" => kernel_stop_requested

(* An on_stop() can use up what is left until the deadline, no more.       *)
KernelInv == Times /\ Kernel!PanicSparesStops

LEMMA KernelBounds ==
  ASSUME Kernel!ManagerAssumption
  PROVE  /\ STOP_WAIT \in Nat /\ RESTART_TAIL \in Nat /\ SLACK \in Nat /\ WDT_TIMEOUT \in Nat
         /\ Kernel!Deadline \in Nat /\ SLACK + Kernel!Deadline < WDT_TIMEOUT
<1>1. STOP_WAIT \in Nat /\ RESTART_TAIL \in Nat /\ SLACK \in Nat /\ WDT_TIMEOUT \in Nat
  BY DEF Kernel!ManagerAssumption
<1>2. STOP_WAIT + RESTART_TAIL + SLACK < WDT_TIMEOUT
  BY DEF Kernel!ManagerAssumption
<1> QED
  BY <1>1, <1>2 DEF Kernel!Deadline

LEMMA InitKernelInv ==
  ASSUME Kernel!ManagerAssumption, Kernel!Init
  PROVE  KernelInv
BY KernelBounds DEF Kernel!Init, KernelInv, Times, Kernel!PanicSparesStops

LEMMA RebootKeepsKernelInv ==
  ASSUME Kernel!ManagerAssumption, Kernel!Reboot
  PROVE  KernelInv'
BY KernelBounds DEF Kernel!Reboot, KernelInv, Times, Kernel!PanicSparesStops, Kernel!Deadline

(* The arithmetic of it: what is spent is spent on both sides.             *)
LEMMA StillInTime ==
  ASSUME NEW D \in Nat, NEW W \in Nat, NEW s \in Nat, NEW a \in 0..D, NEW t \in Nat,
         s + (D - a) < W
  PROVE  (s + t) + (D - (a + t)) < W
OBVIOUS

LEMMA InTimeFromNow ==
  ASSUME NEW D \in Nat, NEW W \in Nat, NEW slack \in Nat, slack + D < W,
         NEW s \in 0..slack, NEW a \in 0..D
  PROVE  s + (D - a) < W
OBVIOUS

(* Time that a callback takes.                                             *)
LEMMA SpendKeepsTimes ==
  ASSUME Kernel!ManagerAssumption, KernelInv, NEW t, Kernel!Spend(t)
  PROVE  /\ since_reset' \in Nat /\ asked' \in 0..Kernel!Deadline
         /\ kernel_stop_requested /\ Subscribed /\
              since_reset + (Kernel!Deadline - asked) < WDT_TIMEOUT =>
              since_reset' + (Kernel!Deadline - asked') < WDT_TIMEOUT
<1>1. t \in Nat /\ since_reset \in Nat /\ asked \in 0..Kernel!Deadline
  BY DEF KernelInv, Times, Kernel!Spend
<1>2. since_reset' \in Nat /\ asked' \in 0..Kernel!Deadline
  BY <1>1, KernelBounds DEF Kernel!Spend
<1>3. ASSUME kernel_stop_requested, Subscribed, since_reset + (Kernel!Deadline - asked) < WDT_TIMEOUT
      PROVE  since_reset' + (Kernel!Deadline - asked') < WDT_TIMEOUT
  <2>1. CASE phase = 4
    <3>1. since_reset' = since_reset + t /\ asked' = asked + t
      BY <1>3, <2>1 DEF Kernel!Spend
    <3> QED
      BY <1>1, <1>3, <3>1, KernelBounds, StillInTime
  <2>2. CASE phase # 4
    <3>1. since_reset' = 0
      BY <2>2 DEF Kernel!Spend
    <3>2. 0 \in 0..SLACK
      BY KernelBounds
    <3> QED
      BY <1>2, <3>1, <3>2, KernelBounds, InTimeFromNow
  <2> QED
    BY <2>1, <2>2
<1> QED
  BY <1>2, <1>3

LEMMA NextKernelInv ==
  ASSUME Kernel!ManagerAssumption, KernelInv, [Kernel!Next]_(Kernel!vars)
  PROVE  KernelInv'
<1>1. /\ since_reset \in Nat /\ asked \in 0..Kernel!Deadline
      /\ SLACK \in Nat /\ WDT_TIMEOUT \in Nat /\ Kernel!Deadline \in Nat /\
           SLACK + Kernel!Deadline < WDT_TIMEOUT
  BY KernelBounds DEF KernelInv, Times
<1>2. Kernel!Deadline' = Kernel!Deadline
  BY DEF Kernel!Deadline
<1> HIDE DEF Kernel!Deadline
<1>3. CASE Kernel!Panic \/ Kernel!Restart
  BY <1>3, RebootKeepsKernelInv DEF Kernel!Panic, Kernel!Restart
<1>4. CASE Kernel!RegisterPhase \/ Kernel!InitModule \/ Kernel!StartModules
  BY <1>1, <1>4 DEF Kernel!RegisterPhase, Kernel!InitModule, Kernel!StartModules, Kernel!Same,
     KernelInv, Times, Kernel!PanicSparesStops,
     Kernel!time, Kernel!safe, Kernel!dogs
<1>5. CASE Kernel!BeginTurn \/ Kernel!SkipModule \/ Kernel!WatchdogUpdate \/ Kernel!CheckPasses \/
             Kernel!RestartModule \/ Kernel!GiveUp \/ Kernel!EndCheck
  BY <1>1, <1>5 DEF Kernel!BeginTurn, Kernel!SkipModule, Kernel!WatchdogUpdate,
     Kernel!CheckPasses, Kernel!RestartModule, Kernel!GiveUp, Kernel!EndCheck,
     Kernel!Same, KernelInv, Times, Kernel!PanicSparesStops, Kernel!time, Kernel!safe, Kernel!dogs
<1>6. CASE Kernel!UpdateModule
  <2>1. PICK t : Kernel!Spend(t)
    BY <1>6 DEF Kernel!UpdateModule
  <2>2. since_reset' \in Nat /\ asked' \in 0..Kernel!Deadline
    BY <2>1, SpendKeepsTimes
  <2>3. kernel_at = "turn" /\ kernel_at' = "turn"
    BY <1>6 DEF Kernel!UpdateModule
  <2> QED
    BY <1>2, <2>2, <2>3 DEF KernelInv, Times, Kernel!PanicSparesStops
<1>7. CASE Kernel!EndTurn
  <2>1. kernel_at' = "idle" /\ UNCHANGED kernel_stop_requested
    BY <1>7 DEF Kernel!EndTurn
  <2>2. PICK t \in 0..SLACK :
          /\ kernel_stop_requested => asked + t <= Kernel!Deadline
          /\ since_reset' = IF Subscribed THEN t ELSE 0
          /\ asked' = IF kernel_stop_requested THEN asked + t ELSE 0
    BY <1>7 DEF Kernel!EndTurn
  <2>3. since_reset' \in 0..SLACK /\ asked' \in 0..Kernel!Deadline
    BY <1>1, <2>2
  <2> QED
    BY <1>1, <1>2, <2>1, <2>3 DEF KernelInv, Times, Kernel!PanicSparesStops
<1>8. CASE Kernel!RequestStop
  BY <1>1, <1>8 DEF Kernel!RequestStop, Kernel!Same, KernelInv, Times, Kernel!PanicSparesStops,
     Kernel!time, Kernel!safe, Kernel!dogs
<1>9. CASE Kernel!BeginStop
  <2>1. /\ kernel_at = "idle" /\ kernel_stop_requested /\ kernel_at' = "stop"
        /\ UNCHANGED <<kernel_stop_requested, since_reset, asked, phase>>
    BY <1>9 DEF Kernel!BeginStop, Kernel!time, Kernel!Same
  <2>2. Subscribed => since_reset + (Kernel!Deadline - asked) < WDT_TIMEOUT
    BY <1>1, <2>1 DEF KernelInv, Times
  <2> QED
    BY <1>1, <1>2, <2>1, <2>2 DEF KernelInv, Times, Kernel!PanicSparesStops
<1>10. CASE Kernel!StopModule
  <2>1. kernel_at = "stop" /\ kernel_at' = "stop" /\ UNCHANGED <<kernel_stop_requested, phase>>
    BY <1>10 DEF Kernel!StopModule, Kernel!Same
  <2>2. CASE \E t : Kernel!Spend(t)
    <3>1. PICK t : Kernel!Spend(t)
      BY <2>2
    <3>2. since_reset' \in Nat /\ asked' \in 0..Kernel!Deadline
      BY <3>1, SpendKeepsTimes
    <3>3. Subscribed => since_reset' + (Kernel!Deadline - asked') < WDT_TIMEOUT
      BY <2>1, <3>1, SpendKeepsTimes DEF KernelInv, Times, Kernel!PanicSparesStops
    <3> QED
      BY <1>2, <2>1, <3>2, <3>3 DEF KernelInv, Times, Kernel!PanicSparesStops
  <2>3. CASE UNCHANGED Kernel!time
    BY <1>1, <1>2, <2>1, <2>3 DEF KernelInv, Times, Kernel!PanicSparesStops, Kernel!time
  <2> QED
    BY <1>10, <2>2, <2>3 DEF Kernel!StopModule
<1>11. CASE Kernel!EndStop
  <2>1. kernel_at' = "idle" /\ since_reset' = 0 /\ UNCHANGED <<kernel_stop_requested, asked>>
    BY <1>11 DEF Kernel!EndStop
  <2> QED
    BY <1>1, <1>2, <2>1 DEF KernelInv, Times, Kernel!PanicSparesStops
<1>12. CASE UNCHANGED Kernel!vars
  BY <1>12 DEF Kernel!vars, Kernel!time, Kernel!safe, Kernel!dogs, KernelInv, Times,
     Kernel!PanicSparesStops, Kernel!Deadline
<1> QED
  BY <1>3, <1>4, <1>5, <1>6, <1>7, <1>8, <1>9, <1>10, <1>11, <1>12 DEF Kernel!Next,
     Kernel!MainStep

(***************************************************************************)
(* ModuleManager: while the hardware watchdog guards the main task, the    *)
(* stop that the HTTP task waits for is over, or cut short by the restart, *)
(* before the watchdog could panic, for all times of callbacks whatever.   *)
(***************************************************************************)
THEOREM StopsAreAlwaysSpared ==
  ASSUME Kernel!ManagerAssumption
  PROVE  Kernel!Spec => []Kernel!PanicSparesStops
<1>1. Kernel!Init => KernelInv
  BY InitKernelInv
<1>2. KernelInv /\ [Kernel!Next]_(Kernel!vars) => KernelInv'
  BY NextKernelInv
<1>3. KernelInv => Kernel!PanicSparesStops
  BY DEF KernelInv
<1> QED
  BY <1>1, <1>2, <1>3, PTL DEF Kernel!Spec

-----------------------------------------------------------------------------
(* THE PLAYER *)

(* The playback task, and a request that is about to start: what sounded   *)
(* before it has been ended, and only a clip has its file open.            *)
Keys == [enabled : BOOLEAN, stop : BOOLEAN, play : Player!Sound \cup {Player!Nothing},
         alarm : BOOLEAN, beep : BOOLEAN]
Tasks == [at : {"fetch", "start", "stream"}, req : Player!Sound \cup {Player!Nothing},
          active : Player!Sound \cup {Player!Nothing}, left : Nat]
Devices == [stream : BOOLEAN, decoder : BOOLEAN]

Typed ==
  /\ keys \in Keys /\ q \in Seq(Player!Request) /\ player_task \in Tasks
  /\ playing \in BOOLEAN /\ dev \in Devices
StartsFromSilence ==
  player_task.at = "start" =>
    /\ player_task.active = Player!Nothing /\ player_task.req \in Player!Sound
    /\ dev.decoder => player_task.req = "clip"

(* What sounds has a buffer left to play.                                  *)
HasMore ==
  /\ player_task.at = "stream" => player_task.active # Player!Nothing
  /\ player_task.active # Player!Nothing => player_task.left # 0

SoundInv == Typed /\ StartsFromSilence /\ HasMore /\ Player!NothingLeftOpen

LEMMA PostedIsTyped ==
  ASSUME Typed, NEW r \in Player!Request
  PROVE  Player!Posted(r) \in Seq(Player!Request)
BY DEF Typed, Player!Posted

LEMMA InitSoundInv ==
  ASSUME Player!PlayerAssumption, Player!Init
  PROVE  SoundInv
<1>1. keys \in Keys
  BY DEF Player!Init, Keys
<1>2. player_task \in Tasks /\ dev \in Devices
  BY DEF Player!Init, Tasks, Devices
<1>3. q = <<>> /\ playing = FALSE
  BY DEF Player!Init
<1>4. <<>> \in Seq(Player!Request)
  OBVIOUS
<1> QED
  BY <1>1, <1>2, <1>3, <1>4 DEF Player!Init, SoundInv, Typed, StartsFromSilence, HasMore,
     Player!NothingLeftOpen, Player!Idle, Player!Nothing

(* The main task and the writers of the keys leave the playback task be.   *)
LEMMA MainTaskKeepsSoundInv ==
  ASSUME SoundInv, Player!MainTask \/ Player!Command \/ Player!Toggle
  PROVE  SoundInv'
<1>1. keys \in Keys /\ q \in Seq(Player!Request) /\ "stop" \in Player!Request /\
        Player!Sound \subseteq Player!Request
        /\ "alarm" \in Player!Sound /\ "beep" \in Player!Sound
  BY DEF SoundInv, Typed, Player!Request, Player!Sound
<1>2. UNCHANGED <<player_task, playing, dev>>
  BY DEF Player!MainTask, Player!SwitchedOff, Player!StopCommand, Player!PlayCommand,
     Player!PlayConsumed, Player!Button, Player!Command, Player!Toggle
<1>3. keys' \in Keys
  BY <1>1 DEF Player!MainTask, Player!SwitchedOff, Player!StopCommand, Player!PlayCommand,
     Player!PlayConsumed, Player!Button, Player!Command, Player!Toggle,
     Keys
<1>4. q' = q \/ \E r \in Player!Request : q' = Player!Posted(r)
  <2>1. CASE Player!SwitchedOff
    BY <1>1, <2>1 DEF Player!SwitchedOff
  <2>2. CASE Player!StopCommand
    BY <1>1, <2>2 DEF Player!StopCommand
  <2>3. CASE Player!PlayCommand
    <3>1. keys.play \in Player!Sound \cup {Player!Nothing}
      BY <1>1 DEF Keys
    <3> QED
      BY <1>1, <2>3, <3>1 DEF Player!PlayCommand
  <2>4. CASE Player!PlayConsumed \/ Player!Command \/ Player!Toggle
    BY <2>4 DEF Player!PlayConsumed, Player!Command, Player!Toggle
  <2>5. CASE \E b \in {"alarm", "beep"} : Player!Button(b)
    BY <1>1, <2>5 DEF Player!Button
  <2> QED
    BY <2>1, <2>2, <2>3, <2>4, <2>5 DEF Player!MainTask
<1>5. q' \in Seq(Player!Request)
  BY <1>1, <1>4, PostedIsTyped DEF SoundInv
<1> QED
  BY <1>2, <1>3, <1>5 DEF SoundInv, Typed, StartsFromSilence, HasMore, Player!NothingLeftOpen,
     Player!Idle

LEMMA FetchKeepsSoundInv ==
  ASSUME SoundInv, Player!Fetch
  PROVE  SoundInv'
<1>1. /\ player_task.at = "fetch" /\ player_task \in Tasks /\ dev \in Devices /\
           q \in Seq(Player!Request)
      /\ dev.stream = ~ Player!Idle /\ playing = ~ Player!Idle /\
           dev.decoder = (player_task.active = "clip")
      /\ playing \in BOOLEAN /\ UNCHANGED keys
  BY DEF Player!Fetch, SoundInv, Typed, Player!NothingLeftOpen
<1>2. CASE q = <<>>
  <2>1. player_task' = [player_task EXCEPT !.at = "stream"] /\ UNCHANGED <<q, playing, dev>>
    BY <1>2 DEF Player!Fetch
  <2>2. player_task' \in Tasks /\ player_task'.at = "stream" /\
          player_task'.active = player_task.active /\ player_task'.left = player_task.left
    BY <1>1, <2>1 DEF Tasks
  <2>3. ~ Player!Idle
    BY <1>2 DEF Player!Fetch
  <2> QED
    BY <1>1, <2>1, <2>2, <2>3 DEF SoundInv, Typed, StartsFromSilence, HasMore,
       Player!NothingLeftOpen, Player!Idle
<1>3. CASE q # <<>>
  <2>1. q' = Tail(q) /\ Head(q) \in Player!Request /\ Tail(q) \in Seq(Player!Request)
    BY <1>1, <1>3 DEF Player!Fetch
  <2>2. CASE Head(q) = "stop" /\ player_task' = [player_task EXCEPT !.active = Player!Nothing]
               /\ IF Player!Idle THEN UNCHANGED <<playing, dev>> ELSE Player!end_active
    <3>1. player_task' \in Tasks /\ player_task'.at = "fetch" /\ player_task'.active = Player!Nothing
      BY <1>1, <2>2 DEF Tasks
    <3>2. dev' = [stream |-> FALSE, decoder |-> FALSE] /\ playing' = FALSE
      BY <1>1, <2>2 DEF Player!end_active, Player!Idle, Devices, Player!Nothing
    <3> QED
      BY <1>1, <2>1, <3>1, <3>2 DEF SoundInv, Typed, StartsFromSilence, HasMore,
         Player!NothingLeftOpen, Player!Idle, Devices, Player!Nothing
  <2>3. CASE ~ Player!Yields(Head(q)) /\ player_task' = [player_task EXCEPT !.at = "stream"] /\
               UNCHANGED <<playing, dev>>
    <3>1. player_task' \in Tasks /\ player_task'.at = "stream" /\
            player_task'.active = player_task.active /\ player_task'.left = player_task.left
      BY <1>1, <2>3 DEF Tasks
    <3>2. ~ Player!Idle
      BY <2>3 DEF Player!Yields, Player!Idle, Player!Nothing
    <3> QED
      BY <1>1, <2>1, <2>3, <3>1, <3>2 DEF SoundInv, Typed, StartsFromSilence, HasMore,
         Player!NothingLeftOpen, Player!Idle
  <2>4. CASE Head(q) # "stop" /\ Player!Yields(Head(q))
               /\ player_task' =
                    [player_task EXCEPT !.at = "start", !.req = Head(q), !.active = Player!Nothing]
               /\ IF Player!Idle THEN UNCHANGED <<playing, dev>> ELSE Player!end_active
    <3>1. Head(q) \in Player!Sound
      BY <2>1, <2>4 DEF Player!Request
    <3>2. player_task' \in Tasks /\ player_task'.at = "start" /\
            player_task'.active = Player!Nothing /\ player_task'.req \in Player!Sound
      BY <1>1, <2>4, <3>1 DEF Tasks
    <3>3. dev' = [stream |-> FALSE, decoder |-> FALSE] /\ playing' = FALSE
      BY <1>1, <2>4 DEF Player!end_active, Player!Idle, Devices, Player!Nothing
    <3> QED
      BY <1>1, <2>1, <3>2, <3>3 DEF SoundInv, Typed, StartsFromSilence, HasMore,
         Player!NothingLeftOpen, Player!Idle, Devices
  <2> QED
    BY <1>3, <2>2, <2>3, <2>4 DEF Player!Fetch
<1> QED
  BY <1>2, <1>3

LEMMA OpenDecoderKeepsSoundInv ==
  ASSUME SoundInv, Player!OpenDecoder
  PROVE  SoundInv'
<1>1. /\ player_task.at = "start" /\ player_task.req = "clip" /\ ~ dev.decoder /\
           player_task.active = Player!Nothing
      /\ player_task \in Tasks /\ dev \in Devices /\ dev.stream = ~ Player!Idle /\
           playing = ~ Player!Idle
      /\ UNCHANGED <<keys, q, playing>>
  BY DEF Player!OpenDecoder, SoundInv, Typed, StartsFromSilence, HasMore, Player!NothingLeftOpen
<1>2. CASE dev' = [dev EXCEPT !.decoder = TRUE] /\ UNCHANGED player_task
  <2>1. dev' \in Devices /\ dev'.stream = dev.stream /\ dev'.decoder
    BY <1>1, <1>2 DEF Devices
  <2> QED
    BY <1>1, <1>2, <2>1 DEF SoundInv, Typed, StartsFromSilence, HasMore, Player!NothingLeftOpen,
       Player!Idle, Player!Sound
<1>3. CASE player_task' = Player!NotStarted /\ UNCHANGED dev
  <2>1. player_task' \in Tasks /\ player_task'.at = "fetch" /\ player_task'.active = Player!Nothing
    BY <1>1, <1>3 DEF Player!NotStarted, Tasks
  <2> QED
    BY <1>1, <1>3, <2>1 DEF SoundInv, Typed, StartsFromSilence, HasMore, Player!NothingLeftOpen,
       Player!Idle, Player!Nothing, Devices
<1> QED
  BY <1>2, <1>3 DEF Player!OpenDecoder

LEMMA StartSinkKeepsSoundInv ==
  ASSUME Player!PlayerAssumption, SoundInv, Player!StartSink
  PROVE  SoundInv'
<1>1. /\ player_task.at = "start" /\ player_task.active = Player!Nothing /\
           player_task.req \in Player!Sound
      /\ dev.decoder = (player_task.req = "clip") /\ dev.decoder \in BOOLEAN
      /\ player_task \in Tasks /\ dev \in Devices /\ dev.stream = ~ Player!Idle /\
           playing = ~ Player!Idle
      /\ playing \in BOOLEAN /\ UNCHANGED <<keys, q>>
  BY DEF Player!StartSink, SoundInv, Typed, StartsFromSilence, HasMore, Player!NothingLeftOpen,
     Devices
<1>2. CASE player_task' = Player!NotStarted /\ dev' = [dev EXCEPT !.decoder = FALSE] /\
             UNCHANGED playing
  <2>1. player_task' \in Tasks /\ player_task'.at = "fetch" /\ player_task'.active = Player!Nothing
    BY <1>1, <1>2 DEF Player!NotStarted, Tasks
  <2>2. dev' \in Devices /\ dev'.stream = dev.stream /\ dev'.decoder = FALSE
    BY <1>1, <1>2 DEF Devices
  <2> QED
    BY <1>1, <1>2, <2>1, <2>2 DEF SoundInv, Typed, StartsFromSilence, HasMore,
       Player!NothingLeftOpen, Player!Idle, Player!Nothing
<1>3. CASE /\ \E n \in 1..Length[player_task.req] :
                player_task' =
                  [at |-> "stream", req |-> Player!Nothing, active |-> player_task.req, left |-> n]
           /\ dev' = [dev EXCEPT !.stream = TRUE] /\ playing' = TRUE
  <2>1. PICK n \in 1..Length[player_task.req] :
               player_task' =
                 [at |-> "stream", req |-> Player!Nothing, active |-> player_task.req, left |-> n]
    BY <1>3
  <2>2. n \in Nat /\ n # 0
    BY <1>1 DEF Player!PlayerAssumption
  <2>3. player_task' \in Tasks /\ player_task'.at = "stream" /\
          player_task'.active = player_task.req /\ player_task'.left # 0
    BY <1>1, <2>1, <2>2 DEF Tasks
  <2>4. dev' \in Devices /\ dev'.stream = TRUE /\ dev'.decoder = dev.decoder
    BY <1>1, <1>3 DEF Devices
  <2>5. player_task.req # Player!Nothing
    BY <1>1 DEF Player!Sound, Player!Nothing
  <2> QED
    BY <1>1, <1>3, <2>3, <2>4, <2>5 DEF SoundInv, Typed, StartsFromSilence, HasMore,
       Player!NothingLeftOpen, Player!Idle
<1> QED
  BY <1>2, <1>3 DEF Player!StartSink

LEMMA StreamKeepsSoundInv ==
  ASSUME SoundInv, Player!Stream
  PROVE  SoundInv'
<1>1. /\ player_task.at = "stream" /\ player_task \in Tasks /\ dev \in Devices
      /\ dev.stream = ~ Player!Idle /\ playing = ~ Player!Idle /\
           dev.decoder = (player_task.active = "clip")
      /\ playing \in BOOLEAN /\ UNCHANGED <<keys, q>>
      /\ player_task.left \in Nat \ {0}
  BY DEF Player!Stream, SoundInv, Typed, HasMore, Player!NothingLeftOpen, Tasks
<1>2. CASE Player!end_active /\
             player_task' = [player_task EXCEPT !.at = "fetch", !.active = Player!Nothing, !.left = 0]
  <2>1. player_task' \in Tasks /\ player_task'.at = "fetch" /\ player_task'.active = Player!Nothing
    BY <1>1, <1>2 DEF Tasks
  <2> QED
    BY <1>1, <1>2, <2>1 DEF Player!end_active, SoundInv, Typed, StartsFromSilence, HasMore,
       Player!NothingLeftOpen, Player!Idle, Player!Nothing,
       Devices
<1>3. CASE /\ player_task' = [player_task EXCEPT !.at = "fetch", !.left = IF @ = 1 THEN 1 ELSE @ - 1]
           /\ UNCHANGED <<dev, playing>>
  <2> DEFINE left == IF player_task.left = 1 THEN 1 ELSE player_task.left - 1
  <2>1. left \in Nat /\ left # 0
    BY <1>1
  <2>2. player_task' = [player_task EXCEPT !.at = "fetch", !.left = left]
    BY <1>3
  <2> HIDE DEF left
  <2>3. player_task' \in Tasks /\ player_task'.at = "fetch" /\
          player_task'.active = player_task.active /\ player_task'.left = left
    BY <1>1, <2>1, <2>2 DEF Tasks
  <2> QED
    BY <1>1, <1>3, <2>1, <2>3 DEF SoundInv, Typed, StartsFromSilence, HasMore,
       Player!NothingLeftOpen, Player!Idle
<1> QED
  BY <1>2, <1>3 DEF Player!Stream

LEMMA NextSoundInv ==
  ASSUME Player!PlayerAssumption, SoundInv, [Player!Next]_(Player!vars)
  PROVE  SoundInv'
<1>1. CASE UNCHANGED Player!vars
  BY <1>1 DEF Player!vars, SoundInv, Typed, StartsFromSilence, HasMore, Player!NothingLeftOpen,
     Player!Idle
<1> QED
  BY <1>1, MainTaskKeepsSoundInv, FetchKeepsSoundInv, OpenDecoderKeepsSoundInv,
     StartSinkKeepsSoundInv, StreamKeepsSoundInv
     DEF Player!Next, Player!PlaybackTask

(***************************************************************************)
(* Player: whatever fails to open and whatever cuts a sound short, a       *)
(* silent task has muted the amplifier and closed its file.                *)
(***************************************************************************)
THEOREM NothingIsLeftOpen ==
  ASSUME Player!PlayerAssumption
  PROVE  Player!Spec => []Player!NothingLeftOpen
<1>1. Player!Init => SoundInv
  BY InitSoundInv
<1>2. SoundInv /\ [Player!Next]_(Player!vars) => SoundInv'
  BY NextSoundInv
<1>3. SoundInv => Player!NothingLeftOpen
  BY DEF SoundInv
<1> QED
  BY <1>1, <1>2, <1>3, PTL DEF Player!Spec

(* What may end an alarm.                                                  *)
EndsAnAlarm ==
  \/ player_task.at = "stream" /\ player_task.left = 1
  \/ q # <<>> /\ Head(q) \in {"stop", "alarm"}

(***************************************************************************)
(* Player: an alarm gives way only to a Stop, another alarm or its own     *)
(* end, however many other requests arrive.                                *)
(***************************************************************************)
THEOREM AlarmsAlwaysStand ==
  ASSUME Player!PlayerAssumption
  PROVE  Player!Spec => Player!AlarmStands
<1>1. Player!Init => SoundInv
  BY InitSoundInv
<1>2. SoundInv /\ [Player!Next]_(Player!vars) => SoundInv'
  BY NextSoundInv
<1>3. ASSUME SoundInv, [Player!Next]_(Player!vars)
      PROVE  [player_task.active = "alarm" /\ player_task'.active # "alarm" =>
                \/ player_task.at = "stream" /\ player_task.left = 1
                \/ q # <<>> /\ Head(q) \in {"stop", "alarm"}]_(Player!vars)
  <2> SUFFICES ASSUME Player!Next, player_task.active = "alarm", player_task'.active # "alarm"
               PROVE  EndsAnAlarm
    BY <1>3 DEF EndsAnAlarm
  <2>1. player_task \in Tasks /\ player_task.at # "start"
    BY <1>3 DEF SoundInv, Typed, StartsFromSilence, Player!Nothing
  <2>2. Player!Fetch \/ Player!Stream
    BY <2>1 DEF Player!Next, Player!MainTask, Player!SwitchedOff, Player!StopCommand,
       Player!PlayCommand, Player!PlayConsumed, Player!Button, Player!Command,
       Player!Toggle, Player!PlaybackTask, Player!OpenDecoder, Player!StartSink
  <2>3. CASE Player!Fetch
    BY <2>1, <2>3 DEF Player!Fetch, Player!Yields, Tasks, EndsAnAlarm
  <2>4. CASE Player!Stream
    BY <2>1, <2>4 DEF Player!Stream, Tasks, EndsAnAlarm
  <2> QED
    BY <2>2, <2>3, <2>4
<1> QED
  BY <1>1, <1>2, <1>3, PTL DEF Player!Spec, Player!AlarmStands

-----------------------------------------------------------------------------
(* THE MP3 DECODER *)

(* A buffer that lies within the file, and is as full as the file allows   *)
(* but before the first read.                                              *)
Buffers == [base : Nat, len : Nat, pos : Nat, eof : BOOLEAN]
Filled(b) == b.eof \/ b.len = IN_SZ \/ b.base + b.len = Len(file) \/ b.len = 0
Good(b) ==
  /\ b \in Buffers /\ b.len <= IN_SZ /\ b.pos <= b.len
  /\ b.base + b.len <= Len(file) /\ Filled(b)
Whole(b) == b.len - b.pos >= MP3_FRAME_MAX \/ b.base + b.len = Len(file) \/ b.eof

ClipInv ==
  /\ file \in Files /\ passed \subseteq Nat /\ Good(Clip!Buffer)
  /\ mp3_at = "decode" => Clip!Left >= 1
  /\ Clip!NoSyncIsMissed /\ Clip!FramesAreWhole

LEMMA Sizes ==
  ASSUME Clip!Mp3Assumption, file \in Files
  PROVE  /\ IN_SZ \in Nat /\ MP3_FRAME_MAX \in Nat /\ 2 <= MP3_FRAME_MAX /\ MP3_FRAME_MAX < IN_SZ
         /\ Len(file) \in Nat
BY DEF Clip!Mp3Assumption

(* A refill keeps what is unread, and reads all it can.                    *)
LEMMA RefilledIsGood ==
  ASSUME Clip!Mp3Assumption, file \in Files, NEW b, Good(b), NEW failed \in BOOLEAN
  PROVE  LET r == Clip!Refilled(b, failed) IN
           Good(r) /\ Whole(r) /\ r.len - r.pos >= b.len - b.pos
<1> DEFINE r == Clip!Refilled(b, failed)
           rem == b.len - b.pos
           rest == Len(file) - (b.base + b.len)
           got == IF failed THEN 0 ELSE Clip!Smaller(IN_SZ - rem, rest)
<1> SUFFICES Good(r) /\ Whole(r) /\ r.len - r.pos >= rem
  OBVIOUS
<1>1. /\ IN_SZ \in Nat /\ MP3_FRAME_MAX \in Nat /\ MP3_FRAME_MAX < IN_SZ /\ Len(file) \in Nat
  BY Sizes
<1>2. /\ b \in Buffers /\ b.base \in Nat /\ b.len \in Nat /\ b.pos \in Nat /\ b.eof \in BOOLEAN
      /\ b.len <= IN_SZ /\ b.pos <= b.len /\ b.base + b.len <= Len(file)
  BY DEF Good, Buffers
<1>3. rem \in Nat /\ rem <= IN_SZ /\ rest \in Nat
  BY <1>1, <1>2
<1>4. /\ got \in Nat /\ rem + got <= IN_SZ /\ got <= rest
      /\ got = 0 \/ rem + got = IN_SZ \/ got = rest
  BY <1>1, <1>3 DEF Clip!Smaller
<1>5. CASE b.eof \/ rem = IN_SZ
  <2>1. r = [b EXCEPT !.base = b.base + b.pos, !.pos = 0, !.len = rem]
    BY <1>5 DEF Clip!Refilled
  <2> HIDE DEF r
  <2>2. /\ r \in Buffers /\ r.base = b.base + b.pos /\ r.pos = 0 /\ r.len = rem /\ r.eof = b.eof
    <3>1. b.base + b.pos \in Nat
      BY <1>2
    <3> HIDE DEF rem
    <3> QED
      BY <1>2, <1>3, <2>1, <3>1 DEF Buffers
  <2>3. r.base + r.len = b.base + b.len
    BY <1>2, <2>2
  <2>4. r.len - r.pos = rem
    BY <1>2, <2>2
  <2>5. Filled(r)
    BY <1>5, <2>2 DEF Filled
  <2>6. Whole(r)
    BY <1>1, <1>5, <2>2, <2>4 DEF Whole
  <2> QED
    BY <1>1, <1>2, <1>3, <2>2, <2>3, <2>4, <2>5, <2>6 DEF Good
<1>6. CASE ~ (b.eof \/ rem = IN_SZ)
  <2>1. r = [base |-> b.base + b.pos, pos |-> 0, len |-> rem + got, eof |-> got = 0]
    BY <1>6 DEF Clip!Refilled
  <2> HIDE DEF got
  <2>2. /\ r \in Buffers /\ r.base = b.base + b.pos /\ r.pos = 0 /\ r.len = rem + got
        /\ r.eof = (got = 0)
    BY <1>2, <1>3, <1>4, <2>1 DEF Buffers
  <2> HIDE DEF r
  <2>3. got = rest => r.base + r.len = Len(file)
    BY <1>1, <1>2, <2>2, <1>4
  <2>4. r.base + r.len <= Len(file)
    BY <1>1, <1>2, <2>2, <1>4
  <2>5. r.len <= IN_SZ /\ r.pos <= r.len /\ r.len - r.pos >= rem
    BY <1>2, <1>3, <1>4, <2>2
  <2>6. got = 0 \/ r.len = IN_SZ \/ r.base + r.len = Len(file)
    BY <1>4, <2>2, <2>3
  <2>7. Whole(r)
    <3>1. r.len = IN_SZ => r.len - r.pos >= MP3_FRAME_MAX
      BY <1>1, <2>2
    <3>2. got = 0 => r.eof
      BY <2>2
    <3> QED
      BY <2>6, <3>1, <3>2 DEF Whole
  <2>8. Filled(r)
    BY <2>2, <2>6 DEF Filled
  <2> QED
    BY <2>2, <2>4, <2>5, <2>7, <2>8 DEF Good
<1> QED
  BY <1>5, <1>6

LEMMA ReadyIsGood ==
  ASSUME Clip!Mp3Assumption, file \in Files, NEW b, Good(b), NEW failed \in BOOLEAN
  PROVE  LET r == Clip!Ready(b, failed) IN
           Good(r) /\ Whole(r) /\ r.len - r.pos >= b.len - b.pos
<1>1. CASE b.len - b.pos < MP3_FRAME_MAX /\ ~ b.eof
  BY <1>1, RefilledIsGood DEF Clip!Ready
<1>2. CASE ~ (b.len - b.pos < MP3_FRAME_MAX /\ ~ b.eof)
  <2>1. b.len - b.pos >= MP3_FRAME_MAX \/ b.eof
    BY <1>2, Sizes DEF Good, Buffers
  <2>2. Clip!Ready(b, failed) = b
    BY <1>2 DEF Clip!Ready
  <2>3. b.len - b.pos >= b.len - b.pos
    BY DEF Good, Buffers
  <2> QED
    BY <2>1, <2>2, <2>3 DEF Whole
<1> QED
  BY <1>1, <1>2

(* The decoder takes a good buffer over.                                   *)
LEMMA TakenIsGood ==
  ASSUME NEW b, Good(b), Clip!Takes(b), UNCHANGED file
  PROVE  Good(Clip!Buffer)'
<1>1. Clip!Buffer' = [base |-> b.base, len |-> b.len, pos |-> b.pos, eof |-> b.eof]
  BY DEF Clip!Takes, Clip!Buffer
<1>2. b = [base |-> b.base, len |-> b.len, pos |-> b.pos, eof |-> b.eof]
  BY DEF Good, Buffers
<1>3. Clip!Buffer' = b
  BY <1>1, <1>2
<1> QED
  BY <1>3 DEF Good, Filled

LEMMA InitClipInv ==
  ASSUME Clip!Mp3Assumption, Clip!Init
  PROVE  ClipInv
<1>1. Clip!Buffer = [base |-> 0, len |-> 0, pos |-> 0, eof |-> FALSE]
  BY DEF Clip!Init, Clip!Buffer
<1>2. Good(Clip!Buffer)
  BY <1>1, Sizes DEF Clip!Init, Good, Buffers, Filled
<1> QED
  BY <1>2 DEF Clip!Init, ClipInv, Clip!NoSyncIsMissed, Clip!FramesAreWhole

(* What is gone over holds no sync word.                                   *)
LEMMA SearchKeepsClipInv ==
  ASSUME Clip!Mp3Assumption, ClipInv, Clip!Search
  PROVE  ClipInv'
<1>1. /\ file \in Files /\ passed \subseteq Nat /\ Good(Clip!Buffer) /\ Clip!NoSyncIsMissed /\
           file' = file
  BY DEF ClipInv, Clip!Search
<1>2. Clip!Failures \subseteq BOOLEAN
  BY DEF Clip!Failures
<1>3. PICK b \in {Clip!Ready(Clip!Buffer, h) : h \in Clip!Failures}, g \in Clip!Failures :
             Clip!SearchIn(b, g)
  BY DEF Clip!Search
<1> DEFINE c == Clip!Candidates(b)
           first == CHOOSE i \in c : \A j \in c : i <= j
<1>5. \/ Clip!Takes(b) /\ mp3_at' = "end" /\ UNCHANGED passed
      \/ /\ b.len - b.pos > 0 /\ c = {} /\ ~ b.eof
         /\ Clip!Takes(Clip!Refilled(Clip!Kept(b), g)) /\ mp3_at' = "next"
         /\ passed' = passed \cup {b.base + i : i \in b.pos..(Clip!Kept(b).pos - 1)}
      \/ /\ c # {} /\ Clip!Takes(Clip!Ready([b EXCEPT !.pos = first], g)) /\ mp3_at' = "decode"
         /\ passed' = passed \cup {b.base + i : i \in b.pos..(first - 1)}
  BY <1>3 DEF Clip!SearchIn
<1>6. Good(b)
  BY <1>1, <1>2, ReadyIsGood
<1>7. /\ b \in Buffers /\ b.base \in Nat /\ b.len \in Nat /\ b.pos \in Nat /\ b.len <= IN_SZ
      /\ b.pos <= b.len /\ b.base + b.len <= Len(file)
      /\ IN_SZ \in Nat /\ MP3_FRAME_MAX \in Nat /\ 2 <= MP3_FRAME_MAX /\ MP3_FRAME_MAX < IN_SZ
      /\ Len(file) \in Nat
  BY <1>1, <1>6, Sizes DEF Good, Buffers
<1>8. ASSUME NEW n \in Nat, passed' = passed \cup {b.base + i : i \in b.pos..(n - 1)},
             \A i \in b.pos..(n - 1) : ~ Clip!SyncAt(b.base + i)
      PROVE  passed' \subseteq Nat /\ Clip!NoSyncIsMissed'
  <2>1. \A i \in b.pos..(n - 1) : b.base + i \in Nat
    BY <1>7
  <2> QED
    BY <1>1, <1>8, <2>1 DEF Clip!NoSyncIsMissed, Clip!SyncAt
<1>9. CASE Clip!Takes(b) /\ mp3_at' = "end" /\ UNCHANGED passed
  BY <1>1, <1>6, <1>9, TakenIsGood DEF ClipInv, Clip!NoSyncIsMissed, Clip!SyncAt,
     Clip!FramesAreWhole
<1>10. CASE /\ b.len - b.pos > 0 /\ c = {} /\ ~ b.eof
            /\ Clip!Takes(Clip!Refilled(Clip!Kept(b), g)) /\ mp3_at' = "next"
            /\ passed' = passed \cup {b.base + i : i \in b.pos..(Clip!Kept(b).pos - 1)}
  <2> DEFINE n == IF b.len > 2 THEN b.len - 2 ELSE b.len
  <2>1. Clip!Kept(b) = [b EXCEPT !.pos = n]
    BY DEF Clip!Kept
  <2>2. n \in Nat /\ n <= b.len /\ (b.len > 2 => n = b.len - 2) /\ (~ (b.len > 2) => n = b.len)
    BY <1>7
  <2> HIDE DEF n
  <2>3. /\ Clip!Kept(b) \in Buffers /\ Clip!Kept(b).pos = n /\ Clip!Kept(b).len = b.len /\
             Clip!Kept(b).base = b.base
        /\ Clip!Kept(b).eof = b.eof
    BY <1>7, <2>1, <2>2 DEF Buffers
  <2>4. Good(Clip!Kept(b))
    BY <1>6, <2>2, <2>3 DEF Good, Filled
  <2>5. Good(Clip!Buffer)'
    BY <1>1, <1>2, <1>10, <2>4, RefilledIsGood, TakenIsGood
  <2>6. ASSUME NEW i \in b.pos..(n - 1)
        PROVE  ~ Clip!SyncAt(b.base + i)
    <3>1. CASE b.len > 2
      <4>1. i \in b.pos..(b.len - 2)
        BY <1>7, <2>2, <3>1
      <4> QED
        BY <1>10, <4>1 DEF Clip!Candidates
    <3>2. CASE ~ (b.len > 2)
      <4>1. b.base + b.len = Len(file)
        BY <1>6, <1>7, <1>10, <3>2 DEF Good, Filled
      <4>2. CASE i \in b.pos..(b.len - 2)
        BY <1>10, <4>2 DEF Clip!Candidates
      <4>3. CASE i \notin b.pos..(b.len - 2)
        <5>1. i + 2 > b.len /\ i \in Nat
          BY <1>7, <2>2, <3>2, <4>3
        <5>2. ~ ((b.base + i) + 2 <= Len(file))
          BY <1>7, <4>1, <5>1
        <5> QED
          BY <5>2 DEF Clip!SyncAt
      <4> QED
        BY <4>2, <4>3
    <3> QED
      BY <3>1, <3>2
  <2>7. passed' \subseteq Nat /\ Clip!NoSyncIsMissed'
    BY <1>8, <1>10, <2>2, <2>3, <2>6
  <2> QED
    BY <1>1, <1>10, <2>5, <2>7 DEF ClipInv, Clip!FramesAreWhole
<1>11. CASE /\ c # {} /\ Clip!Takes(Clip!Ready([b EXCEPT !.pos = first], g)) /\ mp3_at' = "decode"
            /\ passed' = passed \cup {b.base + i : i \in b.pos..(first - 1)}
  <2>1. first \in c /\ \A j \in c : first <= j
    <3>1. c \in SUBSET (0..b.len)
      BY <1>7 DEF Clip!Candidates
    <3>2. PICK x \in c : \A y \in c : ~ (y < x)
      BY <1>7, <1>11, <3>1, LeastMember
    <3>3. \A y \in c : x <= y
      BY <3>1, <3>2
    <3> QED
      BY <3>3
  <2>2. first \in b.pos..(b.len - 2)
    BY <2>1 DEF Clip!Candidates
  <2>3. PICK n \in Nat : n = first /\ n >= b.pos /\ n <= b.len - 2
    BY <1>7, <2>2
  <2> DEFINE a == [b EXCEPT !.pos = n]
  <2>4. a \in Buffers /\ a.pos = n /\ a.len = b.len /\ a.base = b.base /\ a.eof = b.eof
    BY <1>7, <2>3 DEF Buffers
  <2>5. Clip!Takes(Clip!Ready(a, g))
    BY <1>11, <2>3
  <2> HIDE DEF a, first
  <2>6. Good(a)
    BY <1>6, <1>7, <2>3, <2>4 DEF Good, Filled
  <2>7. PICK r : r = Clip!Ready(a, g)
    OBVIOUS
  <2>8. Good(r) /\ Whole(r) /\ r.len - r.pos >= a.len - a.pos
    BY <1>1, <1>2, <2>6, <2>7, ReadyIsGood
  <2>9. base' = r.base /\ len' = r.len /\ mp3_pos' = r.pos /\ eof' = r.eof /\ Good(Clip!Buffer)'
    BY <1>1, <2>5, <2>7, <2>8, TakenIsGood DEF Clip!Takes
  <2>10. Clip!Left' >= 1
    <3>1. r.len \in Nat /\ r.pos \in Nat
      BY <2>8 DEF Good, Buffers
    <3>2. r.len - r.pos >= 1
      BY <1>7, <2>3, <2>4, <2>8, <3>1
    <3> QED
      BY <2>9, <3>2 DEF Clip!Left
  <2>11. Clip!FramesAreWhole'
    BY <1>1, <2>8, <2>9 DEF Whole, Clip!FramesAreWhole, Clip!Left
  <2>12. ASSUME NEW i \in b.pos..(n - 1)
         PROVE  ~ Clip!SyncAt(b.base + i)
    <3>1. i \in b.pos..(b.len - 2) /\ ~ (n <= i)
      BY <1>7, <2>3
    <3> QED
      BY <2>1, <2>3, <3>1 DEF Clip!Candidates
  <2>13. passed' \subseteq Nat /\ Clip!NoSyncIsMissed'
    BY <1>8, <1>11, <2>3, <2>12
  <2> QED
    BY <1>1, <2>9, <2>10, <2>11, <2>13 DEF ClipInv
<1> QED
  BY <1>5, <1>9, <1>10, <1>11

LEMMA DecodeKeepsClipInv ==
  ASSUME Clip!Mp3Assumption, ClipInv, Clip!Decode
  PROVE  ClipInv'
<1>1. /\ file \in Files /\ passed \subseteq Nat /\ Good(Clip!Buffer) /\ Clip!NoSyncIsMissed
      /\ mp3_at = "decode" /\ Clip!Left >= 1 /\ file' = file /\ passed' = passed /\ mp3_at' # "decode"
  BY DEF ClipInv, Clip!Decode
<1>2. /\ base \in Nat /\ len \in Nat /\ mp3_pos \in Nat /\ eof \in BOOLEAN
      /\ len <= IN_SZ /\ mp3_pos <= len /\ base + len <= Len(file) /\ Filled(Clip!Buffer)
  BY <1>1 DEF Good, Clip!Buffer, Buffers
<1>3. ASSUME NEW n \in 0..Clip!Left, Clip!Onwards(n)
      PROVE  Good(Clip!Buffer)'
  <2>1. /\ mp3_pos' = mp3_pos + n /\ base' = base /\ len' = len /\ eof' = eof
    BY <1>3 DEF Clip!Onwards
  <2>2. mp3_pos + n \in Nat /\ mp3_pos + n <= len
    BY <1>2, <1>3 DEF Clip!Left
  <2>3. Clip!Buffer' \in Buffers
    BY <1>2, <2>1, <2>2 DEF Clip!Buffer, Buffers
  <2> QED
    BY <1>1, <1>2, <2>1, <2>2, <2>3 DEF Good, Filled, Clip!Buffer
<1>4. Clip!Left \in Nat /\ 0 \in 0..Clip!Left /\ 1 \in 0..Clip!Left
  BY <1>1, <1>2 DEF Clip!Left
<1>5. Good(Clip!Buffer)'
  <2>1. CASE \E consumed \in 2..Clip!Left : Clip!Onwards(consumed)
    BY <1>3, <1>4, <2>1
  <2>2. CASE \E consumed \in 0..Clip!Left : Clip!Onwards(Clip!Skipped(consumed))
    <3>1. \A consumed \in 0..Clip!Left : Clip!Skipped(consumed) \in 0..Clip!Left
      BY <1>4 DEF Clip!Skipped
    <3> QED
      BY <1>3, <2>2, <3>1
  <2>3. CASE Clip!Onwards(0) \/ Clip!Onwards(1)
    BY <1>3, <1>4, <2>3
  <2>4. CASE \E f \in Clip!Failures : Clip!Takes(Clip!Refilled(Clip!Buffer, f))
    <3>1. Clip!Failures \subseteq BOOLEAN
      BY DEF Clip!Failures
    <3> QED
      BY <1>1, <2>4, <3>1, RefilledIsGood, TakenIsGood
  <2> QED
    BY <2>1, <2>2, <2>3, <2>4 DEF Clip!Decode
<1> QED
  BY <1>1, <1>5 DEF ClipInv, Clip!NoSyncIsMissed, Clip!SyncAt, Clip!FramesAreWhole

LEMMA NextClipInv ==
  ASSUME Clip!Mp3Assumption, ClipInv, [Clip!Next]_(Clip!vars)
  PROVE  ClipInv'
<1>1. CASE UNCHANGED Clip!vars
  BY <1>1 DEF Clip!vars, ClipInv, Good, Filled, Clip!Buffer, Clip!Left, Clip!NoSyncIsMissed,
     Clip!SyncAt, Clip!FramesAreWhole
<1> QED
  BY <1>1, SearchKeepsClipInv, DecodeKeepsClipInv DEF Clip!Next, Clip!Done

(***************************************************************************)
(* Mp3Decoder: no sync word is passed over, wherever the buffer ends, for  *)
(* every clip and size of the buffer.                                      *)
(***************************************************************************)
THEOREM NoSyncIsEverMissed ==
  ASSUME Clip!Mp3Assumption
  PROVE  Clip!Spec => []Clip!NoSyncIsMissed
<1>1. Clip!Init => ClipInv
  BY InitClipInv
<1>2. ClipInv /\ [Clip!Next]_(Clip!vars) => ClipInv'
  BY NextClipInv
<1>3. ClipInv => Clip!NoSyncIsMissed
  BY DEF ClipInv
<1> QED
  BY <1>1, <1>2, <1>3, PTL DEF Clip!Spec

(***************************************************************************)
(* Mp3Decoder: helix is shown a whole frame, or all there is of the file.  *)
(***************************************************************************)
THEOREM FramesAreAlwaysWhole ==
  ASSUME Clip!Mp3Assumption
  PROVE  Clip!Spec => []Clip!FramesAreWhole
<1>1. Clip!Init => ClipInv
  BY InitClipInv
<1>2. ClipInv /\ [Clip!Next]_(Clip!vars) => ClipInv'
  BY NextClipInv
<1>3. ClipInv => Clip!FramesAreWhole
  BY DEF ClipInv
<1> QED
  BY <1>1, <1>2, <1>3, PTL DEF Clip!Spec

-----------------------------------------------------------------------------
(* THE RELAYS *)

(* A set that has 0 and, with every number, the next one has them all.     *)
LEMMA AllTheWay ==
  ASSUME NEW n \in Nat, NEW T \in SUBSET (0..n), 0 \in T,
         \A i \in 1..n : i - 1 \in T => i \in T
  PROVE  T = 0..n
<1>1. SUFFICES ASSUME (0..n) \ T # {} PROVE FALSE
  OBVIOUS
<1>2. PICK x \in (0..n) \ T : \A y \in (0..n) \ T : ~ (y < x)
  BY <1>1, LeastMember
<1>3. x \in 1..n /\ x - 1 \in 0..n /\ x - 1 < x
  BY <1>2
<1>4. x - 1 \in T
  BY <1>2, <1>3
<1> QED
  BY <1>2, <1>3, <1>4

Boards == [byte : [OnExpander -> BOOLEAN], line : [Outputs!Relays -> BOOLEAN],
           on : [Outputs!Relays -> BOOLEAN], faults : Nat]

(* The bit of a relay is what its driver believes.                         *)
Believed(b) == \A r \in drivers \cap OnExpander : b.byte[r] = Outputs!Level(r, b.on[r])

(* What nothing drives is off, and the shared byte does not say otherwise. *)
Untouched(b) == \A r \in Outputs!Relays \ Outputs!Roles :
                  /\ b.line[r] = Outputs!Level(r, FALSE)
                  /\ r \in OnExpander => b.byte[r] = Outputs!Level(r, FALSE)

(* The pins are what the drivers believe.                                  *)
Real(b) == \A r \in Outputs!Roles : b.line[r] = Outputs!Level(r, b.on[r])

Outcome == {"ok"} \cup Failures

LEMMA RolesAreBound ==
  ASSUME Outputs!EquipmentAssumption, NEW r \in Outputs!Roles
  PROVE  r \in drivers /\ r \in Ours /\ r \in Outputs!Relays
  BY DEF Outputs!Roles, Outputs!Bindable, Outputs!EquipmentAssumption

LEMMA TransferKeeps ==
  ASSUME Outputs!EquipmentAssumption, NEW b \in Boards, NEW out \in Outcome,
         NEW byte \in [OnExpander -> BOOLEAN]
  PROVE  Outputs!Transfer(b, byte, out) \in Boards
<1> DEFINE keeps == IF out = "ok" THEN byte ELSE b.byte
           pins == IF out = "nak" THEN b.line
                   ELSE [r \in Outputs!Relays |-> IF r \in OnExpander THEN byte[r] ELSE b.line[r]]
           count == IF out = "ok" THEN b.faults ELSE b.faults + 1
<1>1. Outputs!Transfer(b, byte, out) = [b EXCEPT !.byte = keeps, !.line = pins, !.faults = count]
  BY DEF Outputs!Transfer, Boards
<1>2. keeps \in [OnExpander -> BOOLEAN] /\ pins \in [Outputs!Relays -> BOOLEAN] /\ count \in Nat
  BY DEF Boards
<1> HIDE DEF keeps, pins, count
<1>3. [b EXCEPT !.byte = keeps, !.line = pins, !.faults = count] \in Boards
  BY <1>2 DEF Boards
<1> QED
  BY <1>1, <1>3

LEMMA SetRelayKeeps ==
  ASSUME Outputs!EquipmentAssumption, NEW b \in Boards, NEW r \in Outputs!Roles,
         NEW wanted \in BOOLEAN,
         NEW out \in Outcome
  PROVE  LET c == Outputs!SetRelay(b, r, wanted, out) IN
         /\ c \in Boards
         /\ \A o \in Outputs!Relays : IF o = r THEN c.on[o] \in {b.on[o], wanted}
              ELSE c.on[o] = b.on[o]
         /\ out = "ok" => c.on[r] = wanted
         /\ Believed(b) => Believed(c)
         /\ Untouched(b) => Untouched(c)
         /\ out # "late" /\ Believed(b) /\ Untouched(b) /\ Real(b) => Real(c)
<1> DEFINE byte == [b.byte EXCEPT ![r] = Outputs!Level(r, wanted)]
           t == Outputs!Transfer(b, byte, out)
           c == Outputs!SetRelay(b, r, wanted, out)
<1>1. r \in Outputs!Relays /\ r \in drivers
  BY RolesAreBound
<1>2. CASE wanted = b.on[r]
  BY <1>2, <1>1 DEF Outputs!SetRelay
<1>3. CASE wanted # b.on[r] /\ r \notin OnExpander
  <2>1. c = [b EXCEPT !.on[r] = wanted, !.line[r] = Outputs!Level(r, wanted)]
    BY <1>3 DEF Outputs!SetRelay
  <2>2. /\ c.on = [b.on EXCEPT ![r] = wanted] /\
             c.line = [b.line EXCEPT ![r] = Outputs!Level(r, wanted)]
        /\ c.byte = b.byte /\ c.faults = b.faults
        /\ c = [byte |-> c.byte, line |-> c.line, on |-> c.on, faults |-> c.faults]
    BY <2>1 DEF Boards
  <2>5. Outputs!Level(r, wanted) \in BOOLEAN
    BY DEF Outputs!Level
  <2>6. c \in Boards
    BY <2>2, <2>5, <1>1 DEF Boards
  <2>3. \A o \in Outputs!Relays : /\ c.on[o] = IF o = r THEN wanted ELSE b.on[o]
                                  /\ c.line[o] = IF o = r THEN Outputs!Level(r, wanted) ELSE b.line[o]
    BY <2>2 DEF Boards
  <2>4. OnExpander \subseteq Outputs!Relays /\ \A o \in Outputs!Roles : o \in Outputs!Relays
    BY RolesAreBound DEF Outputs!EquipmentAssumption
  <2> QED
    BY <1>3, <2>2, <2>3, <2>4, <2>6 DEF Believed, Untouched, Real
<1>4. CASE wanted # b.on[r] /\ r \in OnExpander
  <2>1. byte \in [OnExpander -> BOOLEAN] /\
          \A o \in OnExpander : byte[o] = IF o = r THEN Outputs!Level(r, wanted) ELSE b.byte[o]
    BY <1>4 DEF Boards, Outputs!Level
  <2>2. t \in Boards
    BY <2>1, TransferKeeps
  <2>3. /\ t.byte = (IF out = "ok" THEN byte ELSE b.byte)
        /\ t.line = IF out = "nak" THEN b.line
                    ELSE [o \in Outputs!Relays |-> IF o \in OnExpander THEN byte[o] ELSE b.line[o]]
        /\ t.on = b.on
    BY DEF Outputs!Transfer, Boards
  <2>4. c = IF out = "ok" THEN [t EXCEPT !.on[r] = wanted] ELSE t
    BY <1>4 DEF Outputs!SetRelay, Outputs!SetBelief
  <2>5. OnExpander \subseteq Outputs!Relays /\ \A o \in Outputs!Roles : o \in Outputs!Relays /\
          o \in drivers
    BY RolesAreBound DEF Outputs!EquipmentAssumption
  <2> HIDE DEF t, byte, c
  <2>6. CASE out = "ok"
    <3>1. /\ c \in Boards /\ c.byte = byte /\ c.on = [b.on EXCEPT ![r] = wanted]
          /\ c.line = [o \in Outputs!Relays |-> IF o \in OnExpander THEN byte[o] ELSE b.line[o]]
      BY <2>6, <2>2, <2>3, <2>4, <1>1 DEF Boards
    <3>2. \A o \in Outputs!Relays : /\ c.on[o] = IF o = r THEN wanted ELSE b.on[o]
                                    /\ c.line[o] = IF o \in OnExpander THEN byte[o] ELSE b.line[o]
      BY <3>1 DEF Boards
    <3>3. Believed(b) => Believed(c)
      BY <3>1, <3>2, <2>1, <2>5 DEF Believed
    <3>4. Untouched(b) => Untouched(c)
      BY <3>1, <3>2, <2>1, <2>5 DEF Untouched
    <3>5. ASSUME Believed(b), Real(b), NEW o \in Outputs!Roles
          PROVE  c.line[o] = Outputs!Level(o, c.on[o])
      <4>1. CASE o \in OnExpander
        BY <4>1, <3>2, <3>5, <2>1, <2>5 DEF Believed
      <4>2. CASE o \notin OnExpander
        <5>1. o # r
          BY <4>2, <1>4
        <5> QED
          BY <4>2, <5>1, <3>2, <3>5, <2>5 DEF Real
      <4> QED
        BY <4>1, <4>2
    <3> QED
      BY <3>1, <3>2, <3>3, <3>4, <3>5, <1>1 DEF c, Real
  <2>7. CASE out # "ok"
    <3>1. /\ c \in Boards /\ c.byte = b.byte /\ c.on = b.on
          /\ c.line = IF out = "nak" THEN b.line
                      ELSE [o \in Outputs!Relays |-> IF o \in OnExpander THEN byte[o] ELSE b.line[o]]
      BY <2>7, <2>2, <2>3, <2>4
    <3>2. \A o \in Outputs!Relays : c.line[o] = IF out # "nak" /\ o \in OnExpander THEN byte[o]
            ELSE b.line[o]
      BY <3>1 DEF Boards
    <3>3. Believed(b) => Believed(c)
      BY <3>1 DEF Believed
    <3>4. Untouched(b) => Untouched(c)
      BY <3>1, <3>2, <2>1, <2>5 DEF Untouched
    <3>5. out # "late" => out = "nak"
      BY <2>7 DEF Outcome, Outputs!EquipmentAssumption
    <3>6. out # "late" /\ Real(b) => Real(c)
      BY <3>1, <3>5 DEF Real
    <3> QED
      BY <3>1, <3>3, <3>4, <3>6, <2>7 DEF c
  <2> QED
    BY <2>6, <2>7
<1> QED
  BY <1>2, <1>3, <1>4

LEMMA CreatedAreRelays ==
  ASSUME Outputs!EquipmentAssumption
  PROVE  Outputs!Created \in Seq(Outputs!Relays) /\ Len(Outputs!Created) \in Nat /\
           \A i \in 1..Len(Outputs!Created) : Outputs!Created[i] \in Outputs!Relays
<1>1. PICK n \in Nat : n <= Len(Order) /\ Outputs!Created = SubSeq(Order, 1, n)
  BY DEF Outputs!Created, Outputs!FirstFew, Outputs!EquipmentAssumption
<1>2. Order \in Seq(Outputs!Relays)
  BY DEF Outputs!EquipmentAssumption
<1>3. \A i \in 1..n : Order[i] \in Outputs!Relays
  BY <1>1, <1>2
<1> QED
  BY <1>1, <1>2, <1>3

(* The state of the board after each of the relays.                        *)
Step(f, i, requested, ends) ==
  IF i = 0 THEN board ELSE Outputs!Drive(f[i - 1], Outputs!Created[i], requested, ends)

LEMMA DriveKeeps ==
  ASSUME Outputs!EquipmentAssumption, NEW b \in Boards, NEW r \in Outputs!Relays,
         NEW requested \in [Outputs!Relays -> BOOLEAN], NEW ends \in Outputs!Ends
  PROVE  LET c == Outputs!Drive(b, r, requested, ends) IN
         /\ c \in Boards
         /\ \A o \in Outputs!Relays : IF o = r /\ r \in Outputs!Roles
              THEN c.on[o] \in {b.on[o], requested[o]}
                                     ELSE c.on[o] = b.on[o]
         /\ Failures = {} /\ r \in Outputs!Roles => c.on[r] = requested[r]
         /\ Believed(b) => Believed(c)
         /\ Untouched(b) => Untouched(c)
         /\ "late" \notin Failures /\ Believed(b) /\ Untouched(b) /\ Real(b) => Real(c)
<1> DEFINE c == Outputs!Drive(b, r, requested, ends)
<1>1. CASE r \notin Outputs!Roles
  BY <1>1 DEF Outputs!Drive
<1>2. CASE r \in Outputs!Roles
  <2> DEFINE out == IF r \in OnExpander THEN ends[r] ELSE "ok"
  <2>1. c = Outputs!SetRelay(b, r, requested[r], out)
    BY <1>2 DEF Outputs!Drive
  <2>2. out \in Outcome
    BY <1>2, RolesAreBound DEF Outputs!Ends, Outcome
  <2>3. requested[r] \in BOOLEAN
    OBVIOUS
  <2> HIDE DEF out, c
  <2>4. LET d == Outputs!SetRelay(b, r, requested[r], out) IN
        /\ d \in Boards
        /\ \A o \in Outputs!Relays : IF o = r THEN d.on[o] \in {b.on[o], requested[r]}
             ELSE d.on[o] = b.on[o]
        /\ out = "ok" => d.on[r] = requested[r]
        /\ Believed(b) => Believed(d)
        /\ Untouched(b) => Untouched(d)
        /\ out # "late" /\ Believed(b) /\ Untouched(b) /\ Real(b) => Real(d)
    BY <1>2, <2>2, <2>3, SetRelayKeeps
  <2>5. /\ "late" \notin Failures => out # "late"
        /\ Failures = {} => out = "ok"
    BY <2>2 DEF Outcome
  <2> QED
    BY <2>1, <2>4, <2>5, <1>2 DEF c
<1> QED
  BY <1>1, <1>2

(* The function apply_all_outputs defines exists, and its values are       *)
(* boards.                                                                 *)
LEMMA ApplyRuns ==
  ASSUME Outputs!EquipmentAssumption, board \in Boards,
         NEW requested \in [Outputs!Relays -> BOOLEAN], NEW ends \in Outputs!Ends
  PROVE  \E after \in [0..Len(Outputs!Created) -> Boards] :
           /\ after[0] = board
           /\ \A i \in 1..Len(Outputs!Created) :
                after[i] = Outputs!Drive(after[i - 1], Outputs!Created[i], requested, ends)
           /\ Outputs!apply_all_outputs(requested, ends) = after[Len(Outputs!Created)]
<1> DEFINE n == Len(Outputs!Created)
           IsRun(f, m) == /\ f \in [0..m -> Boards] /\ f[0] = board
                         /\ \A i \in 1..m :
                              f[i] = Outputs!Drive(f[i - 1], Outputs!Created[i], requested, ends)
           T == {m \in 0..n : \E f : IsRun(f, m)}
<1>1. n \in Nat /\ \A i \in 1..n : Outputs!Created[i] \in Outputs!Relays
  BY CreatedAreRelays
<1>2. 0 \in T
  <2> DEFINE f == [i \in 0..0 |-> board]
  <2>1. f \in [0..0 -> Boards] /\ f[0] = board
    OBVIOUS
  <2>2. \A i \in 1..0 : f[i] = Outputs!Drive(f[i - 1], Outputs!Created[i], requested, ends)
    OBVIOUS
  <2>3. IsRun(f, 0)
    BY <2>1, <2>2
  <2> HIDE DEF IsRun, f
  <2> QED
    BY <1>1, <2>3
<1>3. ASSUME NEW m \in 1..n, m - 1 \in T
      PROVE  m \in T
  <2>1. PICK f : IsRun(f, m - 1)
    BY <1>3
  <2> DEFINE g == [i \in 0..m |-> IF i = m
               THEN Outputs!Drive(f[m - 1], Outputs!Created[m], requested, ends) ELSE f[i]]
  <2>2. f[m - 1] \in Boards /\ Outputs!Created[m] \in Outputs!Relays
    BY <1>1, <2>1
  <2>3. Outputs!Drive(f[m - 1], Outputs!Created[m], requested, ends) \in Boards
    BY <2>2, DriveKeeps
  <2>4. g \in [0..m -> Boards]
    BY <2>1, <2>3
  <2>5. g[0] = board
    BY <2>1
  <2>6. ASSUME NEW i \in 1..m
        PROVE  g[i] = Outputs!Drive(g[i - 1], Outputs!Created[i], requested, ends)
    <3>1. i - 1 \in 0..m /\ i - 1 # m /\ i \in 0..m
      OBVIOUS
    <3>2. g[i - 1] = f[i - 1]
      BY <3>1
    <3>3. i # m => i \in 1..(m - 1)
      OBVIOUS
    <3>4. i # m => f[i] = Outputs!Drive(f[i - 1], Outputs!Created[i], requested, ends)
      BY <2>1, <3>3
    <3> QED
      BY <3>1, <3>2, <3>4
  <2>7. IsRun(g, m)
    BY <2>4, <2>5, <2>6
  <2> HIDE DEF g, IsRun
  <2> QED
    BY <2>7, <1>1
<1>4. n \in T
  <2> HIDE DEF T, n
  <2>1. T \in SUBSET (0..n)
    BY DEF T
  <2> QED
    BY <1>1, <1>2, <1>3, <2>1, AllTheWay
<1>5. PICK f : IsRun(f, n)
  BY <1>4
<1> DEFINE Eq(h) == h = [i \in 0..n |-> Step(h, i, requested, ends)]
<1>6. Eq(f)
  <2>1. f = [i \in 0..n |-> f[i]]
    BY <1>5
  <2>2. \A i \in 0..n : f[i] = Step(f, i, requested, ends)
    BY <1>5, <1>1 DEF Step
  <2> HIDE DEF IsRun
  <2> QED
    BY <2>1, <2>2
<1> DEFINE after == CHOOSE h : Eq(h)
<1>7. Eq(after)
  <2> HIDE DEF Eq
  <2> QED
    BY <1>6
<1>8. Outputs!apply_all_outputs(requested, ends) = after[n]
  BY Zenon DEF Outputs!apply_all_outputs, Step
<1> HIDE DEF after
<1>9. after[0] = board
  BY <1>1, <1>7 DEF Step
<1>10. \A i \in 1..n : after[i] = Outputs!Drive(after[i - 1], Outputs!Created[i], requested, ends)
  BY <1>1, <1>7 DEF Step
<1>11. \A i \in 0..n : after[i] \in Boards
  <2> DEFINE U == {i \in 0..n : after[i] \in Boards}
  <2>1. ASSUME NEW i \in 1..n, after[i - 1] \in Boards
        PROVE  after[i] \in Boards
    <3>1. Outputs!Created[i] \in Outputs!Relays
      BY <1>1
    <3> QED
      BY <1>10, <2>1, <3>1, DriveKeeps
  <2>2. 0 \in U /\ U \in SUBSET (0..n) /\ \A i \in 1..n : i - 1 \in U => i \in U
    BY <1>1, <1>9, <2>1
  <2> HIDE DEF U, n
  <2>3. U = 0..n
    BY <1>1, <2>2, AllTheWay
  <2> QED
    BY <2>3 DEF U
<1>12. after \in [0..n -> Boards]
  <2>1. after = [i \in 0..n |-> Step(after, i, requested, ends)]
    BY <1>7
  <2>2. after = [i \in 0..n |-> after[i]]
    BY <2>1
  <2> QED
    BY <1>11, <2>2
<1> QED
  BY <1>8, <1>9, <1>10, <1>12

(* What one turn's application of the outputs keeps and brings about.      *)
AppliedTo(b, requested) ==
  /\ \A o \in Outputs!Relays : b.on[o] \in {board.on[o], requested[o]}
  /\ \A o \in Outputs!Relays \ Outputs!Roles : b.on[o] = board.on[o]
  /\ Believed(board) => Believed(b)
  /\ Untouched(board) => Untouched(b)
  /\ "late" \notin Failures /\ Believed(board) /\ Untouched(board) /\ Real(board) => Real(b)

LEMMA ApplyKeeps ==
  ASSUME Outputs!EquipmentAssumption, board \in Boards,
         NEW requested \in [Outputs!Relays -> BOOLEAN], NEW ends \in Outputs!Ends
  PROVE  LET c == Outputs!apply_all_outputs(requested, ends) IN
         /\ c \in Boards
         /\ AppliedTo(c, requested)
         /\ Failures = {} => \A o \in Outputs!Roles : c.on[o] = requested[o]
<1>1. PICK after \in [0..Len(Outputs!Created) -> Boards] :
        /\ after[0] = board
        /\ \A i \in 1..Len(Outputs!Created) :
             after[i] = Outputs!Drive(after[i - 1], Outputs!Created[i], requested, ends)
        /\ Outputs!apply_all_outputs(requested, ends) = after[Len(Outputs!Created)]
  BY ApplyRuns
<1> DEFINE n == Len(Outputs!Created)
           Done(i) == \A j \in 1..i : Outputs!Created[j] \in Outputs!Roles =>
             after[i].on[Outputs!Created[j]] = requested[Outputs!Created[j]]
           T == {i \in 0..n : AppliedTo(after[i], requested) /\ (Failures = {} => Done(i))}
<1>2. n \in Nat /\ \A i \in 1..n : Outputs!Created[i] \in Outputs!Relays
  BY CreatedAreRelays
<1>3. 0 \in T
  <2>1. AppliedTo(board, requested)
    BY DEF AppliedTo
  <2>2. Done(0)
    OBVIOUS
  <2> QED
    BY <1>1, <1>2, <2>1, <2>2
<1>4. ASSUME NEW i \in 1..n, i - 1 \in T
      PROVE  i \in T
  <2> DEFINE b == after[i - 1]
             r == Outputs!Created[i]
             c == after[i]
  <2>1. b \in Boards /\ r \in Outputs!Relays /\ c = Outputs!Drive(b, r, requested, ends) /\
          i \in 0..n /\ i - 1 \in 0..n
    BY <1>1, <1>2
  <2>2. AppliedTo(b, requested) /\ (Failures = {} => Done(i - 1))
    BY <1>4
  <2> HIDE DEF b, r, c
  <2>3. /\ \A o \in Outputs!Relays : IF o = r /\ r \in Outputs!Roles
             THEN c.on[o] \in {b.on[o], requested[o]}
                                    ELSE c.on[o] = b.on[o]
        /\ Failures = {} /\ r \in Outputs!Roles => c.on[r] = requested[r]
        /\ Believed(b) => Believed(c)
        /\ Untouched(b) => Untouched(c)
        /\ "late" \notin Failures /\ Believed(b) /\ Untouched(b) /\ Real(b) => Real(c)
    BY <2>1, DriveKeeps
  <2>4. AppliedTo(c, requested)
    BY <2>2, <2>3 DEF AppliedTo
  <2>5. ASSUME Failures = {}, NEW j \in 1..i, Outputs!Created[j] \in Outputs!Roles
        PROVE  c.on[Outputs!Created[j]] = requested[Outputs!Created[j]]
    <3>1. Outputs!Created[j] \in Outputs!Relays
      BY <2>5, RolesAreBound
    <3>2. CASE Outputs!Created[j] = r
      BY <3>2, <2>3, <2>5
    <3>3. CASE Outputs!Created[j] # r
      <4>1. j # i
        BY <3>3 DEF r
      <4>2. j \in 1..(i - 1)
        BY <4>1
      <4>3. b.on[Outputs!Created[j]] = requested[Outputs!Created[j]]
        BY <2>2, <2>5, <4>2 DEF b
      <4> QED
        BY <3>1, <3>3, <4>3, <2>3
    <3> QED
      BY <3>2, <3>3
  <2>6. Failures = {} => Done(i)
    BY <2>5 DEF c
  <2> HIDE DEF Done
  <2> QED
    BY <2>1, <2>4, <2>6 DEF c
<1>5. T = 0..n
  <2>1. T \in SUBSET (0..n)
    OBVIOUS
  <2> HIDE DEF T, n
  <2> QED
    BY <1>2, <1>3, <1>4, <2>1, AllTheWay
<1>6. n \in T
  BY <1>2, <1>5
<1>7. after[n] \in Boards
  BY <1>1, <1>2
<1>8. ASSUME Failures = {}, NEW o \in Outputs!Roles
      PROVE  after[n].on[o] = requested[o]
  <2>1. PICK j \in 1..n : Outputs!Created[j] = o
    BY DEF Outputs!Roles, Outputs!Bindable
  <2>2. Done(n)
    BY <1>6, <1>8
  <2> HIDE DEF T
  <2> QED
    BY <2>1, <2>2
<1> QED
  BY <1>1, <1>6, <1>7, <1>8

-----------------------------------------------------------------------------
(* The expander's relays are energised by a LOW level, which is what its   *)
(* byte does not hold when it is started.                                  *)
ActiveLow == ActiveHigh \cap OnExpander = {}

RelayTypes ==
  /\ outputs_phase \in {"hal", "drivers", "run", "stopped", "dead"} /\
       outputs_at \in {"idle", "arbitration", "apply"}
  /\ board \in Boards /\ drivers \in SUBSET Outputs!Relays /\ tried \in 0..Len(Outputs!Created)
  /\ req \in [Outputs!Relays -> BOOLEAN] /\ outputs_safe_mode \in BOOLEAN
  /\ guard \in [Guarded -> [current_state : BOOLEAN, since_change : 0..TIMER_SATISFIED]]
  /\ held \in [Guarded -> 0..TIMER_SATISFIED] /\ boots \in Nat

NothingOn(b) == \A r \in Outputs!Relays : ~b.on[r]
AllLow(b) == \A r \in Outputs!Relays :
               /\ b.line[r] = Outputs!Level(r, FALSE)
               /\ r \in OnExpander => b.byte[r] = Outputs!Level(r, FALSE)

RelayInv ==
  /\ RelayTypes
  /\ outputs_phase \in {"hal", "dead"} => drivers = {}
  /\ outputs_phase \in {"hal", "drivers", "dead"} => NothingOn(board)
  /\ Believed(board)
  /\ ActiveLow /\ outputs_phase = "drivers" => AllLow(board)
  /\ ActiveLow /\ outputs_phase \in {"run", "stopped"} => Untouched(board)
  /\ ActiveLow /\ "late" \notin Failures /\ outputs_phase \in {"run", "stopped"} => Real(board)

LEMMA RelayInitInv ==
  ASSUME Outputs!EquipmentAssumption
  PROVE  Outputs!Init => RelayInv
<1> SUFFICES ASSUME Outputs!Init PROVE RelayInv
  OBVIOUS
<1>1. Len(Outputs!Created) \in Nat
  BY CreatedAreRelays
<1>2. /\ [r \in OnExpander |-> TRUE] \in [OnExpander -> BOOLEAN]
      /\ [r \in Outputs!Relays |-> Outputs!Level(r, FALSE)] \in [Outputs!Relays -> BOOLEAN]
      /\ Outputs!AllOff \in [Outputs!Relays -> BOOLEAN]
  BY DEF Outputs!Level, Outputs!AllOff
<1>3. board \in Boards
  BY <1>2 DEF Outputs!Init, Boards
<1>4. TIMER_SATISFIED \in 0..TIMER_SATISFIED /\ boots \in Nat
  BY DEF Outputs!EquipmentAssumption, Outputs!Init
<1>5. RelayTypes
  <2>1. guard \in [Guarded -> [current_state : BOOLEAN, since_change : 0..TIMER_SATISFIED]]
    BY <1>4 DEF Outputs!Init
  <2>2. held \in [Guarded -> 0..TIMER_SATISFIED]
    BY <1>4 DEF Outputs!Init
  <2>3. tried \in 0..Len(Outputs!Created)
    BY <1>1 DEF Outputs!Init
  <2> QED
    BY <1>2, <1>3, <1>4, <2>1, <2>2, <2>3 DEF Outputs!Init, RelayTypes
<1>6. NothingOn(board)
  BY DEF Outputs!Init, NothingOn, Outputs!AllOff
<1> QED
  BY <1>5, <1>6 DEF RelayInv, Outputs!Init, Believed

(* Whatever is applied to the outputs of a module that runs.               *)
LEMMA AppliedKeeps ==
  ASSUME Outputs!EquipmentAssumption, RelayInv, outputs_phase = "run",
         NEW requested \in [Outputs!Relays -> BOOLEAN], NEW ends \in Outputs!Ends,
         Outputs!Applied(requested, ends), drivers' = drivers
  PROVE  /\ board' \in Boards /\ req' \in [Outputs!Relays -> BOOLEAN] /\
              Outputs!Roles' = Outputs!Roles
         /\ Believed(board)'
         /\ ActiveLow => Untouched(board)'
         /\ ActiveLow /\ "late" \notin Failures => Real(board)'
         /\ \A o \in Outputs!Relays : board'.on[o] \in {board.on[o], requested[o]}
         /\ Failures = {} => \A o \in Outputs!Roles : board'.on[o] = requested[o]
<1>1. /\ board' \in Boards /\ AppliedTo(board', requested)
      /\ Failures = {} => \A o \in Outputs!Roles : board'.on[o] = requested[o]
  BY ApplyKeeps DEF Outputs!Applied, RelayInv, RelayTypes
<1>2. Outputs!Roles' = Outputs!Roles /\ req' = requested
  BY DEF Outputs!Roles, Outputs!Bindable, Outputs!Applied
<1> QED
  BY <1>1, <1>2 DEF RelayInv, AppliedTo, Believed, Untouched, Real

LEMMA GuardsStay ==
  ASSUME Outputs!EquipmentAssumption, RelayInv, NEW before \in [Guarded -> 0..TIMER_SATISFIED]
  PROVE  /\ Outputs!Waited \in [Guarded -> 0..TIMER_SATISFIED]
         /\ Outputs!Stretch(before) => held' \in [Guarded -> 0..TIMER_SATISFIED]
         /\ Outputs!AllOff \in [Outputs!Relays -> BOOLEAN]
         /\ \A g \in [current_state : BOOLEAN, since_change : 0..TIMER_SATISFIED], w \in BOOLEAN :
              Outputs!ApplyGuard(g, w) \in [current_state : BOOLEAN,
                since_change : 0..TIMER_SATISFIED]
<1>2. \A t \in 0..TIMER_SATISFIED : Outputs!Lasted(t) \in 0..TIMER_SATISFIED
  <2>1. TIMER_SATISFIED \in Nat
    BY DEF Outputs!EquipmentAssumption
  <2> QED
    BY <2>1 DEF Outputs!Lasted
<1>3. Outputs!Waited \in [Guarded -> 0..TIMER_SATISFIED]
  BY <1>2 DEF Outputs!Waited, RelayInv, RelayTypes
<1>4. Outputs!Stretch(before) => held' \in [Guarded -> 0..TIMER_SATISFIED]
  BY DEF Outputs!Stretch, Outputs!EquipmentAssumption
<1>5. Outputs!AllOff \in [Outputs!Relays -> BOOLEAN]
  BY DEF Outputs!AllOff
<1>6. ASSUME NEW g \in [current_state : BOOLEAN, since_change : 0..TIMER_SATISFIED], NEW w \in BOOLEAN
      PROVE  Outputs!ApplyGuard(g, w) \in [current_state : BOOLEAN, since_change : 0..TIMER_SATISFIED]
  <2>1. Outputs!Lasted(g.since_change) \in 0..TIMER_SATISFIED /\ 0 \in 0..TIMER_SATISFIED
    BY <1>2 DEF Outputs!EquipmentAssumption
  <2> HIDE DEF Outputs!Lasted
  <2> QED
    BY <2>1 DEF Outputs!ApplyGuard
<1> QED
  BY <1>3, <1>4, <1>5, <1>6

LEMMA RelayStepInv ==
  ASSUME Outputs!EquipmentAssumption, RelayInv, [Outputs!Next]_(Outputs!vars)
  PROVE  RelayInv'
<1> USE Outputs!EquipmentAssumption
<1>1. CASE Outputs!HalInit
  <2>1. PICK out \in {"ok"} \cup Failures :
          /\ board' = [Outputs!Transfer(board, Outputs!InitialByte, out) EXCEPT
                          !.line = [r \in Outputs!Relays |-> IF r \in OnExpander THEN @[r]
                            ELSE Outputs!Level(r, FALSE)]]
          /\ outputs_phase' = IF out = "ok" \/ OnExpander = {} THEN "drivers" ELSE "dead"
    BY <1>1 DEF Outputs!HalInit
  <2> DEFINE t == Outputs!Transfer(board, Outputs!InitialByte, out)
             pins == [r \in Outputs!Relays |-> IF r \in OnExpander THEN t.line[r]
               ELSE Outputs!Level(r, FALSE)]
  <2>2. Outputs!InitialByte \in [OnExpander -> BOOLEAN] /\ out \in Outcome /\ board \in Boards
    BY <2>1 DEF Outputs!InitialByte, Outcome, RelayInv, RelayTypes
  <2>3. t \in Boards
    BY <2>2, TransferKeeps
  <2>4. /\ t.on = board.on
        /\ out = "ok" => t.byte = Outputs!InitialByte
        /\ out = "ok" => \A r \in OnExpander : t.line[r] = TRUE
    <3>1. \A r \in OnExpander : r \in Outputs!Relays
      BY DEF Outputs!EquipmentAssumption
    <3> QED
      BY <2>2, <3>1 DEF Outputs!Transfer, Boards, Outputs!InitialByte
  <2>5. pins \in [Outputs!Relays -> BOOLEAN]
    BY <2>3 DEF Boards, Outputs!Level
  <2> HIDE DEF t
  <2>6. board' = [t EXCEPT !.line = pins]
    BY <2>1 DEF t
  <2> HIDE DEF pins
  <2>7. board' \in Boards /\ board'.on = t.on /\ board'.byte = t.byte /\ board'.line = pins
    BY <2>3, <2>5, <2>6 DEF Boards
  <2>8. RelayTypes'
    BY <1>1, <2>1, <2>7 DEF Outputs!HalInit, RelayInv, RelayTypes, Outputs!Created
  <2>9. NothingOn(board)' /\ drivers' = {}
    BY <1>1, <2>4, <2>7 DEF Outputs!HalInit, RelayInv, NothingOn
  <2>10. ASSUME ActiveLow, outputs_phase' = "drivers"
         PROVE  AllLow(board)'
    <3>1. out = "ok" \/ OnExpander = {}
      BY <2>1, <2>10
    <3>2. \A r \in OnExpander : r \notin ActiveHigh
      BY <2>10 DEF ActiveLow
    <3>3. \A r \in OnExpander : out = "ok" /\ Outputs!Level(r, FALSE) = TRUE
      <4>1. SUFFICES ASSUME NEW r \in OnExpander
                     PROVE  out = "ok" /\ Outputs!Level(r, FALSE) = TRUE
        OBVIOUS
      <4>2. r \notin ActiveHigh
        BY <3>2
      <4>3. Outputs!Level(r, FALSE) \in BOOLEAN /\ Outputs!Level(r, FALSE)
        BY <4>2 DEF Outputs!Level
      <4> QED
        BY <3>1, <4>3
    <3>4. \A r \in Outputs!Relays : board'.line[r] = IF r \in OnExpander THEN t.line[r]
            ELSE Outputs!Level(r, FALSE)
      BY <2>7 DEF pins
    <3>5. \A r \in OnExpander : board'.byte[r] = TRUE /\ t.line[r] = TRUE
      BY <2>4, <2>7, <3>3 DEF Outputs!InitialByte
    <3> QED
      BY <3>3, <3>4, <3>5 DEF AllLow
  <2> QED
    BY <2>1, <2>8, <2>9, <2>10 DEF RelayInv, Believed
<1>2. CASE Outputs!InitDriver
  <2> DEFINE r == Outputs!Created[tried + 1]
  <2>1. PICK out \in {"ok"} \cup (IF r \in OnExpander THEN Failures ELSE {}) :
          /\ board' = IF r \in OnExpander
                      THEN Outputs!Transfer(board,
                        [board.byte EXCEPT ![r] = Outputs!Level(r, FALSE)], out)
                      ELSE [board EXCEPT !.line[r] = Outputs!Level(r, FALSE)]
          /\ drivers' = IF out = "ok" THEN drivers \cup {r} ELSE drivers
    BY <1>2 DEF Outputs!InitDriver
  <2>2. /\ outputs_phase = "drivers" /\ outputs_phase' = "drivers" /\ tried' = tried + 1 /\
             tried \in 0..(Len(Outputs!Created) - 1)
        /\ UNCHANGED <<req, outputs_safe_mode, guard, outputs_at, held, boots>>
    BY <1>2, CreatedAreRelays DEF Outputs!InitDriver, RelayInv, RelayTypes
  <2>3. r \in Outputs!Relays /\ Len(Outputs!Created) \in Nat
    BY <2>2, CreatedAreRelays
  <2>4. board \in Boards /\ NothingOn(board) /\ Believed(board) /\ (ActiveLow => AllLow(board)) /\
          drivers \subseteq Outputs!Relays
    BY <2>2 DEF RelayInv, RelayTypes
  <2>5. OnExpander \subseteq Outputs!Relays
    BY DEF Outputs!EquipmentAssumption
  <2> HIDE DEF r
  <2> DEFINE byte == [board.byte EXCEPT ![r] = Outputs!Level(r, FALSE)]
  <2>6. /\ board' \in Boards /\ board'.on = board.on
        /\ \A o \in OnExpander :
             board'.byte[o] \in {board.byte[o], IF o = r THEN Outputs!Level(r, FALSE)
               ELSE board.byte[o]}
        /\ out = "ok" /\ r \in OnExpander => board'.byte[r] = Outputs!Level(r, FALSE)
        /\ \A o \in Outputs!Relays :
             board'.line[o] \in {board.line[o], IF o \in OnExpander THEN byte[o]
               ELSE Outputs!Level(o, FALSE)}
    <3>1. CASE r \in OnExpander
      <4>1. byte \in [OnExpander -> BOOLEAN] /\
              \A o \in OnExpander : byte[o] = IF o = r THEN Outputs!Level(r, FALSE) ELSE board.byte[o]
        BY <3>1, <2>4 DEF Boards, Outputs!Level
      <4>2. board' = Outputs!Transfer(board, byte, out) /\ out \in Outcome
        BY <3>1, <2>1 DEF Outcome
      <4> HIDE DEF byte
      <4>3. board' \in Boards
        BY <4>1, <4>2, <2>4, TransferKeeps
      <4>4. /\ board'.byte = (IF out = "ok" THEN byte ELSE board.byte)
            /\ board'.line = IF out = "nak" THEN board.line
                    ELSE [o \in Outputs!Relays |-> IF o \in OnExpander THEN byte[o]
                      ELSE board.line[o]]
            /\ board'.on = board.on
        BY <4>2, <2>4 DEF Outputs!Transfer, Boards
      <4>5. \A o \in Outputs!Relays :
              board'.line[o] \in {board.line[o], IF o \in OnExpander THEN byte[o]
                ELSE Outputs!Level(o, FALSE)}
        BY <4>4
      <4> QED
        BY <3>1, <4>1, <4>3, <4>4, <4>5
    <3>2. CASE r \notin OnExpander
      <4>1. board' = [board EXCEPT !.line = [board.line EXCEPT ![r] = Outputs!Level(r, FALSE)]]
        BY <3>2, <2>1, <2>4 DEF Boards
      <4>2. [board.line EXCEPT ![r] = Outputs!Level(r, FALSE)] \in [Outputs!Relays -> BOOLEAN]
        BY <2>4 DEF Boards, Outputs!Level
      <4>3. board' \in Boards /\ board'.on = board.on /\ board'.byte = board.byte
            /\ board'.line = [board.line EXCEPT ![r] = Outputs!Level(r, FALSE)]
        BY <4>1, <4>2, <2>4 DEF Boards
      <4>4. \A o \in Outputs!Relays :
              board'.line[o] \in {board.line[o], IF o \in OnExpander THEN byte[o]
                ELSE Outputs!Level(o, FALSE)}
        BY <4>3, <3>2, <2>4 DEF Boards
      <4> QED
        BY <3>2, <4>3, <4>4
    <3> QED
      BY <3>1, <3>2
  <2> HIDE DEF byte
  <2>7. RelayTypes'
    BY <2>1, <2>2, <2>3, <2>4, <2>6 DEF RelayInv, RelayTypes, Outputs!Created
  <2>8. NothingOn(board)'
    BY <2>4, <2>6 DEF NothingOn
  <2>9. Believed(board)'
    <3>1. SUFFICES ASSUME NEW o \in drivers', o \in OnExpander
                   PROVE  board'.byte[o] = Outputs!Level(o, board'.on[o])
      BY DEF Believed
    <3>2. o \in Outputs!Relays /\ board'.on[o] = board.on[o] /\ board.on[o] \in BOOLEAN /\
            ~board.on[o]
      BY <3>1, <2>5, <2>4, <2>6 DEF NothingOn, Boards
    <3>3. board'.on[o] = FALSE /\ board.on[o] = FALSE
      BY <3>2
    <3>4. o \in drivers => board.byte[o] = Outputs!Level(o, FALSE)
      BY <3>1, <3>3, <2>4 DEF Believed
    <3>5. o \notin drivers => o = r /\ out = "ok"
      BY <3>1, <2>1
    <3>6. board'.byte[o] = Outputs!Level(o, FALSE)
      BY <3>1, <3>4, <3>5, <2>6
    <3> QED
      BY <3>3, <3>6
  <2>10. ActiveLow => AllLow(board)'
    <3>1. SUFFICES ASSUME ActiveLow, NEW o \in Outputs!Relays
                   PROVE  /\ board'.line[o] = Outputs!Level(o, FALSE)
                          /\ o \in OnExpander => board'.byte[o] = Outputs!Level(o, FALSE)
      BY DEF AllLow
    <3>2. board.line[o] = Outputs!Level(o, FALSE) /\
            (o \in OnExpander => board.byte[o] = Outputs!Level(o, FALSE))
      BY <3>1, <2>4 DEF AllLow
    <3>3. o \in OnExpander => byte[o] = IF o = r THEN Outputs!Level(r, FALSE) ELSE board.byte[o]
      BY <2>4 DEF byte, Boards
    <3>4. o \in OnExpander => byte[o] = Outputs!Level(o, FALSE)
      BY <3>2, <3>3
    <3>5. board'.line[o] \in {board.line[o], IF o \in OnExpander THEN byte[o]
            ELSE Outputs!Level(o, FALSE)}
      BY <2>6
    <3>6. o \in OnExpander =>
            board'.byte[o] \in {board.byte[o], IF o = r THEN Outputs!Level(r, FALSE)
              ELSE board.byte[o]}
      BY <2>6
    <3> QED
      BY <3>2, <3>4, <3>5, <3>6
  <2> QED
    BY <2>2, <2>7, <2>8, <2>9, <2>10 DEF RelayInv
<1>3. CASE Outputs!BindAndInit
  <2>1. RelayTypes'
    BY <1>3 DEF Outputs!BindAndInit, RelayInv, RelayTypes, Outputs!Created
  <2>2. UNCHANGED <<board, drivers>> /\ Outputs!Roles' = Outputs!Roles /\
          outputs_phase = "drivers" /\ outputs_phase' = "run"
    BY <1>3 DEF Outputs!BindAndInit, Outputs!Roles, Outputs!Bindable
  <2>3. Believed(board)'
    BY <2>2 DEF Believed, RelayInv
  <2>4. ActiveLow => Untouched(board)'
    <3>1. ActiveLow => AllLow(board)
      BY <2>2 DEF RelayInv
    <3>2. AllLow(board) => Untouched(board)
      BY DEF AllLow, Untouched
    <3> QED
      BY <2>2, <3>1, <3>2 DEF Untouched
  <2>5. ActiveLow => Real(board)'
    <3>1. \A r \in Outputs!Roles : r \in Outputs!Relays
      BY RolesAreBound
    <3>2. SUFFICES ASSUME ActiveLow, NEW r \in Outputs!Roles
                   PROVE  board.line[r] = Outputs!Level(r, board.on[r])
      BY <2>2 DEF Real
    <3>3. board.line[r] = Outputs!Level(r, FALSE) /\ ~board.on[r] /\ board.on[r] \in BOOLEAN
      BY <2>2, <3>1, <3>2 DEF RelayInv, RelayTypes, AllLow, NothingOn, Boards
    <3>4. board.on[r] = FALSE
      BY <3>3
    <3> QED
      BY <3>3, <3>4
  <2> QED
    BY <2>1, <2>2, <2>3, <2>4, <2>5 DEF RelayInv
<1>4. ASSUME outputs_phase = "run", drivers' = drivers, UNCHANGED <<tried, guard>>,
               outputs_phase' \in {"run", "stopped"},
             outputs_at' \in {"idle", "arbitration", "apply"}, outputs_safe_mode' \in BOOLEAN,
               boots' \in Nat,
             NEW requested \in [Outputs!Relays -> BOOLEAN], NEW ends \in Outputs!Ends,
             Outputs!Applied(requested, ends),
             NEW before \in [Guarded -> 0..TIMER_SATISFIED], Outputs!Stretch(before)
      PROVE  RelayInv'
  <2>1. /\ board' \in Boards /\ req' \in [Outputs!Relays -> BOOLEAN]
        /\ Believed(board)'
        /\ ActiveLow => Untouched(board)'
        /\ ActiveLow /\ "late" \notin Failures => Real(board)'
    BY <1>4, AppliedKeeps
  <2>2. held' \in [Guarded -> 0..TIMER_SATISFIED]
    BY <1>4, GuardsStay
  <2>3. RelayTypes'
    BY <1>4, <2>1, <2>2 DEF RelayInv, RelayTypes, Outputs!Created
  <2> QED
    BY <1>4, <2>1, <2>3 DEF RelayInv
<1>5. Outputs!AllOff \in [Outputs!Relays -> BOOLEAN] /\
        Outputs!Waited \in [Guarded -> 0..TIMER_SATISFIED]
  BY GuardsStay DEF RelayInv, RelayTypes
<1>6. req \in [Outputs!Relays -> BOOLEAN] /\ held \in [Guarded -> 0..TIMER_SATISFIED] /\
        outputs_at \in {"idle", "arbitration", "apply"}
      /\ boots \in Nat /\ outputs_safe_mode \in BOOLEAN
  BY DEF RelayInv, RelayTypes
<1>7. CASE Outputs!TurnInSafeMode
  BY <1>7, <1>4, <1>5, <1>6 DEF Outputs!TurnInSafeMode, Outputs!Running
<1>8. CASE Outputs!ProductHook
  <2>1. CASE UNCHANGED <<board, req, published, outputs_safe_mode>> /\ held' = Outputs!Waited
    <3>1. UNCHANGED <<board, drivers>> /\ Outputs!Roles' = Outputs!Roles /\
            outputs_phase = "run" /\ outputs_phase' = "run"
      BY <1>8, <2>1 DEF Outputs!ProductHook, Outputs!Running, Outputs!Roles, Outputs!Bindable
    <3>2. RelayTypes'
      BY <1>8, <2>1, <1>5 DEF Outputs!ProductHook, RelayInv, RelayTypes, Outputs!Created
    <3> QED
      BY <3>1, <3>2 DEF RelayInv, Believed, Untouched, Real
  <2>2. CASE Outputs!SafeModeMessage /\ Outputs!Stretch(Outputs!Waited)
    BY <1>8, <2>2, <1>4, <1>5, <1>6 DEF Outputs!ProductHook, Outputs!SafeModeMessage,
       Outputs!Running
  <2> QED
    BY <1>8, <2>1, <2>2 DEF Outputs!ProductHook
<1>9. CASE Outputs!apply_arbitration
  <2>1. PICK want \in [Outputs!Roles -> BOOLEAN] :
          /\ guard' = [r \in Guarded |->
                         IF r \in Outputs!Roles THEN Outputs!ApplyGuard(guard[r], want[r])
                           ELSE guard[r]]
          /\ req' = [r \in Outputs!Relays |-> CASE r \in Guarded -> guard'[r].current_state
                                        [] r \in Outputs!Roles \ Guarded -> want[r]
                                        [] OTHER -> req[r]]
    BY <1>9 DEF Outputs!apply_arbitration
  <2>2. guard \in [Guarded -> [current_state : BOOLEAN, since_change : 0..TIMER_SATISFIED]]
    BY DEF RelayInv, RelayTypes
  <2>3. \A r \in Guarded : guard'[r] \in [current_state : BOOLEAN, since_change : 0..TIMER_SATISFIED]
    <3> HIDE DEF Outputs!ApplyGuard
    <3>1. \A g \in [current_state : BOOLEAN, since_change : 0..TIMER_SATISFIED], w \in BOOLEAN :
              Outputs!ApplyGuard(g, w) \in [current_state : BOOLEAN,
                since_change : 0..TIMER_SATISFIED]
      BY <1>6, GuardsStay
    <3> QED
      BY <2>1, <2>2, <3>1
  <2>4. guard' \in [Guarded -> [current_state : BOOLEAN, since_change : 0..TIMER_SATISFIED]]
    BY <2>1, <2>3
  <2>5. req' \in [Outputs!Relays -> BOOLEAN]
    <3>1. \A r \in Guarded : guard'[r].current_state \in BOOLEAN
      BY <2>3
    <3> QED
      BY <2>1, <1>6, <3>1
  <2>6. UNCHANGED <<board, drivers>> /\ Outputs!Roles' = Outputs!Roles /\ outputs_phase = "run" /\
          outputs_phase' = "run"
    BY <1>9 DEF Outputs!apply_arbitration, Outputs!Roles, Outputs!Bindable
  <2>7. RelayTypes'
    BY <1>9, <2>4, <2>5 DEF Outputs!apply_arbitration, RelayInv, RelayTypes, Outputs!Created
  <2> QED
    BY <2>6, <2>7 DEF RelayInv, Believed, Untouched, Real
<1>10. CASE Outputs!ApplyOutputs
  BY <1>10, <1>4, <1>5, <1>6 DEF Outputs!ApplyOutputs
<1>11. CASE Outputs!Fatal
  BY <1>11, <1>4, <1>5, <1>6 DEF Outputs!Fatal, Outputs!SafeModeMessage, Outputs!Running
<1>12. CASE Outputs!RestartModule
  BY <1>12, <1>4, <1>5, <1>6 DEF Outputs!RestartModule, Outputs!Running
<1>13. CASE Outputs!on_stop
  BY <1>13, <1>4, <1>5, <1>6 DEF Outputs!on_stop, Outputs!Running
<1>14. CASE Outputs!Reboot
  <2>1. board' = [board EXCEPT !.byte = [r \in OnExpander |-> TRUE], !.on = Outputs!AllOff] /\
          board \in Boards
    BY <1>14 DEF Outputs!Reboot, RelayInv, RelayTypes
  <2>2. [r \in OnExpander |-> TRUE] \in [OnExpander -> BOOLEAN]
    OBVIOUS
  <2>3. board' \in Boards /\ board'.on = Outputs!AllOff
    BY <2>1, <2>2, <1>5 DEF Boards
  <2>4. NothingOn(board)'
    BY <2>3 DEF NothingOn, Outputs!AllOff
  <2>5. RelayTypes'
    <3>1. TIMER_SATISFIED \in 0..TIMER_SATISFIED /\ boots' \in Nat /\ 0 \in 0..Len(Outputs!Created)
      BY <1>14, <1>6, CreatedAreRelays DEF Outputs!EquipmentAssumption, Outputs!Reboot
    <3>2. guard' \in [Guarded -> [current_state : BOOLEAN, since_change : 0..TIMER_SATISFIED]]
      BY <1>14, <3>1 DEF Outputs!Reboot
    <3>3. held' \in [Guarded -> 0..TIMER_SATISFIED]
      BY <1>14, <3>1 DEF Outputs!Reboot
    <3> QED
      BY <1>14, <2>3, <3>1, <3>2, <3>3, <1>5 DEF Outputs!Reboot, RelayTypes, Outputs!Created
  <2>6. drivers' = {} /\ outputs_phase' = "hal"
    BY <1>14 DEF Outputs!Reboot
  <2> QED
    BY <2>4, <2>5, <2>6 DEF RelayInv, Believed
<1>15. CASE UNCHANGED Outputs!vars
  BY <1>15 DEF Outputs!vars, RelayInv, RelayTypes, Outputs!Created, NothingOn, Believed, AllLow,
     Untouched, Real, Outputs!Roles, Outputs!Bindable
<1> QED
  BY <1>1, <1>2, <1>3, <1>7, <1>8, <1>9, <1>10, <1>11, <1>12, <1>13, <1>14, <1>15
     DEF Outputs!Next, Outputs!BringUp, Outputs!Turn

LEMMA RelaysStay ==
  ASSUME Outputs!EquipmentAssumption
  PROVE  Outputs!Spec => []RelayInv
<1>1. Outputs!Init => RelayInv
  BY RelayInitInv
<1>2. RelayInv /\ [Outputs!Next]_(Outputs!vars) => RelayInv'
  BY RelayStepInv
<1> QED
  BY <1>1, <1>2, PTL DEF Outputs!Spec

(* A relay's bit in the byte the expander's relays share is what its driver *)
(* believes, whatever transfers failed.                                    *)
THEOREM BytesAreBeliefs ==
  ASSUME Outputs!EquipmentAssumption
  PROVE  Outputs!Spec => []Outputs!ByteIsBelief
<1>1. RelayInv => Outputs!ByteIsBelief
  BY DEF RelayInv, Believed, Outputs!ByteIsBelief
<1> QED
  BY <1>1, RelaysStay, PTL

(* An output nothing drives, because it is unbound, dropped or its driver   *)
(* failed, is off while the module runs.                                   *)
THEOREM NobodysOutputIsAlwaysOff ==
  ASSUME Outputs!EquipmentAssumption, ActiveLow
  PROVE  Outputs!Spec => []Outputs!NobodysOutputIsOff
<1>1. RelayInv => Outputs!NobodysOutputIsOff
  BY DEF RelayInv, Untouched, Outputs!NobodysOutputIsOff, Outputs!Energised, Outputs!Level
<1> QED
  BY <1>1, RelaysStay, PTL

(* Every failed transfer fails before the chip takes the byte, on relays    *)
(* driven by a low level.                                                  *)
NothingIsLate == ActiveLow /\ "late" \notin Failures

LEMMA RunKeepsReal ==
  ASSUME Outputs!EquipmentAssumption, NothingIsLate, RelayInv, RelayInv', outputs_phase = "run",
         outputs_phase' = "run", [Outputs!Next]_(Outputs!vars)
  PROVE  /\ Outputs!Roles' = Outputs!Roles /\ Real(board) /\ Untouched(board)
         /\ \A r \in Outputs!Roles : board'.line[r] = Outputs!Level(r, board'.on[r])
         /\ \A r \in Outputs!Relays \ Outputs!Roles : board'.line[r] = Outputs!Level(r, FALSE)
<1>1. drivers' = drivers
  BY DEF Outputs!Next, Outputs!BringUp, Outputs!Turn, Outputs!HalInit, Outputs!InitDriver,
     Outputs!BindAndInit, Outputs!TurnInSafeMode, Outputs!ProductHook, Outputs!apply_arbitration,
         Outputs!ApplyOutputs, Outputs!Fatal, Outputs!RestartModule, Outputs!on_stop,
         Outputs!Reboot, Outputs!vars
<1>2. Outputs!Roles' = Outputs!Roles
  BY <1>1 DEF Outputs!Roles, Outputs!Bindable
<1>3. Real(board) /\ Untouched(board) /\ Real(board)' /\ Untouched(board)'
  BY DEF RelayInv, NothingIsLate
<1> QED
  BY <1>2, <1>3 DEF Real, Untouched

(* Where no transfer fails late, a relay's pin moves only when its own      *)
(* driver's belief does: a neighbour's write of the shared byte moves no   *)
(* other relay.                                                            *)
THEOREM PinsFollowDrivers ==
  ASSUME Outputs!EquipmentAssumption, NothingIsLate
  PROVE  Outputs!Spec => Outputs!NoForeignMove
<1>1. ASSUME RelayInv, RelayInv', [Outputs!Next]_(Outputs!vars), outputs_phase = "run",
               outputs_phase' = "run",
             NEW r \in Outputs!Relays, board'.line[r] # board.line[r]
      PROVE  board'.on[r] # board.on[r]
  <2>1. /\ Outputs!Roles' = Outputs!Roles /\ Real(board) /\ Untouched(board)
        /\ \A o \in Outputs!Roles : board'.line[o] = Outputs!Level(o, board'.on[o])
        /\ \A o \in Outputs!Relays \ Outputs!Roles : board'.line[o] = Outputs!Level(o, FALSE)
    BY <1>1, RunKeepsReal
  <2> QED
    BY <1>1, <2>1 DEF Real, Untouched
<1>2. RelayInv /\ RelayInv' /\ [Outputs!Next]_(Outputs!vars)
      => [outputs_phase = "run" /\ outputs_phase' = "run" =>
           \A r \in Outputs!Relays : board'.line[r] # board.line[r] =>
             board'.on[r] # board.on[r]]_(Outputs!vars)
  BY <1>1
<1> QED
  BY <1>2, RelaysStay, PTL DEF Outputs!Spec, Outputs!NoForeignMove

(* Where no transfer fails late, what a turn publishes of an output is what *)
(* its pin does.                                                           *)
THEOREM TurnsShowWhatIs ==
  ASSUME Outputs!EquipmentAssumption, NothingIsLate
  PROVE  Outputs!Spec => Outputs!ShownIsReal
<1>1. ASSUME RelayInv, RelayInv', [Outputs!Next]_(Outputs!vars), outputs_phase = "run",
               outputs_at' = "idle", outputs_at = "apply" \/ outputs_safe_mode',
             UNCHANGED <<outputs_phase, boots>>, ~(UNCHANGED Outputs!vars), NEW r \in Outputs!Roles
      PROVE  published'[r] = (board'.line[r] = (r \in ActiveHigh))
  <2>1. Outputs!TurnInSafeMode \/ Outputs!ApplyOutputs \/ Outputs!Fatal
    BY <1>1 DEF Outputs!Next, Outputs!BringUp, Outputs!Turn, Outputs!HalInit,
       Outputs!InitDriver, Outputs!BindAndInit, Outputs!ProductHook, Outputs!apply_arbitration,
           Outputs!RestartModule, Outputs!on_stop, Outputs!Reboot, RelayInv, RelayTypes
  <2>2. r \in Outputs!Relays /\ board'.line[r] = Outputs!Level(r, board'.on[r]) /\
          Outputs!Roles' = Outputs!Roles
    BY <1>1, RunKeepsReal, RolesAreBound
  <2>3. published'[r] = board'.on[r]
    BY <2>1, <2>2 DEF Outputs!TurnInSafeMode, Outputs!ApplyOutputs, Outputs!Fatal,
       Outputs!SafeModeMessage, Outputs!publish_all_states
  <2>4. board'.on[r] \in BOOLEAN
    BY <1>1, <2>2 DEF RelayInv, RelayTypes, Boards
  <2> QED
    BY <2>2, <2>3, <2>4 DEF Outputs!Level
<1>2. RelayInv /\ RelayInv' /\ [Outputs!Next]_(Outputs!vars)
      => [outputs_phase = "run" /\ outputs_at' = "idle" /\
        (outputs_at = "apply" \/ outputs_safe_mode') /\ UNCHANGED <<outputs_phase, boots>> =>
           \A r \in Outputs!Roles :
             published'[r] = (board'.line[r] = (r \in ActiveHigh))]_(Outputs!vars)
  BY <1>1
<1> QED
  BY <1>2, RelaysStay, PTL DEF Outputs!Spec, Outputs!ShownIsReal

(* Without a FATAL of the product's own, the latch is only set between     *)
(* turns, and after it no step turns an output on.                         *)
THEOREM SafeModeAlwaysHolds ==
  ASSUME Outputs!EquipmentAssumption, ~NestedFatal
  PROVE  Outputs!Spec => Outputs!SafeModeHolds
<1> DEFINE Between == outputs_safe_mode => outputs_at = "idle"
<1>1. Outputs!Init => Between
  BY DEF Outputs!Init
<1>2. Between /\ [Outputs!Next]_(Outputs!vars) => Between'
  BY DEF Outputs!Next, Outputs!BringUp, Outputs!Turn, Outputs!HalInit, Outputs!InitDriver,
     Outputs!BindAndInit, Outputs!TurnInSafeMode, Outputs!ProductHook, Outputs!apply_arbitration,
         Outputs!ApplyOutputs, Outputs!Fatal, Outputs!SafeModeMessage, Outputs!RestartModule,
         Outputs!on_stop, Outputs!Reboot, Outputs!Running, Outputs!vars
<1>3. ASSUME RelayInv, RelayInv', Between, [Outputs!Next]_(Outputs!vars), outputs_safe_mode,
               outputs_safe_mode', NEW r \in Outputs!Relays, board'.on[r]
      PROVE  board.on[r]
  <2>1. ASSUME NEW ends \in Outputs!Ends, Outputs!Applied(Outputs!AllOff, ends),
                 outputs_phase = "run", drivers' = drivers
        PROVE  board.on[r]
    <3>1. Outputs!AllOff \in [Outputs!Relays -> BOOLEAN] /\ Outputs!AllOff[r] = FALSE
      BY DEF Outputs!AllOff
    <3>2. board'.on[r] \in {board.on[r], Outputs!AllOff[r]}
      BY <1>3, <2>1, <3>1, AppliedKeeps
    <3> QED
      BY <1>3, <3>1, <3>2
  <2>2. CASE Outputs!TurnInSafeMode \/ Outputs!RestartModule \/ Outputs!on_stop
    BY <2>1, <2>2 DEF Outputs!TurnInSafeMode, Outputs!RestartModule, Outputs!on_stop,
       Outputs!Running
  <2>3. CASE Outputs!BringUp
    <3>1. CASE Outputs!HalInit \/ Outputs!InitDriver
      BY <1>3, <3>1 DEF Outputs!HalInit, Outputs!InitDriver, RelayInv, NothingOn
    <3> QED
      BY <1>3, <2>3, <3>1 DEF Outputs!BringUp, Outputs!BindAndInit
  <2>4. ~Outputs!ProductHook /\ ~Outputs!apply_arbitration /\ ~Outputs!ApplyOutputs /\
          ~Outputs!Fatal /\ ~Outputs!Reboot
    BY <1>3 DEF Outputs!ProductHook, Outputs!apply_arbitration, Outputs!ApplyOutputs,
       Outputs!Fatal, Outputs!SafeModeMessage, Outputs!Reboot
  <2>5. CASE UNCHANGED Outputs!vars
    BY <1>3, <2>5 DEF Outputs!vars
  <2> QED
    BY <1>3, <2>2, <2>3, <2>4, <2>5 DEF Outputs!Next, Outputs!Turn
<1>4. RelayInv /\ RelayInv' /\ Between /\ [Outputs!Next]_(Outputs!vars) =>
        [Outputs!NothingTurnsOn]_(Outputs!vars)
  BY <1>3 DEF Outputs!NothingTurnsOn
<1> HIDE DEF Between
<1> QED
  BY <1>1, <1>2, <1>4, RelaysStay, PTL DEF Outputs!Spec, Outputs!SafeModeHolds

-----------------------------------------------------------------------------
(* The guard of a compressor: what it knows of an output is what the       *)
(* output is, and it never thinks that it has been so for longer.          *)
Undisturbed == ActiveLow /\ Failures = {} /\ ~NestedFatal /\ MaxBoots = 1

Shortest(on) == IF on THEN MinOff ELSE MinOn

GuardTrue(r) ==
  /\ outputs_at # "apply" => guard[r].current_state = board.on[r]
  /\ outputs_at = "idle" => guard[r].since_change <= held[r]
  /\ outputs_at = "arbitration" => Outputs!Lasted(guard[r].since_change) <= held[r]
  /\ outputs_at = "apply" => /\ req[r] = guard[r].current_state
                             /\ board.on[r] = guard[r].current_state =>
                                  guard[r].since_change <= held[r]
                             /\ board.on[r] # guard[r].current_state =>
                                  guard[r].since_change = 0 /\
                                    held[r] >= Shortest(guard[r].current_state)

GuardInv ==
  /\ boots = 1 /\ (outputs_safe_mode => outputs_at = "idle")
  /\ outputs_phase \in {"hal", "drivers"} =>
       /\ outputs_at = "idle"
       /\ \A r \in Guarded : ~guard[r].current_state /\ guard[r].since_change <= held[r]
  /\ outputs_phase = "run" /\ ~outputs_safe_mode => \A r \in Guarded \cap Outputs!Roles : GuardTrue(r)

LEMMA LastedGrows ==
  ASSUME Outputs!EquipmentAssumption, NEW s \in 0..TIMER_SATISFIED, NEW t \in 0..TIMER_SATISFIED
  PROVE  /\ Outputs!Lasted(s) \in 0..TIMER_SATISFIED
         /\ s <= t => Outputs!Lasted(s) <= Outputs!Lasted(t)
<1>1. TIMER_SATISFIED \in Nat
  BY DEF Outputs!EquipmentAssumption
<1> QED
  BY <1>1 DEF Outputs!Lasted

(* What a guard lets through has lasted; what it refuses stays.            *)
LEMMA GuardHolds ==
  ASSUME Outputs!EquipmentAssumption, NEW w \in BOOLEAN, NEW h \in 0..TIMER_SATISFIED,
         NEW g \in [current_state : BOOLEAN, since_change : 0..TIMER_SATISFIED],
         Outputs!Lasted(g.since_change) <= h
  PROVE  LET c == Outputs!ApplyGuard(g, w) IN
         /\ c.current_state = g.current_state => c.since_change <= h
         /\ c.current_state # g.current_state => c.since_change = 0 /\ h >= Shortest(c.current_state)
<1> DEFINE least == IF w THEN MinOff ELSE MinOn
           since == Outputs!Lasted(g.since_change)
<1>1. since \in 0..TIMER_SATISFIED /\ least \in 0..TIMER_SATISFIED /\ least = Shortest(w) /\
        since <= h
  BY LastedGrows DEF Outputs!EquipmentAssumption, Shortest
<1>2. Outputs!ApplyGuard(g, w) = IF w # g.current_state /\ since >= least
                                 THEN [current_state |-> w, since_change |-> 0]
                                 ELSE [g EXCEPT !.since_change = since]
  BY DEF Outputs!ApplyGuard
<1> HIDE DEF least, since
<1>3. CASE w # g.current_state /\ since >= least
  <2>1. h >= least
    BY <1>1, <1>3
  <2> QED
    BY <1>1, <1>2, <1>3, <2>1
<1>4. CASE ~(w # g.current_state /\ since >= least)
  BY <1>1, <1>2, <1>4
<1> QED
  BY <1>3, <1>4

LEMMA GuardStepInv ==
  ASSUME Outputs!EquipmentAssumption, Undisturbed, RelayInv, RelayInv', GuardInv,
         [Outputs!Next]_(Outputs!vars)
  PROVE  GuardInv'
<1> USE Outputs!EquipmentAssumption
<1>1. boots = 1 /\ MaxBoots = 1 /\ ~NestedFatal /\ NothingIsLate
  BY DEF GuardInv, Undisturbed, NothingIsLate
<1>2. CASE Outputs!HalInit \/ Outputs!InitDriver
  BY <1>2 DEF Outputs!HalInit, Outputs!InitDriver, GuardInv
<1>3. CASE Outputs!BindAndInit
  <2>1. /\ outputs_phase = "drivers" /\
             UNCHANGED <<board, guard, outputs_at, held, boots, outputs_safe_mode>>
        /\ \A r \in Guarded : r \in Outputs!Relays
    BY <1>3 DEF Outputs!BindAndInit, Outputs!EquipmentAssumption
  <2>2. \A r \in Guarded : ~board.on[r] /\ board.on[r] \in BOOLEAN
    BY <2>1 DEF RelayInv, RelayTypes, NothingOn, Boards
  <2>3. outputs_at = "idle" /\ \A r \in Guarded : ~guard[r].current_state /\
          guard[r].since_change <= held[r]
    BY <2>1 DEF GuardInv
  <2>4. \A r \in Guarded : guard[r].current_state \in BOOLEAN
    BY DEF RelayInv, RelayTypes
  <2>5. \A r \in Guarded : guard[r].current_state = board.on[r]
    BY <2>2, <2>3, <2>4
  <2> QED
    BY <1>1, <1>3, <2>1, <2>3, <2>5 DEF Outputs!BindAndInit, GuardInv, GuardTrue
<1>4. CASE Outputs!TurnInSafeMode \/ Outputs!Fatal
  BY <1>1, <1>4 DEF Outputs!TurnInSafeMode, Outputs!Fatal, Outputs!SafeModeMessage,
     Outputs!Running, GuardInv
<1>5. CASE Outputs!ProductHook
  <2>1. /\ UNCHANGED <<board, guard, drivers, boots, outputs_safe_mode>> /\ outputs_at = "idle" /\
             outputs_at' = "arbitration"
        /\ outputs_phase = "run" /\ outputs_phase' = "run" /\ ~outputs_safe_mode /\
             held' = Outputs!Waited
    BY <1>1, <1>5 DEF Outputs!ProductHook, Outputs!Running
  <2>2. Outputs!Roles' = Outputs!Roles
    BY <2>1 DEF Outputs!Roles, Outputs!Bindable
  <2>3. ASSUME NEW r \in Guarded \cap Outputs!Roles
        PROVE  GuardTrue(r)'
    <3>1. guard[r].current_state = board.on[r] /\ guard[r].since_change <= held[r]
      BY <2>1 DEF GuardInv, GuardTrue
    <3>2. guard[r].since_change \in 0..TIMER_SATISFIED /\ held[r] \in 0..TIMER_SATISFIED
      BY DEF RelayInv, RelayTypes
    <3>3. held'[r] = Outputs!Lasted(held[r])
      BY <2>1 DEF Outputs!Waited
    <3>4. Outputs!Lasted(guard[r].since_change) <= Outputs!Lasted(held[r])
      BY <3>1, <3>2, LastedGrows
    <3> QED
      BY <2>1, <3>1, <3>3, <3>4 DEF GuardTrue, Outputs!Lasted
  <2> QED
    BY <1>1, <2>1, <2>2, <2>3 DEF GuardInv
<1>6. CASE Outputs!apply_arbitration
  <2>1. /\ UNCHANGED <<board, held, drivers, boots, outputs_safe_mode>> /\
             outputs_at = "arbitration" /\ outputs_at' = "apply"
        /\ outputs_phase = "run" /\ outputs_phase' = "run" /\ ~outputs_safe_mode
    BY <1>6 DEF Outputs!apply_arbitration, GuardInv
  <2>2. Outputs!Roles' = Outputs!Roles
    BY <2>1 DEF Outputs!Roles, Outputs!Bindable
  <2>3. PICK want \in [Outputs!Roles -> BOOLEAN] :
          /\ guard' = [r \in Guarded |->
                         IF r \in Outputs!Roles THEN Outputs!ApplyGuard(guard[r], want[r])
                           ELSE guard[r]]
          /\ req' = [r \in Outputs!Relays |-> CASE r \in Guarded -> guard'[r].current_state
                                        [] r \in Outputs!Roles \ Guarded -> want[r]
                                        [] OTHER -> req[r]]
    BY <1>6 DEF Outputs!apply_arbitration
  <2>4. ASSUME NEW r \in Guarded \cap Outputs!Roles
        PROVE  GuardTrue(r)'
    <3>1. guard[r].current_state = board.on[r] /\ Outputs!Lasted(guard[r].since_change) <= held[r]
      BY <2>1 DEF GuardInv, GuardTrue
    <3>2. /\ guard[r] \in [current_state : BOOLEAN, since_change : 0..TIMER_SATISFIED]
          /\ held[r] \in 0..TIMER_SATISFIED /\ want[r] \in BOOLEAN /\ r \in Outputs!Relays
      BY RolesAreBound DEF RelayInv, RelayTypes
    <3> DEFINE c == Outputs!ApplyGuard(guard[r], want[r])
    <3>3. guard'[r] = c
      BY <2>3
    <3>4. req'[r] = c.current_state
      BY <2>3, <3>2, <3>3
    <3>5. /\ c.current_state = guard[r].current_state => c.since_change <= held[r]
          /\ c.current_state # guard[r].current_state =>
               c.since_change = 0 /\ held[r] >= Shortest(c.current_state)
      BY <3>1, <3>2, GuardHolds
    <3> HIDE DEF c
    <3> QED
      BY <2>1, <3>1, <3>3, <3>4, <3>5 DEF GuardTrue, Shortest
  <2> QED
    BY <1>1, <2>1, <2>2, <2>4 DEF GuardInv
<1>7. CASE Outputs!ApplyOutputs
  <2>1. PICK ends \in Outputs!Ends : Outputs!Applied(req, ends)
    BY <1>7 DEF Outputs!ApplyOutputs
  <2>2. /\ outputs_phase = "run" /\ outputs_at = "apply" /\ outputs_at' = "idle" /\
             outputs_phase' = "run" /\ Outputs!Stretch(held)
        /\ UNCHANGED <<drivers, outputs_safe_mode, guard, boots>> /\ ~outputs_safe_mode
    BY <1>7 DEF Outputs!ApplyOutputs, GuardInv
  <2>3. Outputs!Roles' = Outputs!Roles /\ \A o \in Outputs!Roles : board'.on[o] = req[o]
    <3>1. req \in [Outputs!Relays -> BOOLEAN]
      BY DEF RelayInv, RelayTypes
    <3> QED
      BY <2>1, <2>2, <3>1, AppliedKeeps DEF Undisturbed
  <2>4. ASSUME NEW r \in Guarded \cap Outputs!Roles
        PROVE  GuardTrue(r)'
    <3>1. /\ req[r] = guard[r].current_state
          /\ board.on[r] = guard[r].current_state => guard[r].since_change <= held[r]
          /\ board.on[r] # guard[r].current_state => guard[r].since_change = 0
      BY <2>2 DEF GuardInv, GuardTrue
    <3>2. /\ Outputs!Roles' = Outputs!Roles /\ Real(board)
          /\ \A o \in Outputs!Roles : board'.line[o] = Outputs!Level(o, board'.on[o])
      BY <1>1, <2>2, RunKeepsReal
    <3>3. board'.on[r] = guard[r].current_state
      BY <2>3, <3>1
    <3>4. board.on[r] = guard[r].current_state => board'.line[r] = board.line[r]
      BY <3>2, <3>3 DEF Real
    <3>5. held'[r] = IF board'.line[r] = board.line[r] THEN held[r] ELSE 0
      BY <2>2 DEF Outputs!Stretch
    <3>6. /\ board.on[r] = guard[r].current_state => guard[r].since_change <= held'[r]
          /\ board.on[r] # guard[r].current_state => guard[r].since_change <= held'[r]
      <4>1. held[r] \in 0..TIMER_SATISFIED /\ 0 \in Nat
        BY DEF RelayInv, RelayTypes
      <4> QED
        BY <3>1, <3>4, <3>5, <4>1
    <3> QED
      BY <2>2, <3>3, <3>6 DEF GuardTrue
  <2> QED
    BY <2>2, <2>3, <2>4 DEF GuardInv
<1>8. ~Outputs!RestartModule /\ ~Outputs!on_stop /\ ~Outputs!Reboot
  BY <1>1 DEF Outputs!RestartModule, Outputs!on_stop, Outputs!Reboot
<1>9. CASE UNCHANGED Outputs!vars
  BY <1>9 DEF Outputs!vars, GuardInv, GuardTrue, Outputs!Roles, Outputs!Bindable,
     Outputs!Lasted, Shortest
<1> QED
  BY <1>2, <1>3, <1>4, <1>5, <1>6, <1>7, <1>8, <1>9 DEF Outputs!Next, Outputs!BringUp,
     Outputs!Turn

(* A guarded output changes only after it has been as it is for the guard's *)
(* minimum, as long as nothing fails, restarts or nests.                   *)
THEOREM ShortCyclesAreAvoided ==
  ASSUME Outputs!EquipmentAssumption, Undisturbed
  PROVE  Outputs!Spec => Outputs!ShortCyclesAvoided
<1>1. Outputs!Init => GuardInv
  <2>1. TIMER_SATISFIED \in Nat
    BY DEF Outputs!EquipmentAssumption
  <2> QED
    BY <2>1 DEF Outputs!Init, GuardInv
<1>2. RelayInv /\ RelayInv' /\ GuardInv /\ [Outputs!Next]_(Outputs!vars) => GuardInv'
  BY GuardStepInv
<1>3. ASSUME RelayInv, RelayInv', GuardInv, [Outputs!Next]_(Outputs!vars), NEW r \in Guarded,
             outputs_phase = "run", outputs_phase' = "run", board'.line[r] # board.line[r],
               outputs_at = "apply"
      PROVE  held[r] >= IF board'.on[r] THEN MinOff ELSE MinOn
  <2>1. NothingIsLate /\ r \in Outputs!Relays /\ ~outputs_safe_mode
    BY <1>3 DEF Undisturbed, NothingIsLate, Outputs!EquipmentAssumption, GuardInv
  <2>2. /\ Outputs!Roles' = Outputs!Roles /\ Real(board) /\ Untouched(board)
        /\ \A o \in Outputs!Roles : board'.line[o] = Outputs!Level(o, board'.on[o])
        /\ \A o \in Outputs!Relays \ Outputs!Roles : board'.line[o] = Outputs!Level(o, FALSE)
    BY <1>3, <2>1, RunKeepsReal
  <2>3. r \in Outputs!Roles /\ board'.on[r] # board.on[r]
    BY <1>3, <2>1, <2>2 DEF Real, Untouched
  <2>4. Outputs!ApplyOutputs
    BY <1>3 DEF Outputs!Next, Outputs!BringUp, Outputs!Turn, Outputs!HalInit,
       Outputs!InitDriver, Outputs!BindAndInit, Outputs!TurnInSafeMode, Outputs!ProductHook,
       Outputs!apply_arbitration,
           Outputs!Fatal, Outputs!RestartModule, Outputs!on_stop, Outputs!Reboot,
           Outputs!Running, Outputs!vars
  <2>5. board'.on[r] = req[r]
    <3>1. PICK ends \in Outputs!Ends : Outputs!Applied(req, ends) /\ drivers' = drivers
      BY <2>4 DEF Outputs!ApplyOutputs
    <3>2. req \in [Outputs!Relays -> BOOLEAN]
      BY <1>3 DEF RelayInv, RelayTypes
    <3> QED
      BY <1>3, <2>3, <3>1, <3>2, AppliedKeeps DEF Undisturbed
  <2> QED
    BY <1>3, <2>1, <2>3, <2>5 DEF GuardInv, GuardTrue, Shortest
<1>4. RelayInv /\ RelayInv' /\ GuardInv /\ [Outputs!Next]_(Outputs!vars) =>
        [Outputs!HeldLongEnough]_(Outputs!vars)
  BY <1>3 DEF Outputs!HeldLongEnough
<1> QED
  BY <1>1, <1>2, <1>4, RelaysStay, PTL DEF Outputs!Spec, Outputs!ShortCyclesAvoided

=============================================================================
