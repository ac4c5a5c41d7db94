----------------------------- MODULE DataLogger -----------------------------
(***************************************************************************)
(* modules/datalogger: samples and events are gathered in memory by the    *)
(* main task, flushed to two files each, the older one dropped when the    *)
(* newer is full, and read out by the HTTP task while the main task goes   *)
(* on.  io_mutex_ guards the files, buf_mutex_ short accesses to memory:   *)
(* what it guards is one step here.                                        *)
(*                                                                         *)
(* A record is its number in the order of logging, 0 one that is read from *)
(* the wrong place: after a write that was cut short all that is appended  *)
(* lies askew.                                                             *)
(***************************************************************************)
EXTENDS Integers, Sequences, FiniteSets

CONSTANTS
  Streams,         \* "temp", "event"
  Capacity,        \* of the buffers
  MaxSize,         \* of a file, in records: the retention
  MaxRecords, MaxReads, MaxCuts, MaxFailures, MaxReboots   \* bounds

DataLoggerAssumption ==
  /\ Streams \subseteq {"temp", "event"} /\ {Capacity, MaxSize} \subseteq Nat \ {0}
  /\ {MaxRecords, MaxReads, MaxCuts, MaxFailures, MaxReboots} \subseteq Nat

VARIABLES
  next,            \* stream |-> the number of the next record
  buf,             \* temp_buf_, event_buf_
  old, new,        \* the files
  count,           \* temp_count_, event_count_
  io,              \* who holds io_mutex_
  main,            \* [pc, stream it is at]
  snap,            \* the snapshot being flushed
  sampling,        \* a sample is to be pushed once the flush is through
  http,            \* what the download has read
  owed,            \* the records there when it began
  dropped,         \* records a full buffer did not take
  gone,            \* records a failed write lost
  used

memory == <<buf, snap, sampling>>
files == <<old, new>>
reading == <<http, owed>>
history == <<dropped, gone>>
vars == <<next, memory, files, count, io, main, reading, history, used>>

Use(k, bound) == used[k] < bound /\ used' = [used EXCEPT ![k] = @ + 1]
Elems(s) == {s[i] : i \in DOMAIN s}
NoFile == [recs |-> <<>>, torn |-> FALSE]
Idle == [pc |-> "idle", stream |-> "none"]
PutOff == [pc |-> "log", stream |-> "put off"]   \* a download has the files
NoRead == [pc |-> "idle", got |-> [s \in Streams |-> <<>>], ram |-> [s \in Streams |-> <<>>]]
Nothing == [s \in Streams |-> {}]

Init ==
  /\ next = [s \in Streams |-> 1] /\ buf = [s \in Streams |-> <<>>]
  /\ old = [s \in Streams |-> NoFile] /\ new = [s \in Streams |-> NoFile]
  /\ count = [s \in Streams |-> 0]
  /\ io = "free" /\ main = Idle
  /\ snap = [s \in Streams |-> <<>>] /\ sampling = FALSE
  /\ http = NoRead /\ owed = Nothing /\ dropped = Nothing /\ gone = Nothing
  /\ used = [reads |-> 0, cuts |-> 0, failures |-> 0, reboots |-> 0]

-----------------------------------------------------------------------------
(* on_update(), on the main task                                           *)

Full(s) == Len(buf[s]) >= Capacity

PushOver(s) ==   \* seeded fault: a full buffer takes one more
  next' = [next EXCEPT ![s] = @ + 1] /\ buf' = [buf EXCEPT ![s] = Append(@, next[s])]
  /\ UNCHANGED dropped
(* log_event(), and the end of a sample                                    *)
Push(s) ==
  /\ next' = [next EXCEPT ![s] = @ + 1]
  /\ IF Full(s) THEN dropped' = [dropped EXCEPT ![s] = @ \cup {next[s]}] /\ UNCHANGED buf
     ELSE buf' = [buf EXCEPT ![s] = Append(@, next[s])] /\ UNCHANGED dropped
CanLog(s) == main.pc = "idle" /\ next[s] <= MaxRecords

Event ==
  /\ "event" \in Streams /\ CanLog("event") /\ Push("event")
  /\ UNCHANGED <<snap, sampling, files, count, io, main, reading, gone, used>>

(* a full buffer is flushed first, when that can be done at once           *)
Sample ==
  /\ "temp" \in Streams /\ CanLog("temp")
  /\ IF Full("temp")
     THEN main' = [pc |-> "flush", stream |-> "none"] /\ sampling' = TRUE
          /\ UNCHANGED <<next, buf, dropped>>
     ELSE Push("temp") /\ UNCHANGED <<main, sampling>>
  /\ UNCHANGED <<snap, files, count, io, reading, gone, used>>

FlushTimer ==
  /\ main.pc = "idle" /\ main' = [pc |-> "flush", stream |-> "none"]
  /\ UNCHANGED <<next, memory, files, count, io, reading, history, used>>

(* flush_to_flash(): io_mutex_ is tried for, or the flush put off          *)
Order == SelectSeq(<<"temp", "event">>, LAMBDA s : s \in Streams)
After(s) == IF s = "temp" /\ "event" \in Streams THEN [pc |-> "write", stream |-> "event"]
            ELSE [pc |-> "release", stream |-> "none"]
Taken ==
  /\ snap' = buf /\ buf' = [s \in Streams |-> <<>>]
  /\ main' = [pc |-> "write", stream |-> Order[1]]
FlushUnlocked ==   \* seeded fault: the files are not locked
  /\ main.pc = "flush" /\ Taken
  /\ UNCHANGED <<next, sampling, files, count, io, reading, history, used>>
Flush ==
  /\ main.pc = "flush"
  /\ IF io = "free"
     THEN io' = "main" /\ Taken ELSE main' = PutOff /\ UNCHANGED <<buf, snap, io>>
  /\ UNCHANGED <<next, sampling, files, count, reading, history, used>>

(* Records after a torn one are read from the wrong place.                 *)
Appended(f, recs) ==
  [f EXCEPT !.recs = @ \o (IF f.torn THEN [i \in DOMAIN recs |-> 0] ELSE recs)]
Written(s, n) ==
  /\ new' = [new EXCEPT ![s] = Appended(@, SubSeq(snap[s], 1, n))]
  /\ count' = [count EXCEPT ![s] = @ + n]
  /\ gone' = [gone EXCEPT ![s] = @ \cup Elems(SubSeq(snap[s], n + 1, Len(snap[s])))]
  /\ main' = [main EXCEPT !.pc = "rotate"] /\ snap' = [snap EXCEPT ![s] = <<>>]
  /\ UNCHANGED <<next, buf, sampling, old, io, reading, dropped>>
Writing == main.pc = "write" /\ snap[main.stream] # <<>>
Write == Writing /\ Written(main.stream, Len(snap[main.stream])) /\ UNCHANGED used
(* There is no file, or no room for all of it.                             *)
WriteFails == Writing /\ Use("failures", MaxFailures) /\ Written(main.stream, 0)
NothingToWrite ==
  /\ main.pc = "write" /\ snap[main.stream] = <<>>
  /\ main' = After(main.stream)
  /\ UNCHANGED <<next, memory, files, count, io, reading, history, used>>

(* rotate_if_needed()                                                      *)
Oversize(s) == Len(new[s].recs) > MaxSize
RemoveOld ==
  /\ main.pc = "rotate"
  /\ IF Oversize(main.stream)
     THEN old' = [old EXCEPT ![main.stream] = NoFile] /\ main' = [main EXCEPT !.pc = "rename"]
     ELSE main' = After(main.stream) /\ UNCHANGED old
  /\ UNCHANGED <<next, memory, new, count, io, reading, history, used>>
Rename ==
  /\ main.pc = "rename"
  /\ old' = [old EXCEPT ![main.stream] = new[main.stream]]
  /\ new' = [new EXCEPT ![main.stream] = NoFile]
  /\ main' = After(main.stream)
  /\ UNCHANGED <<next, memory, count, io, reading, history, used>>

Release ==
  /\ main.pc = "release" /\ io' = "free" /\ main' = [main EXCEPT !.pc = "log"]
  /\ UNCHANGED <<next, memory, files, count, reading, history, used>>
PushAfter ==
  /\ main.pc = "log" /\ main' = Idle /\ sampling' = FALSE
  /\ IF sampling THEN Push("temp") ELSE UNCHANGED <<next, buf, dropped>>
  /\ UNCHANGED <<snap, files, count, io, reading, gone, used>>

-----------------------------------------------------------------------------
(* serialize_log_chunked(), on the HTTP task.  Each chunk is sent before   *)
(* the next is read, and takes as long as the client does.                 *)

Kept(s) == Elems(old[s].recs) \cup Elems(new[s].recs) \cup Elems(buf[s])
ReadBegins ==
  /\ http.pc = "idle" /\ main.pc # "boot" /\ Use("reads", MaxReads)
  /\ http' = [NoRead EXCEPT !.pc = "wait"]
  /\ UNCHANGED <<next, memory, files, count, io, main, owed, history>>
LockFiles ==
  /\ http.pc = "wait" /\ io = "free" /\ io' = "http"
  /\ http' = [http EXCEPT !.pc = "ram"] /\ owed' = [s \in Streams |-> Kept(s)]
  /\ UNCHANGED <<next, memory, files, count, main, history, used>>
CopyMemory ==
  /\ http.pc = "ram" /\ http' = [http EXCEPT !.pc = "old", !.ram = buf]
  /\ UNCHANGED <<next, memory, files, count, io, main, owed, history, used>>
Reads(file, then) == http' = [http EXCEPT !.pc = then,
                                          !.got = [s \in Streams |-> @[s] \o file[s].recs]]
ReadOld ==
  /\ http.pc = "old" /\ Reads(old, "new")
  /\ UNCHANGED <<next, memory, files, count, io, main, owed, history, used>>
ReadNew ==
  /\ http.pc = "new" /\ Reads(new, "end")
  /\ UNCHANGED <<next, memory, files, count, io, main, owed, history, used>>
ReadEnds ==
  /\ http.pc = "end" /\ io' = "free"
  /\ http' = [http EXCEPT !.pc = "done", !.got = [s \in Streams |-> @[s] \o http.ram[s]]]
  /\ UNCHANGED <<next, memory, files, count, main, owed, history, used>>
Abandon ==
  /\ http.pc \in {"old", "new"} /\ http' = NoRead /\ io' = "free"
  /\ UNCHANGED <<next, memory, files, count, main, owed, history, used>>
ReadForgotten ==
  /\ http.pc = "done" /\ http' = NoRead
  /\ UNCHANGED <<next, memory, files, count, io, main, owed, history, used>>

-----------------------------------------------------------------------------
(* Loss of power, possibly in the middle of a record, and on_init()        *)

Reboot ==
  /\ buf' = [s \in Streams |-> <<>>] /\ snap' = [s \in Streams |-> <<>>] /\ sampling' = FALSE
  /\ http' = NoRead /\ io' = "free" /\ main' = [pc |-> "boot", stream |-> "old"]
  /\ owed' = Nothing
  /\ gone' = [s \in Streams |-> gone[s] \cup Elems(buf[s])
                                 \cup (IF main.pc = "rescue" THEN {} ELSE Elems(snap[s]))]
PowerLoss ==
  /\ Use("reboots", MaxReboots) /\ Reboot
  /\ UNCHANGED <<next, files, count, dropped>>
(* n records of those being written, and a part of the next                *)
CutWrite ==
  /\ Writing /\ Use("cuts", MaxCuts)
  /\ \E n \in 0..Len(snap[main.stream]) - 1 :
       new' = [new EXCEPT ![main.stream] =
                 [Appended(@, SubSeq(snap[main.stream], 1, n)) EXCEPT !.torn = TRUE]]
  /\ Reboot
  /\ UNCHANGED <<next, old, count, dropped>>

(* migrate_old_format() copies what is whole of a torn file, removes the   *)
(* file, and gives the copy its name; the files of samples only.           *)
Torn(f) == "temp" \in Streams /\ f["temp"].torn
AfterOld == [pc |-> "boot", stream |-> "new"]
Migrate ==
  /\ main.pc = "boot"
  /\ \/ /\ main.stream = "old" /\ ~Torn(old) /\ main' = AfterOld /\ UNCHANGED count
     \/ /\ main.stream = "new" /\ ~Torn(new) /\ main' = [pc |-> "log", stream |-> "none"]
        /\ count' = [s \in Streams |-> Len(old[s].recs) + Len(new[s].recs)]
  /\ UNCHANGED <<next, memory, files, io, reading, history, used>>
RemoveTorn ==
  /\ main.pc = "boot" /\ main.stream = "new" /\ Torn(new)
  /\ main' = [pc |-> "rescue", stream |-> "temp"] /\ snap' = [snap EXCEPT !["temp"] = new["temp"].recs]
  /\ new' = [new EXCEPT !["temp"] = NoFile]
  /\ UNCHANGED <<next, buf, sampling, old, count, io, reading, history, used>>
RenameCopy ==
  /\ main.pc = "rescue"
  /\ new' = [new EXCEPT !["temp"].recs = snap["temp"]]
  /\ snap' = [snap EXCEPT !["temp"] = <<>>]
  /\ main' = AfterOld
  /\ UNCHANGED <<next, buf, sampling, old, count, io, reading, history, used>>

-----------------------------------------------------------------------------
MainTask == Event \/ Sample \/ FlushTimer \/ Flush \/ Write \/ WriteFails \/ NothingToWrite
            \/ RemoveOld \/ Rename \/ Release \/ PushAfter \/ Migrate \/ RemoveTorn \/ RenameCopy
HttpTask == ReadBegins \/ LockFiles \/ CopyMemory \/ ReadOld \/ ReadNew \/ ReadEnds \/ Abandon
            \/ ReadForgotten
Next == MainTask \/ HttpTask \/ PowerLoss \/ CutWrite

(* The main task takes its turns; of the HTTP task nothing is asked, for   *)
(* its client may never read.                                              *)
OwnStep == Flush \/ Write \/ NothingToWrite \/ RemoveOld \/ Rename \/ Release \/ PushAfter
           \/ Migrate \/ RemoveTorn \/ RenameCopy
Fairness == WF_vars(OwnStep)
Spec == Init /\ [][Next]_vars /\ Fairness

-----------------------------------------------------------------------------
Logged(s) == 1..(next[s] - 1)
TypeOK ==
  /\ io \in {"free", "main", "http"}
  /\ \A s \in Streams :
       /\ Len(buf[s]) <= Capacity /\ Kept(s) \subseteq Logged(s) \cup {0}
       /\ count[s] \in Nat /\ dropped[s] \subseteq Logged(s) /\ gone[s] \subseteq Logged(s)
  /\ main.pc \in {"idle", "flush", "write", "rotate", "rename", "release", "log", "boot", "rescue"}
  /\ http.pc \in {"idle", "wait", "ram", "old", "new", "end", "done"}

(* Whatever is logged, flushed and rotated meanwhile, a download holds the *)
(* records there were when it began, each once and in their order.         *)
Ascending(q) == \A i, j \in DOMAIN q : i < j => q[i] < q[j]
DownloadIsWhole ==
  http.pc = "done" => \A s \in Streams : Ascending(http.got[s]) /\ owed[s] \subseteq Elems(http.got[s])

(* "avoid the silent loss of samples": a sample is lost only when the flush*)
(* before it was put off, and a download had the files then.               *)
LostOnlyWhileRead ==
  [][/\ dropped["temp"] # dropped'["temp"] => main = PutOff
     /\ main # PutOff /\ main' = PutOff => io = "http"]_vars

(* The newest records, as many as the retention says, are kept, and flash  *)
(* holds no more than two files' worth and what one flush may add.         *)
Safe(s) == Logged(s) \ (dropped[s] \cup gone[s])
Newest(s) == {n \in Safe(s) : Cardinality({m \in Safe(s) : m > n}) < MaxSize}
RetentionKept ==
  main.pc \in {"idle", "log"} => \A s \in Streams : Newest(s) \subseteq Kept(s)
FlashIsBounded ==
  \A s \in Streams : Len(old[s].recs) + Len(new[s].recs) <= 2 * (MaxSize + Capacity)

(* "the main loop is NEVER stalled by a multi-second HTTP download".       *)
MainNeverStalls == []<>(main.pc = "idle")

(* Samples and events can be written again after any download, abandoned   *)
(* ones too.                                                               *)
FilesAreFreed == io = "http" => http.pc \in {"ram", "old", "new", "end"}

(* "records_count": how many records there are.                            *)
\* Broken by the code: the count of records grows past what is kept when a
\* file is dropped.
CountIsTrue == main.pc = "idle" => \A s \in Streams : count[s] = Len(old[s].recs) + Len(new[s].recs)

(* "the last incomplete record is discarded, the rest is kept": nothing is *)
(* read from the wrong place.                                              *)
NothingAskew == main.pc = "idle" => \A s \in Streams : 0 \notin Kept(s)
=============================================================================
