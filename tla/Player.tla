-------------------------------- MODULE Player --------------------------------
(***************************************************************************)
(* The audio player: modules/player/src/player_module.cpp, with the stream *)
(* of the MAX98357A sink and the opening and closing of the decoders.      *)
(*                                                                         *)
(* The main task's on_update reads the command keys of the shared state,   *)
(* posts requests to a queue of four and mirrors one atomic flag.  The     *)
(* playback task owns the sink and plays one request at a time, a buffer   *)
(* per round.  The web and MQTT tasks write the keys whenever they like,   *)
(* also between two steps of on_update.                                    *)
(*                                                                         *)
(* Left out: the volume, which is one atomic; the samples; the 48-byte cut *)
(* of a clip's name.  A sound's length is a number of buffers.             *)
(***************************************************************************)
EXTENDS Integers, Sequences

CONSTANTS
  Length,       \* the longest each sound lasts, in buffers: [Sound -> Nat \ {0}]
  Endless,      \* sounds that go on until they are stopped: {"clip"} or nothing
  QUEUE,        \* the capacity of the request queue (4)
  MaxCommands,  \* how many commands the environment gives
  MaxSwitches,  \* how often it switches player.enabled
  Hurried       \* TRUE: commands come however many wait in the queue

Sound == {"alarm", "beep", "clip"}

PlayerAssumption ==
  /\ Length \in [Sound -> Nat \ {0}] /\ Endless \subseteq {"clip"} /\ QUEUE \in Nat \ {0}
  /\ MaxCommands \in Nat /\ MaxSwitches \in Nat /\ Hurried \in BOOLEAN

VARIABLES
  keys,      \* player.enabled and the command keys
  shown,     \* player.playing and player.clip
  q,         \* the request queue
  at,        \* where on_update is
  task,      \* the playback task: where it is, its request, its active sound
  playing,   \* playing_, the atomic
  dev,       \* the sink's stream and the open decoder
  budget,    \* the commands and switches still to come
  heard      \* history: the commands on_update has taken up since the last mirror

vars == <<keys, shown, q, at, task, playing, dev, budget, heard>>

Nothing == "nothing"
Request == Sound \cup {"stop"}

Init ==
  /\ keys = [enabled |-> TRUE, stop |-> FALSE, play |-> Nothing, alarm |-> FALSE, beep |-> FALSE]
  /\ shown = [playing |-> FALSE, clip |-> Nothing]
  /\ q = <<>> /\ at = "top"
  /\ task = [at |-> "fetch", req |-> Nothing, active |-> Nothing, left |-> 0]
  /\ playing = FALSE
  /\ dev = [stream |-> FALSE, decoder |-> FALSE]
  /\ budget = [commands |-> MaxCommands, switches |-> MaxSwitches]
  /\ heard = {}

(* post: xQueueSend without waiting.                                       *)
Posted(r) == IF Len(q) < QUEUE THEN Append(q, r) ELSE q

(***************************************************************************)
(* The main task.                                                          *)
(***************************************************************************)

(* The player is switched off: a Stop on every pass while it still plays,  *)
(* and no command is looked at.                                            *)
SwitchedOff ==
  /\ at = "top" /\ ~ keys.enabled
  /\ q' = IF playing THEN Posted("stop") ELSE q
  /\ shown' = [shown EXCEPT !.playing = playing]
  /\ UNCHANGED <<keys, at, task, playing, dev, budget, heard>>

(* player.stop.                                                            *)
StopCommand ==
  /\ at = "top" /\ keys.enabled
  /\ IF keys.stop
     THEN /\ keys' = [keys EXCEPT !.stop = FALSE]
          /\ q' = Posted("stop")
          /\ heard' = {"stop"}
     ELSE UNCHANGED <<keys, q>> /\ heard' = {}
  /\ at' = "play"
  /\ UNCHANGED <<shown, task, playing, dev, budget>>

(* player.play: the name that was read is posted; then the key is emptied. *)
PlayCommand ==
  /\ at = "play"
  /\ IF keys.play = Nothing
     THEN at' = "alarm" /\ UNCHANGED <<shown, q, heard>>
     ELSE /\ q' = Posted(keys.play)
          /\ shown' = [shown EXCEPT !.clip = keys.play]
          /\ heard' = heard \cup {keys.play}
          /\ at' = "consume"
  /\ UNCHANGED <<keys, task, playing, dev, budget>>

PlayConsumed ==
  /\ at = "consume"
  /\ keys' = [keys EXCEPT !.play = Nothing]
  /\ at' = "alarm"
  /\ UNCHANGED <<shown, q, task, playing, dev, budget, heard>>

(* player.btn_alarm and player.btn_beep; the second ends the pass.         *)
Button(b) ==
  /\ at = b
  /\ IF keys[b]
     THEN /\ keys' = [keys EXCEPT ![b] = FALSE]
          /\ q' = Posted(b)
          /\ shown' = [clip |-> b, playing |-> IF b = "beep" THEN playing ELSE shown.playing]
          /\ heard' = heard \cup {b}
     ELSE /\ shown' = IF b = "beep" THEN [shown EXCEPT !.playing = playing] ELSE shown
          /\ UNCHANGED <<keys, q, heard>>
  /\ at' = IF b = "alarm" THEN "beep" ELSE "top"
  /\ UNCHANGED <<task, playing, dev, budget>>

MainTask ==
  SwitchedOff \/ StopCommand \/ PlayCommand \/ PlayConsumed \/ \E b \in {"alarm", "beep"} : Button(b)

(***************************************************************************)
(* The playback task.                                                      *)
(***************************************************************************)

Idle == task.active = Nothing

(* end_active: the sink muted and stopped, the decoder closed.             *)
end_active ==
  /\ dev' = [stream |-> FALSE, decoder |-> FALSE]
  /\ playing' = FALSE

(* What is playing yields to a request.                                    *)
Yields(r) == ~ (task.active = "alarm" /\ r # "alarm")

(* One command a round; an idle task blocks until there is one.            *)
Fetch ==
  /\ task.at = "fetch"
  /\ IF q = <<>>
     THEN /\ ~ Idle
          /\ task' = [task EXCEPT !.at = "stream"]
          /\ UNCHANGED <<q, playing, dev>>
     ELSE /\ q' = Tail(q)
          /\ \/ /\ Head(q) = "stop"
                /\ task' = [task EXCEPT !.active = Nothing]
                /\ IF Idle THEN UNCHANGED <<playing, dev>> ELSE end_active
             \/ /\ Head(q) # "stop" /\ ~ Yields(Head(q))
                /\ task' = [task EXCEPT !.at = "stream"]
                /\ UNCHANGED <<playing, dev>>
             \/ /\ Head(q) # "stop" /\ Yields(Head(q))
                /\ task' = [task EXCEPT !.at = "start", !.req = Head(q), !.active = Nothing]
                /\ IF Idle THEN UNCHANGED <<playing, dev>> ELSE end_active
  /\ UNCHANGED <<keys, shown, at, budget, heard>>

(* start_active: the decoder opens the file or not; the sink starts or not *)
(* and takes the decoder down with it.                                     *)
NotStarted == [task EXCEPT !.at = "fetch", !.req = Nothing]

OpenDecoder ==
  /\ task.at = "start" /\ task.req = "clip" /\ ~ dev.decoder
  /\ \/ dev' = [dev EXCEPT !.decoder = TRUE] /\ UNCHANGED task
     \/ task' = NotStarted /\ UNCHANGED dev
  /\ UNCHANGED <<keys, shown, q, at, playing, budget, heard>>

(* Seeded fault: the decoder stays open when the sink does not start.      *)
StartSinkLeaking ==
  /\ task.at = "start" /\ (task.req = "clip" => dev.decoder)
  /\ \/ /\ task' = NotStarted /\ UNCHANGED <<dev, playing>>
     \/ /\ \E n \in 1..Length[task.req] :
             task' = [at |-> "stream", req |-> Nothing, active |-> task.req, left |-> n]
        /\ dev' = [dev EXCEPT !.stream = TRUE] /\ playing' = TRUE
  /\ UNCHANGED <<keys, shown, q, at, budget, heard>>

StartSink ==
  /\ task.at = "start" /\ (task.req = "clip" => dev.decoder)
  /\ \/ /\ task' = NotStarted
        /\ dev' = [dev EXCEPT !.decoder = FALSE] /\ UNCHANGED playing
     \/ /\ \E n \in 1..Length[task.req] :
             task' = [at |-> "stream", req |-> Nothing, active |-> task.req, left |-> n]
        /\ dev' = [dev EXCEPT !.stream = TRUE] /\ playing' = TRUE
  /\ UNCHANGED <<keys, shown, q, at, budget, heard>>

(* stream_one: a buffer, and the end of the source.                        *)
Stream ==
  /\ task.at = "stream"
  /\ IF task.left = 1 /\ task.active \notin Endless
     THEN end_active /\ task' = [task EXCEPT !.at = "fetch", !.active = Nothing, !.left = 0]
     ELSE /\ task' = [task EXCEPT !.at = "fetch", !.left = IF @ = 1 THEN 1 ELSE @ - 1]
          /\ UNCHANGED <<dev, playing>>
  /\ UNCHANGED <<keys, shown, q, at, budget, heard>>

PlaybackTask == Fetch \/ OpenDecoder \/ StartSink \/ Stream

(***************************************************************************)
(* The writers of the keys.  An unhurried one waits until the queue has    *)
(* room for everything that a pass may post.                               *)
(***************************************************************************)
Pending == keys.stop \/ keys.play # Nothing \/ keys.alarm \/ keys.beep

Command ==
  /\ budget.commands > 0
  /\ Hurried \/ (q = <<>> /\ ~ Pending /\ at = "top")
  /\ \/ keys' = [keys EXCEPT !.stop = TRUE]
     \/ \E s \in Sound : keys' = [keys EXCEPT !.play = s]
     \/ \E b \in {"alarm", "beep"} : keys' = [keys EXCEPT ![b] = TRUE]
  /\ budget' = [budget EXCEPT !.commands = @ - 1]
  /\ UNCHANGED <<shown, q, at, task, playing, dev, heard>>

Toggle ==
  /\ budget.switches > 0
  /\ keys' = [keys EXCEPT !.enabled = ~ @]
  /\ budget' = [budget EXCEPT !.switches = @ - 1]
  /\ UNCHANGED <<shown, q, at, task, playing, dev, heard>>

Next == MainTask \/ PlaybackTask \/ Command \/ Toggle

(* The scheduler runs both tasks; nobody has to give a command.            *)
Fairness == WF_vars(MainTask) /\ WF_vars(PlaybackTask)
Spec == Init /\ [][Next]_vars
LiveSpec == Spec /\ Fairness

(***************************************************************************)
(* Properties.                                                             *)
(***************************************************************************)

TypeOK ==
  /\ keys \in [enabled : BOOLEAN, stop : BOOLEAN, play : Sound \cup {Nothing},
               alarm : BOOLEAN, beep : BOOLEAN]
  /\ shown \in [playing : BOOLEAN, clip : Sound \cup {Nothing}]
  /\ q \in Seq(Request) /\ Len(q) <= QUEUE
  /\ at \in {"top", "play", "consume", "alarm", "beep"}
  /\ task.at \in {"fetch", "start", "stream"} /\ task.req \in Sound \cup {Nothing}
  /\ task.active \in Sound \cup {Nothing} /\ task.left \in Nat
  /\ playing \in BOOLEAN /\ dev \in [stream : BOOLEAN, decoder : BOOLEAN]

(* Whatever fails to open or to start, and whatever cuts a sound short: a  *)
(* silent task has muted the amplifier and closed the file, a sounding one *)
(* has exactly what its source needs, and the flag says which it is.       *)
NothingLeftOpen ==
  /\ dev.stream = ~ Idle /\ playing = ~ Idle
  /\ task.at # "start" => dev.decoder = (task.active = "clip")

(* An alarm that sounds gives way only to a Stop, to another alarm or to   *)
(* its own end, however many other requests arrive (player_module.h:13).   *)
AlarmStands ==
  [][task.active = "alarm" /\ task'.active # "alarm" =>
       \/ task.at = "stream" /\ task.left = 1
       \/ q # <<>> /\ Head(q) \in {"stop", "alarm"}]_vars

(* A player that stays switched off falls silent and stays so, though a    *)
(* request may still have been queued and a Stop may find the queue full.  *)
OffIsSilent == <>[](~ keys.enabled) => <>[](~ playing /\ ~ shown.playing)

(* With no more commands every sound ends, even the alarm, which has its   *)
(* cap, and the queue drains; only an endless clip goes on.                *)
EverySoundEnds == <>[](q = <<>> /\ (Idle => ~ playing) /\ task.active \in {Nothing} \cup Endless)

(* A Stop that the module takes up reaches the playback task behind what   *)
(* was asked before it (player.md: "player.stop ... Stop playback").       *)
StopIsQueued == keys.stop /\ ~ keys'.stop => q' # <<>> /\ q'[Len(q')] = "stop"

\* Broken by the code: a Stop is consumed while the queue is full.
StopReachesQueue == [][StopIsQueued]_vars

(* The name in player.play is emptied only when it has been taken up.      *)
PlayIsHeard == keys.play # Nothing /\ keys'.play = Nothing => keys.play \in heard

\* Broken by the code: player.play is written between its reading and its
\* emptying.
PlayIsTaken == [][PlayIsHeard]_vars

(* Once everything queued is dealt with, player.clip names what sounds.    *)
\* Broken by the code: a beep is asked for while the alarm sounds.
ClipIsCurrent ==
  q = <<>> /\ at = "top" /\ task.at # "start" /\ ~ Idle => shown.clip = task.active

(* A command key resets itself.                                            *)
CommandsReset == []<>(~ keys.alarm)
=============================================================================
