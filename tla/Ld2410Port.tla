----------------------------- MODULE Ld2410Port -----------------------------
(***************************************************************************)
(* drivers/ld2410b: the stream of frames of a presence radar, cut into     *)
(* frames by Ld2410Port and read by several drivers, the first of which    *)
(* drains the UART.  Frames are scaled down: a header and a footer of two  *)
(* bytes, a length of one, and a payload of a marker, the number of the    *)
(* frame, and what was seen.                                               *)
(***************************************************************************)
EXTENDS Integers, Sequences, FiniteSets

CONSTANTS
  Readings,        \* what the radar sees
  BUF_SIZE, MAX_PAYLOAD,
  TIMEOUT,         \* of a reading, in turns of the loop
  WRAP,            \* uptime_ms_ is modulo this
  Drivers,         \* roles bound to the port
  Noise,           \* bytes on the line between frames
  MaxFrames, MaxLosses, MaxNoise   \* bounds

Header == <<91, 92>>
Footer == <<81, 82>>
Marker == 70

Ld2410PortAssumption ==
  /\ {BUF_SIZE, MAX_PAYLOAD, TIMEOUT, WRAP, MaxFrames} \subseteq Nat \ {0}
  /\ MaxLosses \in Nat /\ MaxNoise \in Nat /\ Noise \subseteq Nat

HDR == Len(Header)
FTR == Len(Footer)
Overhead == HDR + 1 + FTR
KeepTailShort == HDR - 1   \* seeded fault
KEEP_TAIL == HDR

VARIABLES
  line,            \* bytes on their way
  buf,             \* buf_, len_ of them
  latest, has_frame,
  uptime, last_frame,      \* modulo WRAP
  age,             \* turns since the last frame
  bound,           \* driver |-> "none", "owner" or "view"
  sent,            \* frames sent
  read,            \* all bytes read so far
  intact,          \* frames sent whole: [end in the stream, number]
  length,          \* of the stream so far
  lost, noisy

stream == <<line, sent, intact, length, lost, noisy>>
port == <<buf, latest, has_frame, uptime, last_frame, age, read>>
vars == <<stream, port, bound>>

None == <<>>
Init ==
  /\ line = <<>> /\ sent = 0 /\ intact = <<>> /\ length = 0 /\ lost = 0 /\ noisy = 0
  /\ buf = <<>> /\ latest = None /\ has_frame = FALSE
  /\ uptime = 0 /\ last_frame = 0 /\ age = 0 /\ read = <<>>
  /\ bound = [d \in Drivers |-> "none"]

-----------------------------------------------------------------------------
(* The radar, and a line that may lose some bytes of a frame               *)

Frame(p) == Header \o <<Len(p)>> \o p \o Footer
Payload(r, n) == <<Marker, n>> \o r
Without(s, i, j) == SubSeq(s, 1, i - 1) \o SubSeq(s, j + 1, Len(s))
Arrives(bytes) == line' = line \o bytes /\ length' = length + Len(bytes)
Send ==
  /\ sent < MaxFrames /\ sent' = sent + 1
  /\ \E r \in Readings :
       LET f == Frame(Payload(r, sent + 1))
       IN  \/ /\ Arrives(f) /\ UNCHANGED lost
              /\ intact' = Append(intact, [end |-> length + Len(f), number |-> sent + 1])
           \/ /\ lost < MaxLosses /\ lost' = lost + 1 /\ UNCHANGED intact
              /\ \E i, j \in DOMAIN f : i <= j /\ Arrives(Without(f, i, j))
  /\ UNCHANGED <<port, bound, noisy>>
Disturb ==
  /\ noisy < MaxNoise /\ noisy' = noisy + 1
  /\ \E b \in Noise : Arrives(<<b>>)
  /\ UNCHANGED <<port, bound, sent, intact, lost>>

-----------------------------------------------------------------------------
(* scan(): from each place on, the end of the last frame found (0: none),  *)
(* where a frame begins that is not complete (0: none), the last payload   *)

At(b, i, mark) == i + Len(mark) - 1 <= Len(b) /\ SubSeq(b, i, i + Len(mark) - 1) = mark
Short(p) == Len(p) < 2 \/ p[1] # Marker
Parsed(p, later) == IF later # None \/ Short(p) THEN later ELSE p
Scan(b) ==
  LET scan[i \in 1..Len(b) + 1] ==
        LET plen == b[i + HDR]
            end  == i + Overhead + plen
            body == SubSeq(b, i + HDR + 1, i + HDR + plen)
        IN  IF i + HDR > Len(b) THEN [consumed |-> 0, pending |-> 0, payload |-> None]
            ELSE IF ~At(b, i, Header) \/ plen > MAX_PAYLOAD THEN scan[i + 1]
            ELSE IF end - 1 > Len(b) THEN [consumed |-> 0, pending |-> i, payload |-> None]
            ELSE IF At(b, end - FTR, Footer)
            THEN [scan[end] EXCEPT !.payload = Parsed(body, @), !.consumed = IF @ = 0 THEN end ELSE @]
            ELSE scan[i + 1]
  IN  scan[1]

(* what is kept of the buffer                                              *)
Rest(b, s) ==
  LET from == IF s.pending # 0 THEN s.pending
              ELSE IF s.consumed # 0 THEN s.consumed
              ELSE IF Len(b) > KEEP_TAIL THEN Len(b) - KEEP_TAIL + 1 ELSE 1
      rest == SubSeq(b, from, Len(b))
  IN  IF Len(rest) = BUF_SIZE THEN <<>> ELSE rest

(* pump(), of the owner: as many bytes as have come and have room          *)
Pump ==
  /\ \E d \in Drivers : bound[d] = "owner"
  /\ uptime' = (uptime + 1) % WRAP
  /\ \E n \in 0..Len(line) :
       LET b == buf \o SubSeq(line, 1, n)
           s == Scan(b)
       IN  /\ Len(b) <= BUF_SIZE
           /\ line' = SubSeq(line, n + 1, Len(line)) /\ read' = read \o SubSeq(line, 1, n)
           /\ buf' = Rest(b, s)
           /\ IF s.payload # None
              THEN latest' = s.payload /\ has_frame' = TRUE /\ last_frame' = uptime' /\ age' = 0
              ELSE age' = (IF age > WRAP THEN age ELSE age + 1) /\ UNCHANGED <<latest, has_frame, last_frame>>
  /\ UNCHANGED <<bound, sent, intact, length, lost, noisy>>

(* ld2410b_factory(): the first driver of a port owns it                   *)
Factory(d) == bound' = [bound EXCEPT ![d] = IF \A e \in Drivers : bound[e] = "none" THEN "owner" ELSE "view"]
Bind ==
  /\ \E d \in Drivers : bound[d] = "none" /\ Factory(d)
  /\ UNCHANGED <<stream, port>>

fresh == has_frame /\ (uptime - last_frame) % WRAP <= TIMEOUT

Next == Send \/ Disturb \/ Pump \/ Bind
(* Drivers are made, and the loop takes what has come.                     *)
TakeAll == Pump /\ Len(line') < Len(line)
Fairness == WF_vars(Bind) /\ WF_vars(TakeAll) /\ WF_vars(Send)
Spec == Init /\ [][Next]_vars /\ Fairness

-----------------------------------------------------------------------------
TypeOK ==
  /\ Len(buf) < BUF_SIZE
  /\ latest = None \/ latest \in {Payload(r, n) : r \in Readings, n \in 1..MaxFrames}
  /\ uptime \in 0..WRAP - 1 /\ last_frame \in 0..WRAP - 1
  /\ has_frame <=> latest # None

(* However the bytes come in, the last reading is the one that the whole   *)
(* stream, read at once, would give.                                       *)
ReadAtOnce == has_frame \/ Scan(read).payload # None => latest = Scan(read).payload

(* A frame that was sent whole is found, or a later one, when the bytes of *)
(* one more have come: also after a frame that lost bytes, after noise,    *)
(* and when the buffer has been full.                                      *)
Number == IF has_frame THEN latest[2] ELSE 0
IntactIsFound ==
  \A k \in DOMAIN intact :
    intact[k].end + Overhead + MAX_PAYLOAD <= Len(read) => Number >= intact[k].number

(* "never deadlock on a full buffer": every byte is taken in the end.      *)
AllIsRead == <>[](line = <<>>)

(* "True if a frame was decoded within the last `timeout_ms`."             *)
\* Broken by the code: a silent radar is fresh again when the clock has gone
\* round.
FreshIsRecent == fresh => age <= TIMEOUT
=============================================================================
