------------------------------ MODULE Mp3Decoder ------------------------------
(***************************************************************************)
(* Finding the frames of an MP3 clip: refill_input and decode_next_frame   *)
(* of modules/player/src/mp3_decoder.cpp, over and over until the clip is  *)
(* drained, as the playback task calls them.                               *)
(*                                                                         *)
(* A file is a sequence of bytes, of which only this is told apart: 1 is   *)
(* 0xFF, which both begins and completes a sync word.  What helix makes of *)
(* a candidate is external: a frame, an empty frame, not enough data, or a *)
(* corrupt frame, of which it may have used up a part.                     *)
(***************************************************************************)
EXTENDS Integers, Sequences

CONSTANTS
  Files,          \* the clips: sequences of 0 and 1
  IN_SZ,          \* the size of the input buffer (4096)
  MP3_FRAME_MAX,  \* the largest frame (1940)
  ReadErrors      \* TRUE: a read may fail before the end of the file

Mp3Assumption ==
  /\ Files \subseteq Seq({0, 1}) /\ ReadErrors \in BOOLEAN
  /\ MP3_FRAME_MAX \in 2..(IN_SZ - 1) /\ IN_SZ \in Nat

VARIABLES
  file,    \* the clip
  base,    \* the file's offset of in_[0]
  len,     \* in_len_
  pos,     \* in_pos_
  eof,     \* eof_
  at,      \* "next": in the loop; "decode": at a candidate; "end": drained
  passed   \* history: the offsets gone over without asking helix

vars == <<file, base, len, pos, eof, at, passed>>

Init ==
  /\ file \in Files
  /\ base = 0 /\ len = 0 /\ pos = 0 /\ eof = FALSE /\ at = "next" /\ passed = {}

Left == len - pos
Buffer == [base |-> base, len |-> len, pos |-> pos, eof |-> eof]

Smaller(a, b) == IF a < b THEN a ELSE b

(* refill_input: what is unread moves to the front, and the file fills the *)
(* rest; a read of nothing is the end.                                     *)
Refilled(b, failed) ==
  LET rem == b.len - b.pos
      rest == Len(file) - (b.base + b.len)
      got == IF failed THEN 0 ELSE Smaller(IN_SZ - rem, rest)
  IN IF b.eof \/ rem = IN_SZ THEN [b EXCEPT !.base = @ + b.pos, !.pos = 0, !.len = rem]
     ELSE [base |-> b.base + b.pos, pos |-> 0, len |-> rem + got, eof |-> got = 0]

(* The refill before a search and before a decode.                         *)
Ready(b, failed) ==
  IF b.len - b.pos < MP3_FRAME_MAX /\ ~ b.eof THEN Refilled(b, failed) ELSE b

Failures == IF ReadErrors THEN BOOLEAN ELSE {FALSE}

Takes(b) == base' = b.base /\ len' = b.len /\ pos' = b.pos /\ eof' = b.eof

SyncAt(i) == i + 2 <= Len(file) /\ file[i + 1] = 1 /\ file[i + 2] = 1

(* MP3FindSyncWord: the offsets in the buffer where a whole sync word is.  *)
Candidates(b) == {i \in b.pos..(b.len - 2) : SyncAt(b.base + i)}

(* Two trailing bytes are kept: a sync word may straddle the boundary.     *)
Kept(b) == [b EXCEPT !.pos = IF b.len > 2 THEN b.len - 2 ELSE b.len]

(* One round of the loop up to the candidate, on a buffer that is filled;  *)
(* the next refill may fail.                                               *)
SearchIn(b, failed) ==
  LET c == Candidates(b)
      first == CHOOSE i \in c : \A j \in c : i <= j
  IN \/ /\ b.len - b.pos <= 0
        /\ Takes(b) /\ at' = "end" /\ UNCHANGED passed
     \/ /\ b.len - b.pos > 0 /\ c = {}
        /\ IF b.eof THEN Takes(b) /\ at' = "end" /\ UNCHANGED passed
           ELSE /\ Takes(Refilled(Kept(b), failed))
                /\ at' = "next"
                /\ passed' = passed \cup {b.base + i : i \in b.pos..(Kept(b).pos - 1)}
     \/ /\ c # {}
        /\ Takes(Ready([b EXCEPT !.pos = first], failed))
        /\ at' = "decode"
        /\ passed' = passed \cup {b.base + i : i \in b.pos..(first - 1)}

Search ==
  /\ at = "next"
  /\ \E f \in Failures, g \in Failures : SearchIn(Ready(Buffer, f), g)
  /\ UNCHANGED file

(* A corrupt frame costs at least one byte.                                *)
Skipped(consumed) == IF consumed > 0 THEN consumed ELSE 1

Onwards(n) == pos' = pos + n /\ UNCHANGED <<base, len, eof>>

(* MP3Decode and what follows from its result.                             *)
Decode ==
  /\ at = "decode"
  /\ \/ \E consumed \in 2..Left : Onwards(consumed) /\ at' = "next"     \* a frame, even empty
     \/ \E consumed \in 0..Left : Onwards(Skipped(consumed)) /\ at' = "next"
     \/ /\ eof /\ at' = "end" /\ Onwards(0)                              \* an underflow
     \/ /\ ~ eof /\ at' = "next"
        /\ IF Left >= MP3_FRAME_MAX THEN Onwards(1)
           ELSE \E f \in Failures : Takes(Refilled(Buffer, f))
  /\ UNCHANGED <<file, passed>>

Done == at = "end" /\ UNCHANGED vars

Next == Search \/ Decode \/ Done

Fairness == WF_vars(Search \/ Decode)
Spec == Init /\ [][Next]_vars
LiveSpec == Spec /\ Fairness

(***************************************************************************)
(* Properties.                                                             *)
(***************************************************************************)

TypeOK ==
  /\ file \in Files /\ base \in Nat /\ len \in 0..IN_SZ /\ pos \in 0..len
  /\ eof \in BOOLEAN /\ at \in {"next", "decode", "end"}
  /\ passed \subseteq 0..Len(file)

(* No sync word is passed over, wherever the boundaries of the buffer cut  *)
(* it: whatever may be a frame is shown to helix, unless a frame before it *)
(* has used it up.                                                         *)
NoSyncIsMissed == \A i \in passed : ~ SyncAt(i)

(* What helix is shown is a whole frame, or all there is of the file.      *)
FramesAreWhole ==
  at = "decode" => Left >= MP3_FRAME_MAX \/ base + len = Len(file) \/ eof

(* The loop has no cap on its rounds, and still every clip ends, however   *)
(* long a run of garbage it has (mp3_decoder.cpp, decode_next_frame:       *)
(* "Termination is guaranteed by forward progress").                       *)
EveryClipEnds == <>(at = "end")
=============================================================================
