---------------------------- MODULE OneWireSearch ----------------------------
(***************************************************************************)
(* DS18B20Driver::scan_bus: the search of a OneWire bus for the addresses  *)
(* of its devices, one pass per device.  In a pass all devices still       *)
(* addressed answer each bit and its complement at once; at a conflict the *)
(* search picks the branch by where the previous pass had its last         *)
(* discrepancy.  Addresses are Width bits.                                 *)
(*                                                                         *)
(* Noise may hit every pass: the presence pulse is missed, one bit and its *)
(* complement are read as any of the four pairs, or the address that comes *)
(* out has a bad checksum.  A misread bit can end the search, or send it   *)
(* to another branch with an address that is good; only the bad checksum   *)
(* is tried again.  A checksum is good when the address is that of a       *)
(* device on the bus.                                                      *)
(*                                                                         *)
(* A clone answers both values at one bit whatever its address has there,  *)
(* which looks like a conflict.                                            *)
(***************************************************************************)
EXTENDS Integers, Sequences, SequencesExt, FiniteSets

CONSTANTS Width, MaxDevices, MaxResults, MAX_SEARCH_PASSES, Clones, Noise

OneWireSearchAssumption ==
    /\ {Width, MaxDevices, MaxResults, MAX_SEARCH_PASSES} \subseteq Nat \ {0}
    /\ Clones \in BOOLEAN /\ Noise \in BOOLEAN

Bits == {0, 1}
Roms == [1 .. Width -> Bits]
Below(a, b) == \E i \in 1 .. Width: a[i] < b[i] /\ \A j \in 1 .. (i - 1): a[j] = b[j]

VARIABLES
    present, clone,        \* the devices; which of them is a clone, at which bit
    families,              \* those of a family the driver knows
    prev_rom, last_discrepancy, found, passes, ended,
    misled                 \* a misreading has ended the search or sent it past a device

vars == <<present, clone, families, prev_rom, last_discrepancy, found, passes, ended, misled>>

Init ==
    /\ present \in {d \in SUBSET Roms: Cardinality(d) <= MaxDevices}
    /\ families \in {present, {d \in present: d[1] = 0}}
    /\ clone \in IF Clones THEN [device: present, bit: 1 .. Width] ELSE {[device |-> <<>>, bit |-> 0]}
    /\ prev_rom = [i \in 1 .. Width |-> 0] /\ last_discrepancy = 0
    /\ found = <<>> /\ passes = 0 /\ ended = FALSE /\ misled = FALSE

\* What a device puts on the bus when asked for a bit.
Answer(d, i) == IF d = clone.device /\ i = clone.bit THEN Bits ELSE {d[i]}

Branch(i) ==
    IF i = last_discrepancy THEN 1
    ELSE IF i > last_discrepancy THEN 0
    ELSE prev_rom[i]

\* What noise makes of a pass: the values read as answered at one bit, {} for the
\* pair 1/1; bit 0 is the presence pulse.
Quiet == [bit |-> 0, read |-> Bits]
Noises == IF Noise THEN [bit: 0 .. Width, read: SUBSET Bits] ELSE {Quiet}

Answers(live, i) == UNION {Answer(d, i): d \in live}

\* One bit of a pass: w.live are the devices still addressed; w.hidden says that
\* an answer was not seen.
Triplet(w, i, noise) ==
    LET true == Answers(w.live, i)
        answers == IF i = noise.bit THEN noise.read ELSE true
        direction == IF answers = Bits THEN Branch(i) ELSE CHOOSE b \in answers: TRUE
    IN  IF answers = {} THEN [w EXCEPT !.ok = FALSE]
        ELSE [w EXCEPT !.live = {d \in @: d[i] = direction},
                       !.rom[i] = direction,
                       !.hidden = @ \/ ~(true \subseteq answers),
                       !.discrepancy = IF answers = Bits /\ direction = 0 THEN i ELSE @]

Walk(noise) ==
    LET start == [live |-> present, rom |-> [i \in 1 .. Width |-> 0], discrepancy |-> 0,
                  ok |-> present # {} /\ (noise.bit = 0 => noise.read = Bits), hidden |-> FALSE]
        w[i \in 0 .. Width] ==
            IF i = 0 THEN start
            ELSE IF w[i - 1].ok THEN Triplet(w[i - 1], i, noise) ELSE w[i - 1]
    IN  w[Width]

Searching == ~ended /\ Len(found) < MaxResults /\ passes < MAX_SEARCH_PASSES

Ended == /\ ended' = TRUE
         /\ UNCHANGED <<prev_rom, last_discrepancy, found>>

Report(rom) ==
    IF rom \in families /\ rom \notin ToSet(found) THEN Append(found, rom) ELSE found

\* No presence pulse, or a bit nobody seems to answer: the search is over.
Silent(w, noise) ==
    /\ ~w.ok /\ passes' = passes + 1 /\ Ended
    /\ misled' = (misled \/ noise # Quiet)

\* A good checksum: report a new address of a known family, and move on.
GoodPass(w) ==
    /\ w.ok /\ w.rom \in present
    /\ passes' = passes + 1
    /\ misled' = (misled \/ w.hidden)
    /\ found' = Report(w.rom)
    /\ prev_rom' = w.rom /\ last_discrepancy' = w.discrepancy
    /\ ended' = (w.discrepancy = 0)

\* A bad checksum: try again from the same place.
NoisyPass(w) ==
    /\ w.ok /\ (Noise \/ w.rom \notin present)
    /\ passes' = passes + 1
    /\ UNCHANGED <<prev_rom, last_discrepancy, found, ended, misled>>

Pass == /\ Searching
        /\ \E noise \in Noises: \E w \in {Walk(noise)}:
               Silent(w, noise) \/ GoodPass(w) \/ NoisyPass(w)

\* The loop's condition fails: results are full or the passes used up.
GiveUp == ~ended /\ ~Searching /\ Ended /\ UNCHANGED <<passes, misled>>

Next == (Pass \/ GiveUp) /\ UNCHANGED <<present, clone, families>>
Spec == Init /\ [][Next]_vars

-----------------------------------------------------------------------------
(* Properties. *)

\* The types of the state, and the bounds of the results and the passes.
TypeOK ==
    /\ present \subseteq Roms /\ families \subseteq present
    /\ prev_rom \in Roms /\ last_discrepancy \in 0 .. Width
    /\ Len(found) <= MaxResults /\ passes \in 0 .. MAX_SEARCH_PASSES
    /\ {ended, misled} \subseteq BOOLEAN

\* No address comes out twice, and only those of known devices do; they come in
\* ascending order, unless a misreading has hidden an answer.
Ascending ==
    /\ ToSet(found) \subseteq families
    /\ \A i, j \in 1 .. Len(found):
           i < j => found[i] # found[j] /\ (~misled => Below(found[i], found[j]))

\* A search that had passes to spare has found the lowest addresses there are
\* room for, all of them if there is room, however many checksums were spoilt and
\* however many conflicts noise made up, unless a misreading hid an answer or
\* ended it.
FindsAll ==
    ended /\ ~misled /\ passes < MAX_SEARCH_PASSES =>
        \A d \in families:
            d \in ToSet(found) \/ (Len(found) = MaxResults /\ \A f \in ToSet(found): Below(f, d))
=============================================================================
