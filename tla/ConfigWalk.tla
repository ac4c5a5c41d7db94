----------------------------- MODULE ConfigWalk -----------------------------
(***************************************************************************)
(* How the configuration service reads a file: parse_board_json(),         *)
(* parse_devices_json() and parse_bindings_json() of                       *)
(* components/modesp_services/src/config_service.cpp.                      *)
(*                                                                         *)
(* jsmn gives the tokens of a document in their order; an object or array  *)
(* token says how many members or elements it has, a key how many values   *)
(* it owns.  jsmn is built non-strict: a member with no value still counts *)
(* towards its object.  The three walks go through the tokens by these     *)
(* sizes, each in its own way.  A document is built here from its parts,   *)
(* so that what a walk read can be compared with what the document says.   *)
(*                                                                         *)
(* The member names the walks know are "a", "b" (id and identity; hardware *)
(* and role) and "settings"; "x" is one they do not know.                  *)
(***************************************************************************)
EXTENDS Integers, Sequences, FiniteSets, SequencesExt, FiniteSetsExt

CONSTANTS
  File,              \* "board", "devices" or "bindings"
  Lists, Entries, Others,   \* values of the list, its entries, other sections
  MaxEntries,        \* bound on the entries of a document
  Capacity,          \* of the inventory
  MaxSettings,       \* settings of one binding
  Seed               \* the inventory before the walk

ConfigWalkAssumption ==
  /\ File \in {"board", "devices", "bindings"}
  /\ MaxEntries \in Nat /\ Capacity \in Nat /\ MaxSettings \in Nat
  /\ Len(Seed) <= Capacity

VARIABLES
  doc,        \* the document and its tokens
  at,         \* the loop the walk is in
  i, j,       \* its positions
  elems, keys, sets,   \* passes left of each loop
  row,        \* the entry being read
  inventory,
  verdict,
  rows,       \* the rows put into the inventory
  far         \* the furthest token read

vars == <<doc, at, i, j, elems, keys, sets, row, inventory, verdict, rows, far>>

-----------------------------------------------------------------------------
(* Documents *)

Text(t)    == <<[type |-> "string", size |-> 0, text |-> t]>>
Key(k, v)  == <<[type |-> "string", size |-> IF v = <<>> THEN 0 ELSE 1, text |-> k]>> \o v
Object(ms) == <<[type |-> "object", size |-> Len(ms), text |-> "raw"]>> \o FlattenSeq(ms)
Array(es)  == <<[type |-> "array", size |-> Len(es), text |-> "raw"]>> \o FlattenSeq(es)

(* A value is a text, an object with a member, or missing.                 *)
ValueOf(v) == IF v = "none" THEN <<>>
              ELSE IF v = "nested" THEN Object(<<Key("a", Text("n"))>>)
              ELSE IF v = "ragged" THEN Object(<<Key("a", <<>>)>>)
              ELSE Text(v)
(* An entry is a sequence of members, or something that is no object.      *)
EntryOf(e) == IF e.kind = "text" THEN Text("t")
              ELSE IF e.kind = "list" THEN Array(<<Text("t"), Text("t")>>)
              ELSE Object([n \in DOMAIN e.members |->
                           Key(e.members[n][1], ValueOf(e.members[n][2]))])
Section(o) == IF o = "absent" THEN <<>> ELSE <<Key("x", ValueOf(o))>>
ListOf(l, es) == IF l = "array" THEN Array([n \in DOMAIN es |-> EntryOf(es[n])])
                 ELSE ValueOf(l)
Tokens(before, l, es, after) ==
  Object(Section(before) \o <<Key("list", ListOf(l, es))>> \o Section(after))

Documents ==
  {[entries |-> es, list |-> l, before |-> b, after |-> a, tokens |-> Tokens(b, l, es, a)] :
     es \in UNION {[1..n -> Entries] : n \in 0..MaxEntries},
     l \in Lists, b \in Others, a \in Others}

-----------------------------------------------------------------------------
(* The tokens as the walks see them: past the end lie those of the file    *)
(* that was read before.                                                   *)

ntokens == Len(doc.tokens)
Stale   == [type |-> "string", size |-> 0, text |-> "stale"]
Tok(n)  == IF n <= ntokens THEN doc.tokens[n] ELSE Stale
Is(n, k) == Tok(n).type = "string" /\ Tok(n).text = k
Reads(n) == far' = Max({far, n})

(* A key must be a string owning exactly one value.                        *)
bad_key(n) == n + 1 > ntokens \/ Tok(n).type # "string" \/ Tok(n).size # 1
BadKeyReads(n) == Reads(IF n + 1 > ntokens THEN 0 ELSE n + 1)

skip_token(n) ==
  LET skip[k \in 1..ntokens+1] ==
        IF k > ntokens \/ Tok(k).type = "string" THEN Min({k + 1, ntokens + 1})
        ELSE FoldLeft(LAMBDA to, c : skip[to], k + 1,
                      [c \in 1..(IF Tok(k).type = "object" THEN 2 ELSE 1) * Tok(k).size |-> c])
  IN  skip[Min({n, ntokens + 1})]

NoRow == [a |-> "", b |-> "", settings |-> 0]

(* A row of devices.json needs its id and its identity; it replaces the    *)
(* device of its id, or is added while there is room.  The others are      *)
(* added while there is room.                                              *)
Put(inv, r) ==
  IF File = "devices" /\ (r.a = "" \/ r.b = "") THEN inv
  ELSE IF File = "devices" /\ \E n \in DOMAIN inv : inv[n].a = r.a
       THEN LET n == SelectInSeq(inv, LAMBDA d : d.a = r.a) IN [inv EXCEPT ![n] = r]
  ELSE IF Len(inv) < Capacity THEN Append(inv, r) ELSE inv

Init ==
  /\ doc \in Documents
  /\ at = "top" /\ i = 2 /\ j = 0 /\ elems = 0 /\ keys = 0 /\ sets = 0
  /\ row = NoRow /\ inventory = Seed /\ verdict = "none" /\ rows = <<>> /\ far = 1

-----------------------------------------------------------------------------
(* The loop over the members of the root *)

Fail == /\ at' = "done" /\ verdict' = "refused"
        /\ UNCHANGED <<i, j, elems, keys, sets, row, inventory, rows>>

EndOfFile ==
  /\ at = "top" /\ i > ntokens
  /\ at' = "done" /\ verdict' = "accepted"
  /\ UNCHANGED <<i, j, elems, keys, sets, row, inventory, rows, far>>

OtherSection ==
  /\ at = "top" /\ i <= ntokens /\ ~Is(i, "list")
  /\ Reads(i) /\ i' = skip_token(i + 1)
  /\ UNCHANGED <<at, j, elems, keys, sets, row, inventory, verdict, rows>>

ListKey == at = "top" /\ i <= ntokens /\ Is(i, "list")
ListBroken ==
  /\ ListKey
  /\ \/ File # "board" /\ i + 1 > ntokens /\ Reads(i)
     \/ (File = "board" \/ i + 1 <= ntokens) /\ Tok(i + 1).type # "array" /\ Reads(i + 1)
  /\ Fail
EnterListShort ==   \* seeded fault: the last entry is left out
  /\ ListKey /\ Tok(i + 1).type = "array"
  /\ at' = "elems" /\ elems' = Max({0, Tok(i + 1).size - 1}) /\ j' = i + 2
  /\ Reads(i + 1)
  /\ UNCHANGED <<i, keys, sets, row, inventory, verdict, rows>>
EnterList ==
  /\ ListKey /\ Tok(i + 1).type = "array"
  /\ at' = "elems" /\ elems' = Tok(i + 1).size /\ j' = i + 2
  /\ Reads(i + 1)
  /\ UNCHANGED <<i, keys, sets, row, inventory, verdict, rows>>

-----------------------------------------------------------------------------
(* The loop over the entries of the list *)

LeaveList ==
  /\ at = "elems" /\ (elems = 0 \/ (File = "devices" /\ j > ntokens))
  /\ at' = "top" /\ i' = j
  /\ UNCHANGED <<j, elems, keys, sets, row, inventory, verdict, rows, far>>

InList == at = "elems" /\ elems > 0
(* bindings.json is refused when its list ends early; but the walk never   *)
(* gets ahead of the tokens there, and would be stuck here if it did.      *)
AtEntry == InList /\ (File = "board" \/ j <= ntokens)

NoObject ==
  /\ AtEntry /\ Tok(j).type # "object" /\ Reads(j)
  /\ IF File = "devices"
     THEN /\ j' = skip_token(j) /\ elems' = elems - 1
          /\ UNCHANGED <<at, i, keys, sets, row, inventory, verdict, rows>>
     ELSE Fail
EnterEntry ==
  /\ AtEntry /\ Tok(j).type = "object" /\ Reads(j)
  /\ at' = "members" /\ keys' = Tok(j).size /\ j' = j + 1 /\ row' = NoRow
  /\ UNCHANGED <<i, elems, sets, inventory, verdict, rows>>

-----------------------------------------------------------------------------
(* The loop over the members of an entry *)

LeaveEntry ==
  /\ at = "members" /\ keys = 0
  /\ at' = "elems" /\ elems' = elems - 1
  /\ inventory' = Put(inventory, row) /\ rows' = Append(rows, row)
  /\ UNCHANGED <<i, j, keys, sets, row, verdict, far>>

InEntry == at = "members" /\ keys > 0
BadMember ==
  /\ InEntry /\ File # "board" /\ bad_key(j) /\ BadKeyReads(j)
  /\ IF File = "devices"
     THEN /\ at' = "top" /\ i' = ntokens + 1
          /\ UNCHANGED <<j, elems, keys, sets, row, inventory, verdict, rows>>
     ELSE Fail

Sound == File = "board" \/ ~bad_key(j)
Past == IF File = "devices" THEN skip_token(j + 1) ELSE j + 2
Member ==
  /\ InEntry /\ Sound
  /\ ~(File = "bindings" /\ Is(j, "settings") /\ Tok(j + 1).type = "object")
  /\ Reads(j + 1)
  /\ row' = IF Is(j, "a") THEN [row EXCEPT !.a = Tok(j + 1).text]
            ELSE IF Is(j, "b") THEN [row EXCEPT !.b = Tok(j + 1).text] ELSE row
  /\ j' = Past /\ keys' = keys - 1
  /\ UNCHANGED <<at, i, elems, sets, inventory, verdict, rows>>

EnterSettings ==
  /\ InEntry /\ Sound
  /\ File = "bindings" /\ Is(j, "settings") /\ Tok(j + 1).type = "object"
  /\ at' = "settings" /\ sets' = Tok(j + 1).size /\ j' = j + 2 /\ Reads(j + 1)
  /\ UNCHANGED <<i, elems, keys, row, inventory, verdict, rows>>
BadSetting ==
  /\ at = "settings" /\ sets > 0 /\ bad_key(j) /\ BadKeyReads(j)
  /\ Fail
Setting ==
  /\ at = "settings" /\ sets > 0 /\ ~bad_key(j) /\ Reads(j + 1)
  /\ row' = [row EXCEPT !.settings = Min({@ + 1, MaxSettings})]
  /\ j' = j + 2 /\ sets' = sets - 1
  /\ UNCHANGED <<at, i, elems, keys, inventory, verdict, rows>>
LeaveSettings ==
  /\ at = "settings" /\ sets = 0
  /\ at' = "members" /\ keys' = keys - 1
  /\ UNCHANGED <<i, j, elems, sets, row, inventory, verdict, rows, far>>

Step ==
  \/ EndOfFile \/ OtherSection \/ ListBroken \/ EnterList
  \/ LeaveList \/ NoObject \/ EnterEntry
  \/ LeaveEntry \/ BadMember \/ Member
  \/ EnterSettings \/ BadSetting \/ Setting \/ LeaveSettings
Done == at = "done" /\ UNCHANGED vars
Next == (Step /\ UNCHANGED doc) \/ Done

Fairness == WF_vars(Step /\ UNCHANGED doc)
Spec == Init /\ [][Next]_vars /\ Fairness

-----------------------------------------------------------------------------
(* What the document says *)

Objects(e) == e.kind = "row"
LastOf(e, k) ==
  LET given == {n \in DOMAIN e.members : e.members[n][1] = k /\ e.members[n][2] # "none"}
  IN  IF given = {} THEN "" ELSE ValueOf(e.members[Max(given)][2])[1].text
Said(e) == [a |-> LastOf(e, "a"), b |-> LastOf(e, "b"),
            settings |-> Min({MaxSettings, Cardinality({n \in DOMAIN e.members :
                                 /\ File = "bindings" /\ e.members[n][1] = "settings"
                                 /\ e.members[n][2] = "nested"})})]
With(e, v) == e.kind = "row" /\ \E n \in DOMAIN e.members : e.members[n][2] = v
First(S)   == Min(S \cup {Len(doc.entries) + 1})
Broken     == {n \in DOMAIN doc.entries : With(doc.entries[n], "none")}
Ragged     == {n \in DOMAIN doc.entries : With(doc.entries[n], "ragged")}
SaidBefore(n) ==
  LET kept == SelectSeq(SubSeq(doc.entries, 1, n - 1), Objects)
  IN  IF doc.list # "array" THEN <<>> ELSE [m \in DOMAIN kept |-> Said(kept[m])]

(* A section before the list whose members have no values misleads the     *)
(* walk past the list's key.                                               *)
SectionsSound == doc.before \notin {"none", "ragged"}

Reading == at \in {"top", "elems", "members", "settings"}

TypeOK ==
  /\ Reading \/ at = "done"
  /\ verdict \in {"none", "accepted", "refused"} /\ (verdict = "none") = Reading
  /\ i \in 2..ntokens+2 /\ j \in 0..ntokens+2
  /\ elems \in Nat /\ keys \in Nat /\ sets \in Nat
  /\ Len(inventory) <= Capacity

(* "Every step is checked against ntokens": whatever the sizes promise, no *)
(* token past those of this file is read (devices and bindings).           *)
InBounds == far <= ntokens

(* "Where it breaks, the walk stops": the rows taken are those the         *)
(* document gives, in their order and with their values, up to there;      *)
(* nothing is made up from the middle of a value.                          *)
StopsWhereItBreaks == IsPrefix(rows, SaidBefore(First(Broken)))

(* The same while no value of a row has members without values, which no   *)
(* step of skip_token() notices.                                           *)
RowsAreSaid == Ragged = {} => StopsWhereItBreaks

(* devices.json: "where it breaks, the walk stops and keeps the rows it    *)
(* has already read"; a malformed element is skipped and costs no other.   *)
RowsKept ==
  at = "done" /\ SectionsSound => IsPrefix(SaidBefore(First(Broken \cup Ragged)), rows)

(* bindings.json: what is accepted is whole; no entry was left out.        *)
AcceptedIsWhole ==
  verdict = "accepted" /\ SectionsSound =>
    /\ doc.list = "array" /\ rows = [n \in DOMAIN doc.entries |-> Said(doc.entries[n])]

(* One merged inventory: no id twice, a runtime row wins over the device   *)
(* of its id and over earlier rows, and the others stay as they were.      *)
RuntimeWins ==
  LET valid == SelectSeq(rows, LAMBDA r : r.a # "" /\ r.b # "")
      LastRow(id) == valid[Max({n \in DOMAIN valid : valid[n].a = id})]
      Named == {valid[n].a : n \in DOMAIN valid}
  IN  /\ \A m, n \in DOMAIN inventory : m # n => inventory[m].a # inventory[n].a
      /\ \A n \in DOMAIN inventory :
           IF inventory[n].a \in Named THEN inventory[n] = LastRow(inventory[n].a)
           ELSE n \in DOMAIN Seed /\ inventory[n] = Seed[n]
      /\ \A n \in DOMAIN Seed : inventory[n].a = Seed[n].a

(* "Bounded so the merged set fits": no subscribed device is left out.     *)
\* Broken by the code: more factory devices than the headroom leaves, and a
\* subscription is left out.
SubscribedFits ==
  \A n \in DOMAIN rows : rows[n].a # "" /\ rows[n].b # "" =>
    \E m \in DOMAIN inventory : inventory[m].a = rows[n].a

(* Whatever the file holds, the walk ends and the boot goes on.            *)
WalkEnds == <>(at = "done")
=============================================================================
