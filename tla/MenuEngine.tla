----------------------------- MODULE MenuEngine -----------------------------
(* modules/display/menu_engine: the on-screen menu, MAIN, MENU and EDIT, over*)
(* the generated tree of nodes, driven by three buttons and an idle timer,   *)
(* while other tasks write the keys it edits.                                *)
(*                                                                           *)
(* A menu is the sequence of its children; each node has its own key.  A     *)
(* value is an integer, Absent when the key is not in the shared state; a    *)
(* bool is 0 or 1 and Odd stands for a value of another type.  What is drawn *)
(* (labels, formats, the live refresh) is left out.                          *)
EXTENDS Integers, Sequences

CONSTANTS
    Nodes,          \* [id -> [type, cap, kids, low, high, step, options]]
    Root,           \* the children of the root
    Caps,           \* what the backend can do
    Writes,         \* [id -> the values other tasks may write]
    MAX_DEPTH, MAX_MENU_ITEMS,
    IDLE_TIMEOUT    \* IDLE_TIMEOUT_MS in ticks

VARIABLES screen, stack, cursor, editNode, edit, editDirty, editKnown, idle,
          value,    \* the shared state: the value of each node's key
          quiet     \* nobody else has written the edited key since begin_edit

editing == <<editNode, edit, editDirty, editKnown>>
vars == <<screen, stack, cursor, editing, idle, value, quiet>>

Absent == -100
Odd == 100
NONE == "none"
Keyed == {n \in DOMAIN Nodes : Nodes[n].type # "submenu"}
Editable == {n \in DOMAIN Nodes : Nodes[n].type \in {"int", "bool", "enum"}}

Init ==
    /\ screen = "main" /\ stack = <<>> /\ cursor = 0 /\ idle = 0
    /\ editNode = NONE /\ edit = 0 /\ editDirty = FALSE /\ editKnown = TRUE
    /\ value \in [Keyed -> {Absent}]
    /\ quiet = TRUE

-----------------------------------------------------------------------------
(* The list in which the cursor moves: the visible children, then "back".    *)

cap_visible(n) == Nodes[n].cap \in Caps \cup {NONE}

Raw(s) == IF s = <<>> THEN Root ELSE Nodes[s[Len(s)].node].kids
Children(s) == SelectSeq(Raw(s), cap_visible)

Items(s) == Len(Children(s))

child_node(s, i) == Children(s)[i + 1]

LastRow == IF Items(stack) < MAX_MENU_ITEMS THEN Items(stack) ELSE MAX_MENU_ITEMS - 1

nav_up == /\ cursor' = IF cursor > 0 THEN cursor - 1 ELSE cursor
          /\ UNCHANGED <<screen, stack, editing, value, quiet>>

nav_down == /\ cursor' = IF cursor < LastRow THEN cursor + 1 ELSE cursor
            /\ UNCHANGED <<screen, stack, editing, value, quiet>>

to_main == /\ screen' = "main" /\ stack' = <<>> /\ cursor' = 0

Back ==
    /\ cursor >= Items(stack)
    /\ IF stack = <<>> THEN to_main
       ELSE /\ stack' = SubSeq(stack, 1, Len(stack) - 1)
            /\ cursor' = stack[Len(stack)].cursor
            /\ UNCHANGED screen
    /\ UNCHANGED <<editing, value, quiet>>

Entered(n) == [node |-> n, cursor |-> cursor]

HasRoom == Len(stack) < MAX_DEPTH

Enter(n) ==
    /\ Nodes[n].type = "submenu"
    /\ IF HasRoom
       THEN /\ stack' = Append(stack, Entered(n))
            /\ cursor' = 0
       ELSE UNCHANGED <<stack, cursor>>
    /\ UNCHANGED <<screen, editing, value, quiet>>

-----------------------------------------------------------------------------
(* Editing.                                                                  *)

clamp(x, n) == IF x < Nodes[n].low THEN Nodes[n].low
               ELSE IF x > Nodes[n].high THEN Nodes[n].high ELSE x

OrZero(x) == IF x \in {Absent, Odd} THEN 0 ELSE x
OptionsWith(n, x) == {i \in 1 .. Len(Nodes[n].options) : Nodes[n].options[i] = x}
OptionOf(n, x) == CHOOSE i \in OptionsWith(n, x) : \A j \in OptionsWith(n, x) : i <= j

(* What is edited: the number, 0 or 1, or the index of an option from 0.     *)
Loaded(n) ==
    LET x == OrZero(value[n])
    IN  CASE Nodes[n].type = "int" -> clamp(x, n)
          [] Nodes[n].type = "bool" -> IF x = 1 THEN 1 ELSE 0
          [] Nodes[n].type = "enum" -> IF OptionsWith(n, x) = {} THEN 0 ELSE OptionOf(n, x) - 1

begin_edit(n) ==
    /\ n \in Editable
    /\ editNode' = n /\ edit' = Loaded(n) /\ editDirty' = FALSE
    /\ editKnown' = (Nodes[n].type = "enum" => OptionsWith(n, OrZero(value[n])) # {})
    /\ screen' = "edit" /\ quiet' = TRUE
    /\ UNCHANGED <<stack, cursor, value>>

edit_adjust(dir) ==
    LET d == Nodes[editNode]
    IN  /\ edit' = CASE d.type = "int" -> clamp(edit + dir * d.step, editNode)
                     [] d.type = "bool" -> 1 - edit
                     [] d.type = "enum" -> (edit + Len(d.options) + dir) % Len(d.options)
        /\ editDirty' = TRUE
        /\ UNCHANGED <<screen, stack, cursor, editNode, editKnown, value, quiet>>

SavesOption == editDirty \/ editKnown

edit_save ==
    LET d == Nodes[editNode]
    IN  /\ value' = CASE d.type = "enum" /\ SavesOption ->
                           [value EXCEPT ![editNode] = d.options[edit + 1]]
                      [] d.type = "enum" /\ ~SavesOption -> value
                      [] OTHER -> [value EXCEPT ![editNode] = edit]
        /\ screen' = "menu"
        /\ UNCHANGED <<stack, cursor, editing, quiet>>

-----------------------------------------------------------------------------
(* handle_event and tick.                                                    *)

Open == /\ screen' = "menu" /\ stack' = <<>> /\ cursor' = 0
        /\ UNCHANGED <<editing, value, quiet>>

nav_select ==
    \/ Back
    \/ /\ cursor < Items(stack)
       /\ LET n == child_node(stack, cursor)
          IN  \/ Enter(n)
              \/ begin_edit(n)
              \/ /\ Nodes[n].type = "value"
                 /\ UNCHANGED <<screen, stack, cursor, editing, value, quiet>>

Up == /\ \/ screen = "menu" /\ nav_up
         \/ screen = "edit" /\ edit_adjust(1)
      /\ idle' = 0

Down == /\ \/ screen = "menu" /\ nav_down
           \/ screen = "edit" /\ edit_adjust(-1)
        /\ idle' = 0

Select == /\ \/ screen = "main" /\ Root # <<>> /\ Open
             \/ screen = "menu" /\ nav_select
             \/ screen = "edit" /\ edit_save
          /\ idle' = 0

Counts == screen # "main"

Tick ==
    /\ Counts
    /\ IF idle + 1 >= IDLE_TIMEOUT THEN to_main /\ idle' = 0
       ELSE idle' = idle + 1 /\ UNCHANGED <<screen, stack, cursor>>
    /\ UNCHANGED <<editing, value, quiet>>

OtherWrites ==
    /\ \E n \in DOMAIN Writes : \E x \in Writes[n] :
          /\ value' = [value EXCEPT ![n] = x]
          /\ quiet' = (quiet /\ ~(screen = "edit" /\ n = editNode))
    /\ UNCHANGED <<screen, stack, cursor, editing, idle>>

Next == Up \/ Down \/ Select \/ Tick \/ OtherWrites

Spec == Init /\ [][Next]_vars
Fairness == WF_vars(Tick)
FairSpec == Spec /\ Fairness

-----------------------------------------------------------------------------
(* Properties.                                                               *)

TypeOK ==
    /\ screen \in {"main", "menu", "edit"} /\ idle \in 0 .. IDLE_TIMEOUT - 1
    /\ Len(stack) <= MAX_DEPTH
    /\ screen = "main" => stack = <<>>
    /\ screen = "edit" => editNode \in Editable

(* The cursor points into the list it is in, whatever was entered, left and  *)
(* filtered on the way.                                                      *)
CursorIsOnList == cursor \in 0 .. Items(stack)

(* Each submenu on the way was entered from the entry its saved cursor points*)
(* at, so that going back lands on it.                                       *)
BackLandsOnEntry ==
    \A i \in DOMAIN stack :
        LET s == SubSeq(stack, 1, i - 1)
        IN  /\ stack[i].cursor < Items(s)
            /\ Children(s)[stack[i].cursor + 1] = stack[i].node

(* Nothing the backend cannot do is entered or edited (ADR-003).             *)
NothingHidden ==
    /\ \A i \in DOMAIN stack : cap_visible(stack[i].node)
    /\ screen = "edit" => cap_visible(editNode)

(* The last row the cursor reaches is "back": no level has to be waited out. *)
LastIsBack == screen = "menu" /\ cursor >= LastRow => cursor >= Items(stack)

(* Whatever other tasks left in a key, the menu writes a legal value.        *)
WritesLegal ==
    [][value' # value /\ Select =>
          LET d == Nodes[editNode]
          IN  CASE d.type = "int" -> value'[editNode] \in d.low .. d.high
                [] d.type = "bool" -> value'[editNode] \in {0, 1}
                [] d.type = "enum" -> \E i \in 1 .. Len(d.options) :
                                         d.options[i] = value'[editNode]]_vars

Untouched == screen = "edit" /\ Nodes[editNode].type = "enum" /\ ~editDirty
Unknown(n) == OptionsWith(n, OrZero(value[n])) = {}

(* An option opened and saved without a change keeps a value it does not     *)
(* know, when nobody writes the key meanwhile.                               *)
UnknownIsKeptQuietly ==
    [][value' # value /\ Untouched /\ quiet /\ Unknown(editNode) => ~Select]_vars

(* The same, whoever writes the key meanwhile (editenum-1).                  *)
\* Broken by the code: a value written during an edit is overwritten by an
\* edit that changed nothing.
UnknownIsKept == [][Select /\ Untouched /\ Unknown(editNode) => value' = value]_vars

(* Left alone, the menu returns to the main screen.                          *)
ReturnsToMain == <>[][Tick \/ OtherWrites]_vars => []<>(screen = "main")
=============================================================================
