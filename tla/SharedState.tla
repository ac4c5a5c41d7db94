---------------------------- MODULE SharedState -----------------------------
(***************************************************************************)
(* The key/value store all components talk through:                        *)
(* components/modesp_core/src/shared_state.cpp.                            *)
(*                                                                         *)
(* Every operation holds the mutex from end to end, so each is one step.   *)
(* A set() that times out on the mutex, or that finds the map full, only   *)
(* counts the failure and is not an action.  remove() and clear() have no  *)
(* caller.  The persist callback runs after the mutex is given back and is *)
(* modelled with its only user, in PersistService.                         *)
(***************************************************************************)
EXTENDS Naturals, FiniteSets

CONSTANTS
  Key, Value,
  NoValue,                   \* of a key that is not in the map
  MODESP_MAX_STATE_ENTRIES,  \* capacity of the map
  MAX_CHANGED_KEYS,          \* capacity of the list of changed keys
  VERSION_RANGE              \* 2^32 in the code

StoreAssumption ==
  /\ NoValue \notin Value
  /\ MODESP_MAX_STATE_ENTRIES \in Nat /\ MAX_CHANGED_KEYS \in Nat
  /\ VERSION_RANGE \in Nat \ {0}

VARIABLES
  map,           \* the entries
  changed_keys,  \* keys with a tracked change since the last drain
  force_full,    \* changed_keys could not hold them all
  version        \* counts tracked changes

store == <<map, changed_keys, force_full, version>>

Entries == [Key -> Value \cup {NoValue}]
Present == {k \in Key : map[k] # NoValue}

StoreTypeOK ==
  /\ map \in Entries
  /\ changed_keys \subseteq Key /\ Cardinality(changed_keys) <= MAX_CHANGED_KEYS
  /\ force_full \in BOOLEAN
  /\ version \in 0..(VERSION_RANGE - 1)

StoreInit ==
  /\ map = [k \in Key |-> NoValue]
  /\ changed_keys = {} /\ force_full = FALSE /\ version = 0

MapFull(k) == k \notin Present /\ Cardinality(Present) >= MODESP_MAX_STATE_ENTRIES

(* Seeded fault (ViewsAreCurrent): a key that finds the list full takes    *)
(* the place of one that is in it.                                         *)
NoteChangedReplacing(k) ==
  LET full == Cardinality(changed_keys) >= MAX_CHANGED_KEYS IN
  /\ \E old \in changed_keys \cup {k} :
       changed_keys' = IF full THEN (changed_keys \ {old}) \cup {k}
                               ELSE changed_keys \cup {k}
  /\ UNCHANGED force_full

NoteChanged(k) ==
  LET full == k \notin changed_keys /\ Cardinality(changed_keys) >= MAX_CHANGED_KEYS IN
  /\ changed_keys' = IF full THEN changed_keys ELSE changed_keys \cup {k}
  /\ force_full' = (force_full \/ full)

(* set(): a value that is not new, or a silent change, is not noted.       *)
Set(k, v, track) ==
  /\ ~MapFull(k)
  /\ map' = [map EXCEPT ![k] = v]
  /\ IF track /\ map[k] # v
       THEN /\ NoteChanged(k)
            /\ version' = (version + 1) % VERSION_RANGE
       ELSE UNCHANGED <<changed_keys, force_full, version>>

has_changes == changed_keys # {} \/ force_full

(* for_each_changed_and_clear(): the keys it hands to the callback, and    *)
(* the clearing.  for_each() hands over all of Present.                    *)
Changed == IF force_full THEN Present ELSE changed_keys \cap Present

ClearChanged ==
  /\ changed_keys' = {} /\ force_full' = FALSE
  /\ UNCHANGED <<map, version>>
=============================================================================
