------------------------------ MODULE KVStore ------------------------------
(***************************************************************************)
(* What an LSMTree promises its callers, as the tests state it with a      *)
(* std::map beside the tree: a map from keys to values that an orderly     *)
(* destruction followed by the loading constructor brings back unchanged.  *)
(***************************************************************************)
CONSTANTS Key, Value,
          nullopt   \* what Find answers for a key that is not in the store

VARIABLES store,    \* the value of every key, or nullopt
          open      \* a tree object exists

vars == <<store, open>>

Nothing == [k \in Key |-> nullopt]

TypeOK ==
  /\ store \in [Key -> Value \cup {nullopt}]
  /\ open \in BOOLEAN

Init ==
  /\ store = Nothing
  /\ open = FALSE

(* The constructor that takes parameters starts from an empty map. *)
Create ==
  /\ ~open
  /\ open' = TRUE
  /\ store' = Nothing

(* The constructor that takes a path, and the destructor. *)
Load ==
  /\ ~open
  /\ open' = TRUE
  /\ UNCHANGED store

Close ==
  /\ open
  /\ open' = FALSE
  /\ UNCHANGED store

Insert(k, v) ==
  /\ open
  /\ store' = [store EXCEPT ![k] = v]
  /\ UNCHANGED open

Erase(k) ==
  /\ open
  /\ store' = [store EXCEPT ![k] = nullopt]
  /\ UNCHANGED open

Next ==
  \/ Create
  \/ Load
  \/ Close
  \/ \E k \in Key : Erase(k) \/ \E v \in Value : Insert(k, v)

Spec == Init /\ [][Next]_vars
============================================================================
