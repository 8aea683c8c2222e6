------------------------------ MODULE EntryMap ------------------------------
(***************************************************************************)
(* What a memtable promises the tree: a table from keys to entries, where  *)
(* an erased key keeps an entry, the tombstone Empty, until Clear.         *)
(***************************************************************************)
CONSTANTS Key, Value,
          Empty,     \* the tombstone
          nullopt    \* no entry

VARIABLE table

NoEntries == [k \in Key |-> nullopt]

Init == table = NoEntries

Insert(k, e) == table' = [table EXCEPT ![k] = e]
Clear == table' = NoEntries

Next == Clear \/ \E k \in Key, e \in Value \cup {Empty} : Insert(k, e)

Spec == Init /\ [][Next]_table
=============================================================================
