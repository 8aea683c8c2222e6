------------------------------- MODULE Merge -------------------------------
(***************************************************************************)
(* The loop of CompactLevelsUpTo (src/lsm_tree/lsm_tree.cpp) that merges   *)
(* the components of the levels 0 .. level - 1: readers opened one by one, *)
(* an iterator for each, a heap of their indices, and one round per key.   *)
(* LSMTree takes the whole merge for one operator, MergedKV; this module   *)
(* shows that the loop computes it.                                        *)
(*                                                                         *)
(* An iterator is the place it has reached in its table (SSTableFile shows *)
(* that it steps from entry to entry and that IsEnd holds at the last).    *)
(* Indices of readers count from 1.                                        *)
(***************************************************************************)
EXTENDS Integers, Sequences

CONSTANTS Key, Value, Empty, nullopt, sstable_scaling_factor

ASSUME MergeAssumption ==
  /\ Key \subseteq Int
  /\ sstable_scaling_factor \in Nat \ {0}
  /\ Empty \notin Value
  /\ nullopt \notin Value \cup {Empty}

VARIABLES
  levels,          \* levels_ when the merge begins
  level,           \* the level it writes to
  tables,          \* the components, each the sequence of its entries
  pc,              \* where the function is
  i, j,            \* the loops that open the readers
  readers,         \* the paths of the readers, in the order they were opened
  total_kv_count,  \* the entries of all readers
  key_buffer,      \* the iterators
  heap,            \* the indices in the priority queue
  indexblock       \* the entries written so far

inputs == <<levels, level, tables>>
opening == <<i, j, readers, total_kv_count>>
merging == <<key_buffer, heap, indexblock>>
vars == <<levels, level, tables, pc, i, j, readers, total_kv_count, key_buffer, heap, indexblock>>

Entry == Value \cup {Empty}
Sorted(table) == \A m, n \in DOMAIN table : m < n => table[m][1] < table[n][1]

(* The map that a table's entries make. *)
MapOf(table) ==
  [k \in Key |-> IF \E n \in DOMAIN table : table[n][1] = k
                 THEN table[CHOOSE n \in DOMAIN table : table[n][1] = k][2]
                 ELSE nullopt]

(* The tree, seen when the merge begins. *)
Files == [p \in DOMAIN tables |-> [kv |-> MapOf(tables[p]), filter |-> {}]]
Tree == INSTANCE LSMTree WITH
  Bit <- {}, HashBits <- [k \in Key |-> {}], memtable_kv_count_limit <- 1, Faults <- {},
  memtable <- [k \in Key |-> nullopt], files <- Files, tree_data <- nullopt, open <- TRUE

delete_tombstones == level = Len(levels)

components_count == sstable_scaling_factor + (level - 1) * (sstable_scaling_factor - 1)

----------------------------------------------------------------------------
(* A flush has filled level 0, the levels between are one short of full.   *)
Init ==
  /\ levels \in Seq(Nat) /\ levels # <<>> /\ levels[1] = sstable_scaling_factor
  /\ level \in 1 .. Len(levels) /\ Tree!IsCompactionTarget(levels, level)
  /\ tables \in [Tree!Components(levels) -> Seq(Key \X Entry) \ {<<>>}]
  /\ \A p \in DOMAIN tables : Sorted(tables[p])
  /\ pc = "open"
  /\ i = 0
  /\ j = levels[1] - 1
  /\ readers = <<>>
  /\ total_kv_count = 0
  /\ key_buffer = <<>>
  /\ heap = {}
  /\ indexblock = <<>>

(* MUTANT: the readers of a level are opened from the oldest on. *)
OldestReader == <<i, levels[i + 1] - 1 - j>>

NextReader == <<i, j>>

(* MUTANT: the count is that of the last reader. *)
CountOfLast == Len(tables[NextReader])

CountWithNext == total_kv_count + Len(tables[NextReader])

(* readers_manager_->CreateReader(GetSSTablePath(i, j)). *)
OpenReader ==
  /\ pc = "open"
  /\ i < level /\ j >= 0
  /\ readers' = Append(readers, NextReader)
  /\ total_kv_count' = CountWithNext
  /\ j' = j - 1
  /\ UNCHANGED <<inputs, pc, i, merging>>

NextLevel ==
  /\ pc = "open"
  /\ i < level /\ j < 0
  /\ i' = i + 1
  /\ j' = IF i + 1 < level THEN levels[i + 2] - 1 ELSE j
  /\ UNCHANGED <<inputs, pc, readers, total_kv_count, merging>>

(* Begin() for every reader; the heap gets components_count indices. *)
BeginIterators ==
  /\ pc = "open"
  /\ i = level
  /\ pc' = "merge"
  /\ key_buffer' = [n \in DOMAIN readers |-> 1]
  /\ heap' = 1 .. components_count
  /\ UNCHANGED <<inputs, opening, indexblock>>

GetKey(n) == tables[readers[n]][key_buffer[n]][1]
GetValue(n) == tables[readers[n]][key_buffer[n]][2]
IsEnd(n) == key_buffer[n] = Len(tables[readers[n]])

(* MUTANT: equal keys in the order of the oldest reader. *)
BeforeOldest(m, n) == GetKey(m) < GetKey(n) \/ (GetKey(m) = GetKey(n) /\ m > n)

(* The comparator: m comes out of the heap before n. *)
Before(m, n) == GetKey(m) < GetKey(n) \/ (GetKey(m) = GetKey(n) /\ m < n)

Top == CHOOSE m \in heap : \A n \in heap : m = n \/ Before(m, n)

(* MUTANT: a key whose entry is left out moves no reader. *)
ToAdvanceWritten ==
  IF delete_tombstones /\ GetValue(Top) = Empty THEN {}
  ELSE {n \in heap : GetKey(n) = GetKey(Top)}

(* The readers that stand at the smallest key. *)
to_advance == {n \in heap : GetKey(n) = GetKey(Top)}

(* One round: the newest entry for the smallest key is written, unless it  *)
(* is a tombstone that nothing older can need, and every reader that stood *)
(* at the key moves on or leaves the heap at its end.                      *)
MergeSmallest ==
  /\ pc = "merge"
  /\ heap # {}
  /\ indexblock' = IF delete_tombstones /\ GetValue(Top) = Empty THEN indexblock
                   ELSE Append(indexblock, <<GetKey(Top), GetValue(Top)>>)
  /\ key_buffer' = [n \in DOMAIN key_buffer |->
                      IF n \in to_advance /\ ~IsEnd(n) THEN key_buffer[n] + 1 ELSE key_buffer[n]]
  /\ heap' = heap \ {n \in to_advance : IsEnd(n)}
  /\ UNCHANGED <<inputs, pc, opening>>

Finish ==
  /\ pc = "merge"
  /\ heap = {}
  /\ pc' = "done"
  /\ UNCHANGED <<inputs, opening, merging>>

Next == OpenReader \/ NextLevel \/ BeginIterators \/ MergeSmallest \/ Finish

(* The thread that merges is not suspended for ever. *)
Spec == Init /\ [][Next]_vars /\ WF_vars(Next)

----------------------------------------------------------------------------
(* Properties. *)

(* The readers are the components of the merged levels, each once, from    *)
(* the newest to the oldest: the index that breaks ties is the age.  The   *)
(* heap, filled by components_count, which is computed from the factor and *)
(* not from the levels' counts, holds indices of readers only.             *)
ReadersNewestFirst ==
  /\ heap \subseteq DOMAIN readers
  /\ \A m, n \in DOMAIN readers : m < n => Tree!Newer(readers[m], readers[n])
  /\ pc # "open" => {readers[n] : n \in DOMAIN readers} = Tree!Inputs(levels, level)

(* The output's keys ascend.  Once no reader left in the heap can yield k, *)
(* the output holds for it what LSMTree's MergedKV says; before, nothing.  *)
(* At the end the output is the merged table.                              *)
OutputIsMerged ==
  pc # "open" =>
    /\ Sorted(indexblock)
    /\ \A k \in Key :
         MapOf(indexblock)[k] = IF \A n \in heap : k < GetKey(n)
                                THEN Tree!MergedKV(levels, Files, level)[k]
                                ELSE nullopt

(* The filter, whose size is computed from total_kv_count, never takes     *)
(* more keys than it was made for.                                         *)
OutputWithinCount == Len(indexblock) <= total_kv_count

(* The merge ends: each round moves some iterator. *)
MergeEnds == <>(pc = "done")
============================================================================
