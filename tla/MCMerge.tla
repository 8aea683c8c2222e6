------------------------------ MODULE MCMerge ------------------------------
(***************************************************************************)
(* All merges of two or three components, into a new level or an empty     *)
(* one, of tables of up to three keys with values and tombstones.          *)
(***************************************************************************)
EXTENDS Merge, SequencesExt

CONSTANT MaxLevel

MCLevels ==
  UNION {{[n \in 1 .. l |-> IF n = 1 THEN sstable_scaling_factor ELSE sstable_scaling_factor - 1],
          [n \in 1 .. l + 1 |-> IF n = 1 THEN sstable_scaling_factor
                                ELSE IF n = l + 1 THEN 0 ELSE sstable_scaling_factor - 1]} :
            l \in 1 .. MaxLevel}

MCTables ==
  {[n \in DOMAIN keys |-> <<keys[n], table[keys[n]]>>] :
     keys \in {SetToSortSeq(ks, <) : ks \in SUBSET Key \ {{}}}, table \in [Key -> Entry]}

MCInit ==
  /\ levels \in MCLevels
  /\ level \in 1 .. Len(levels)
  /\ Tree!IsCompactionTarget(levels, level)
  /\ tables \in [Tree!Components(levels) -> MCTables]
  /\ pc = "open"
  /\ i = 0 /\ j = levels[1] - 1
  /\ readers = <<>>
  /\ total_kv_count = 0
  /\ key_buffer = <<>> /\ heap = {} /\ indexblock = <<>>

MCSpec == MCInit /\ [][Next]_vars /\ WF_vars(Next)
============================================================================
