----------------------------- MODULE MCLSMTree -----------------------------
(***************************************************************************)
(* Small instances of LSMTree for TLC.  MaxLevels bounds the number of     *)
(* levels and MaxComponents the components per level (a wedged level 0     *)
(* grows for ever): a step that would leave the bounds is not explored.    *)
(* OneTree confines a run to the life of one tree, its sessions included;  *)
(* without it new trees are created over the files of earlier ones.        *)
(***************************************************************************)
EXTENDS LSMTree

CONSTANTS k1, k2, b1, b2, MaxLevels, MaxComponents, OneTree

(* The filter of a table that holds k2 answers yes for k1, too. *)
Bits == [k \in Key |-> IF k = k1 THEN {b1} ELSE {b1, b2}]

WithinBounds ==
  /\ Len(levels') <= MaxLevels
  /\ \A n \in DOMAIN levels' : levels'[n] <= MaxComponents
  /\ OneTree /\ tree_data # nullopt /\ Create => Load

MCNext == Next /\ WithinBounds
MCSpec == Init /\ [][MCNext]_vars

(* Where the destructor always saves, nothing reads the old contents of    *)
(* tree_data while the tree is open: such states are the same.             *)
SavedView == <<memtable, levels, files, open, IF open THEN nullopt ELSE tree_data>>
============================================================================
