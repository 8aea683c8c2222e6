---------------------- MODULE MCSSTableReadersManager ----------------------
(***************************************************************************)
(* Tables are interchangeable, and the descriptor limit bounds the model.  *)
(***************************************************************************)
EXTENDS SSTableReadersManager, TLC

PathSymmetry == Permutations(Path)
============================================================================
