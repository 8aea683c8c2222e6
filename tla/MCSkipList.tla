----------------------------- MODULE MCSkipList -----------------------------
(***************************************************************************)
(* Small instances of SkipList.  Every key may come in any order with any  *)
(* height; with no key inserted twice the list is bounded by Key.          *)
(***************************************************************************)
EXTENDS SkipList

CONSTANTS v1, v2
=============================================================================
