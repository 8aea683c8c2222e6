----------------------------- MODULE MCKVBuffer -----------------------------
(***************************************************************************)
(* Small instances of KVBuffer: MaxNodes entries between two Clears, and   *)
(* MaxSlices slices (Clear never gives one back, so they would grow for    *)
(* ever).                                                                  *)
(***************************************************************************)
EXTENDS KVBuffer

CONSTANTS MaxNodes, MaxSlices

(* Keys that share prefixes and end before, at and behind each other. *)
ShortKeys == {<<1>>, <<1, 0>>, <<1, 0, 1>>, <<0, 1>>}

(* A key that may cover a whole slice of three bytes behind the one it     *)
(* begins in.                                                              *)
LongKeys == {<<1>>, <<0, 1, 0, 1, 1>>}

(* A tombstone, and a value over several slices, all different. *)
MCValue == {<<>>, <<1, 0, 0, 0, 1, 0, 1>>}

WithinBounds == Len(nodes') <= MaxNodes /\ Len(slices') <= MaxSlices

MCNext == Next /\ WithinBounds
MCSpec == Init /\ [][MCNext]_vars
=============================================================================
