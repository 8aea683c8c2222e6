--------------------------- MODULE MCLSMTreeCrash ---------------------------
(***************************************************************************)
(* One thread that only writes, at most MaxWrites times over all sessions; *)
(* it may crash as often as it likes.                                      *)
(***************************************************************************)
EXTENDS LSMTreeCrash

CONSTANTS k1, k2, b1, b2, MaxWrites

VARIABLE writes

Bits == [k \in Key |-> IF k = k1 THEN {b1} ELSE {b1, b2}]

MCInit == CrashInit /\ writes = 0

Bounded ==
  /\ writes' = writes + IF \E t \in Thread : pc[t] = "idle" /\ pc'[t] = "lock" THEN 1 ELSE 0
  /\ writes' <= MaxWrites
  /\ \A t \in Thread : call'[t] # nullopt => call'[t].op = "Insert"

MCNext ==
  \/ Crash /\ UNCHANGED writes
  \/ DestroyUnsaved /\ UNCHANGED writes
  \/ NewTree /\ UNCHANGED writes
  \/ LoadTree /\ UNCHANGED writes
  \/ SaveTree /\ UNCHANGED writes
  \/ (\E t \in Thread : Proceed(t)) /\ Bounded

MCSpec == MCInit /\ [][MCNext]_<<crashVars, writes>>
============================================================================
