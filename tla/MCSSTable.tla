----------------------------- MODULE MCSSTable -----------------------------
(***************************************************************************)
(* Three keys and two values of different sizes; small words, so that the  *)
(* filters of three and of four keys have two and three words; hashes that *)
(* wrap around.  Searches are made in merged tables that keep tombstones   *)
(* and have the largest filter (the others hold the same sequences of      *)
(* entries), after calls that accumulated a value for every key.           *)
(***************************************************************************)
EXTENDS SSTable

CONSTANTS v1, v2

MCKeySize == [k \in Key |-> k]
MCValueSize == [e \in Entry |-> IF e = Empty THEN 0 ELSE IF e = v1 THEN 1 ELSE 4]
MCHashLow == [k \in Key |-> IF k = 1 THEN 50 ELSE IF k = 2 THEN 61 ELSE 13]
MCHashHigh == [k \in Key |-> IF k = 1 THEN 37 ELSE IF k = 2 THEN 22 ELSE 63]

MCOld == [k \in Key |-> v2]

MCCall ==
  /\ input.writer = "merge" /\ ~input.skip_deleted /\ input.key_count = kv_count_limit
  /\ \/ \E key \in Key : Reader!StartFind(key)
     \/ \E range \in Reader!KeyRange : Reader!StartFindRange(range, MCOld)

MCNext ==
  \/ Next /\ UNCHANGED searchVars
  \/ Search(MCCall)
  \/ Search(Reader!FindStep)
  \/ Search(Reader!RangeStep)
  \/ Search(Reader!Return)

MCSpec ==
  /\ TableInit /\ [][MCNext]_tableVars
  /\ WF_vars(Next)
  /\ WF_searchVars(Search(Reader!FindStep))
  /\ WF_searchVars(Search(Reader!RangeStep))
============================================================================
