------------------------------ MODULE SSTable ------------------------------
(***************************************************************************)
(* A table from its first byte to its last lookup: SSTableFile writes the  *)
(* file and iterates over it, then SSTableReader searches the same file.   *)
(* The reader's entries are not given to it here: they are what the index  *)
(* block and the meta block of the written file lead to.                   *)
(***************************************************************************)
EXTENDS SSTableFile

VARIABLES
  call,                              \* what the search does, pc of SSTableReader
  request, l, r, accumulated, answer \* as in SSTableReader

searchVars == <<call, request, l, r, accumulated, answer>>
tableVars == <<vars, searchVars>>

(* meta_.kv_count entries, each through GetIthKeyToken, GetKeyFromToken    *)
(* and GetValueFromToken.                                                  *)
EntriesRead ==
  [i \in 1 .. (IF pc = "read" THEN meta.kv_count ELSE 0) |->
     <<GetIthKey(i - 1).key, GetValue(GetIthKey(i - 1))>>]

Reader == INSTANCE SSTableReader WITH entries <- EntriesRead, pc <- call

TableInit == Init /\ Reader!Idle

Search(step) == pc = "read" /\ UNCHANGED vars /\ step

TableNext == (Next /\ UNCHANGED searchVars) \/ Search(Reader!Next)

TableSpec ==
  /\ TableInit /\ [][TableNext]_tableVars
  /\ WF_vars(Next)
  /\ WF_searchVars(Search(Reader!FindStep))
  /\ WF_searchVars(Search(Reader!RangeStep))

----------------------------------------------------------------------------
(* Properties of the search, over the file instead of a given table. *)

(* Find over the file answers the entry that was written for the key.      *)
FindAnswersEntry == Reader!FindAnswersEntry

(* FindRange over the file overlays the entries that were written inside   *)
(* the range, and those only.                                              *)
FindRangeOverlays == Reader!FindRangeOverlays

(* Every call over the file returns.                                       *)
CallsReturn == Reader!CallsReturn
============================================================================
