---------------------------- MODULE DurableStore ----------------------------
(***************************************************************************)
(* A map that survives crashes as far as an LSMTree does: a crash returns  *)
(* to the map that was saved last, as long as the session that crashed was *)
(* loaded from it (and not created anew) and has not begun to discard its  *)
(* tables.  After that the saved map is lost, and a session that is loaded *)
(* all the same promises nothing; nor does one that has lost entries.      *)
(***************************************************************************)
CONSTANTS Key, Value, nullopt

VARIABLES
  store,    \* the map, Nothing where none is promised
  saved,    \* what a crash returns to
  open,     \* a session runs
  safe,     \* the saved map can still be loaded
  broken    \* it was loaded from a saved map that was lost, or has lost entries

vars == <<store, saved, open, safe, broken>>

Nothing == [k \in Key |-> nullopt]

Init ==
  /\ store = Nothing
  /\ saved = Nothing
  /\ open = FALSE
  /\ safe = FALSE
  /\ broken = FALSE

Create ==
  /\ ~open
  /\ open' = TRUE
  /\ store' = Nothing
  /\ saved' = Nothing
  /\ safe' = FALSE
  /\ broken' = FALSE

Load ==
  /\ ~open
  /\ open' = TRUE
  /\ broken' = ~safe
  /\ UNCHANGED <<store, saved, safe>>

Write(k, v) ==
  /\ open
  /\ store' = IF broken THEN store ELSE [store EXCEPT ![k] = v]
  /\ UNCHANGED <<saved, open, safe, broken>>

(* A merge begins to remove its inputs. *)
Discard ==
  /\ open
  /\ safe' = FALSE
  /\ saved' = Nothing
  /\ UNCHANGED <<store, open, broken>>

(* The output of a merge is written nowhere. *)
Lose ==
  /\ open
  /\ store' = Nothing
  /\ broken' = TRUE
  /\ UNCHANGED <<saved, open, safe>>

Close ==
  /\ open
  /\ open' = FALSE
  /\ saved' = store
  /\ safe' = ~broken
  /\ broken' = FALSE
  /\ UNCHANGED store

Crash ==
  /\ open
  /\ open' = FALSE
  /\ store' = saved
  /\ broken' = FALSE
  /\ UNCHANGED <<saved, safe>>

Next ==
  \/ Create
  \/ Load
  \/ \E k \in Key, v \in Value \cup {nullopt} : Write(k, v)
  \/ Discard
  \/ Lose
  \/ Close
  \/ Crash

Spec == Init /\ [][Next]_vars
============================================================================
