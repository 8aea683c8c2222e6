---------------------------- MODULE LSMTreeCrash ----------------------------
(***************************************************************************)
(* The tree when its process dies, between any two steps of LSMThreads or  *)
(* in the middle of writing a table, and is loaded again from the file its *)
(* last destructor wrote.  The files are as the system calls left them     *)
(* (the process dies, not the machine).                                    *)
(*                                                                         *)
(* A destructor that is interrupted is SaveLoad's business.                *)
(***************************************************************************)
EXTENDS LSMThreads

VARIABLES
  safe,     \* history: the session was loaded and has unlinked nothing
  broken    \* history: it was loaded without that, or has lost a merge's output

history == <<safe, broken>>
crashVars == <<vars, safe, broken>>

CrashInit == Init /\ safe = FALSE /\ broken = FALSE

(* The table that a thread is just writing is cut short. *)
TornPaths ==
  {Tree!LastComponent(levels, 0) : t \in {u \in Thread : pc[u] = "flush"}}
    \cup {Tree!LastComponent(levels, level) :
            level \in {n \in 1 .. Len(levels) : /\ \E t \in Thread : pc[t] = "merge"
                                                /\ Tree!IsCompactionTarget(levels, n)}}

Crash ==
  /\ open
  /\ open' = FALSE
  /\ memtable' = Tree!EmptyTable
  /\ levels' = <<>>
  /\ files' \in {files} \cup {Tree!Stored(files, p, Tree!ZeroBytes) : p \in TornPaths}
  /\ mtx_' = nullopt
  /\ before' = nullopt
  /\ pc' = [t \in Thread |-> "idle"]
  /\ call' = [t \in Thread |-> nullopt]
  /\ answer' = [t \in Thread |-> nullopt]
  /\ at' = [t \in Thread |-> <<0, 0>>]
  /\ created' = [t \in Thread |-> FALSE]
  /\ broken' = FALSE
  /\ UNCHANGED <<tree_data, safe>>

NewTree == Session /\ Tree!Create /\ safe' = FALSE /\ broken' = FALSE
LoadTree == Session /\ Tree!Load /\ broken' = ~safe /\ UNCHANGED safe
SaveTree == Session /\ Tree!Close /\ safe' = ~broken /\ broken' = FALSE

(* The destructor cannot open tree_data_: the session is lost as in a      *)
(* crash, but orderly.                                                     *)
DestroyUnsaved ==
  /\ \A t \in Thread : pc[t] = "idle"
  /\ Tree!CloseUnsaved
  /\ broken' = FALSE
  /\ UNCHANGED <<mtx_, pc, call, at, created, answer, before, safe>>

(* The first table of a merge that is unlinked ends the saved tree, a      *)
(* merge that is written nowhere the map of the session.                   *)
Proceed(t) ==
  /\ Step(t) \/ Throw(t) \/ Return(t) \/ \E c \in Abstract!Calls : Call(t, c)
  /\ safe' = (safe /\ ~Unlink(t))
  /\ broken' = (broken \/ MergeUnwritten(t))

CrashNext ==
  \/ Crash \/ DestroyUnsaved
  \/ NewTree \/ LoadTree \/ SaveTree
  \/ \E t \in Thread : Proceed(t)

CrashSpec == CrashInit /\ [][CrashNext]_crashVars

----------------------------------------------------------------------------
(* Properties. *)

(* As long as safe holds, the saved file names only tables that are on     *)
(* disk and whole: neither flushes nor merges of the running session, nor  *)
(* the remains of sessions that crashed, touch them.                       *)
SavedReadable ==
  safe => /\ tree_data # nullopt
          /\ \A p \in Tree!Components(tree_data.levels) :
               p \in DOMAIN files /\ files[p].kv # Tree!EmptyTable

SavedContents ==
  IF safe THEN Tree!ContentsOf(tree_data.memtable, tree_data.levels) ELSE Tree!EmptyTable
Promised ==
  IF open THEN IF broken THEN Tree!EmptyTable ELSE Atomic!Contents ELSE SavedContents
Durable == INSTANCE DurableStore WITH store <- Promised, saved <- SavedContents

(* A crash returns to the saved map, and what crashed sessions left behind *)
(* on disk never shows in a later one.                                     *)
CrashRestoresSaved == Durable!Spec
============================================================================
