----------------------------- MODULE LSMThreads -----------------------------
(***************************************************************************)
(* Threads that call the tree (src/lsm_tree/lsm_tree.cpp), with the steps  *)
(* each operation takes between locking mtx_ and its release: LSMTree's    *)
(* single step per operation is justified here and nowhere else.  A        *)
(* lock_guard releases on every way out, exceptions included.              *)
(*                                                                         *)
(* The destructor takes no lock: that no thread is inside when an object   *)
(* is created, loaded or destroyed is the caller's duty, a guard here.     *)
(***************************************************************************)
EXTENDS Integers, Sequences, FiniteSets

CONSTANTS
  Thread, Key, Value, Empty, nullopt, Bit, HashBits,
  sstable_scaling_factor, memtable_kv_count_limit, Faults,
  exception   \* the answer of a lookup that threw

ASSUME ThreadAssumption == nullopt \notin Thread

VARIABLES
  memtable, levels, files, tree_data, open,   \* as in LSMTree
  mtx_,      \* the thread that holds the mutex, or nullopt
  pc,        \* pc[t]: the step that thread t takes next
  call,      \* call[t]: its operation, as in ConcurrentStore
  at,        \* at[t]: the table it has come to, or that it is writing
  created,   \* created[t]: GetLastComponentAtLevel made a new level for it
  answer,    \* answer[t]: the result, as far as it is known
  before     \* history: the tree when the holder locked the mutex

tree == <<memtable, levels, files, tree_data, open>>
vars == <<memtable, levels, files, tree_data, open, mtx_, pc, call, at, created, answer, before>>

Tree == INSTANCE LSMTree

ASSUME TreeAssumption ==
  Tree!SentinelAssumption /\ Tree!ParameterAssumption /\ Tree!SavedTreeAssumption

(* The tree as it is whenever nobody holds the mutex, and was when the     *)
(* holder locked it.                                                       *)
Snapshot == [memtable |-> memtable, levels |-> levels, files |-> files]
Seen == IF mtx_ = nullopt THEN Snapshot ELSE before
Atomic == INSTANCE LSMTree WITH
  memtable <- Seen.memtable, levels <- Seen.levels, files <- Seen.files

Status ==
  [t \in Thread |-> IF pc[t] = "idle" THEN "idle"
                    ELSE IF pc[t] = "returned" THEN "done" ELSE "called"]
Returned == [t \in Thread |-> IF pc[t] = "returned" THEN answer[t] ELSE nullopt]
Abstract == INSTANCE ConcurrentStore WITH
  store <- Atomic!Contents, status <- Status, answer <- Returned

Init ==
  /\ Tree!Init
  /\ mtx_ = nullopt
  /\ pc = [t \in Thread |-> "idle"]
  /\ call = [t \in Thread |-> nullopt]
  /\ at = [t \in Thread |-> <<0, 0>>]
  /\ created = [t \in Thread |-> FALSE]
  /\ answer = [t \in Thread |-> nullopt]
  /\ before = nullopt

Goto(t, place) == pc' = [pc EXCEPT ![t] = place]
Answers(t, result) == answer' = [answer EXCEPT ![t] = result]

----------------------------------------------------------------------------
Call(t, c) ==
  /\ open
  /\ pc[t] = "idle"
  /\ Goto(t, "lock")
  /\ call' = [call EXCEPT ![t] = c]
  /\ UNCHANGED <<tree, mtx_, at, created, answer, before>>

(* MUTANT: lookups take no lock. *)
AcquireToWrite(t) ==
  /\ mtx_ = nullopt \/ call[t].op # "Insert"
  /\ mtx_' = IF call[t].op = "Insert" THEN t ELSE mtx_

Acquire(t) ==
  /\ mtx_ = nullopt
  /\ mtx_' = t

Lock(t) ==
  /\ pc[t] = "lock"
  /\ Acquire(t)
  /\ before' = Snapshot
  /\ Goto(t, call[t].op)
  /\ UNCHANGED <<tree, call, at, created, answer>>

Unlock(t) ==
  /\ pc[t] = "unlock"
  /\ mtx_' = nullopt
  /\ before' = nullopt
  /\ Goto(t, "returned")
  /\ UNCHANGED <<tree, call, at, created, answer>>

Return(t) ==
  /\ pc[t] = "returned"
  /\ Goto(t, "idle")
  /\ call' = [call EXCEPT ![t] = nullopt]
  /\ answer' = [answer EXCEPT ![t] = nullopt]
  /\ at' = [at EXCEPT ![t] = <<0, 0>>]
  /\ created' = [created EXCEPT ![t] = FALSE]
  /\ UNCHANGED <<tree, mtx_, before>>

----------------------------------------------------------------------------
(* Insert and Erase. *)

WriteMemtable(t) ==
  /\ pc[t] = "Insert"
  /\ memtable' = Tree!Written(call[t].key, call[t].entry)
  /\ Goto(t, IF Tree!Full(memtable') THEN "flush" ELSE "unlock")
  /\ UNCHANGED <<levels, files, tree_data, open, mtx_, call, at, created, answer, before>>

FlushThrows(t) ==
  /\ pc[t] = "flush"
  /\ "flush" \in Faults
  /\ levels' = Tree!Grown(levels, 0)
  /\ Goto(t, "unlock")
  /\ UNCHANGED <<memtable, files, tree_data, open, mtx_, call, at, created, answer, before>>

(* open, MakeSSTableInFd, close. *)
Flush(t) ==
  /\ pc[t] = "flush"
  /\ levels' = Tree!Grown(levels, 0)
  /\ files' = Tree!FlushedFiles(memtable)
  /\ at' = [at EXCEPT ![t] = Tree!LastComponent(levels, 0)]
  /\ created' = [created EXCEPT ![t] = Tree!CreatedJustNow(levels, 0)]
  /\ Goto(t, "count")
  /\ UNCHANGED <<memtable, tree_data, open, mtx_, call, answer, before>>

(* true_kv_count, what MakeSSTableInFd meant to write, is 0. *)
WritesNothing(t) == Tree!MakeSSTable(memtable, created[t]) = Tree!ZeroBytes

CountNothing(t) ==
  /\ pc[t] = "count"
  /\ WritesNothing(t)
  /\ memtable' = Tree!EmptyTable
  /\ levels' = IF created[t] THEN SubSeq(levels, 1, Len(levels) - 1) ELSE levels
  /\ Goto(t, "unlock")
  /\ UNCHANGED <<files, tree_data, open, mtx_, call, at, created, answer, before>>

Count(t) ==
  /\ pc[t] = "count"
  /\ ~WritesNothing(t)
  /\ memtable' = Tree!EmptyTable
  /\ levels' = [levels EXCEPT ![1] = @ + 1]
  /\ Goto(t, IF levels'[1] = sstable_scaling_factor THEN "merge" ELSE "unlock")
  /\ UNCHANGED <<files, tree_data, open, mtx_, call, at, created, answer, before>>

(* The merge as far as its output is written; Merge has its loop. *)
MergeInto(t, level) ==
  /\ Tree!IsCompactionTarget(levels, level)
  /\ levels' = Tree!Grown(levels, level)
  /\ at' = [at EXCEPT ![t] = Tree!LastComponent(levels, level)]
  /\ created' = [created EXCEPT ![t] = Tree!CreatedJustNow(levels, level)]

Merge(t) ==
  /\ pc[t] = "merge"
  /\ \E level \in 1 .. Len(levels) :
       /\ MergeInto(t, level)
       /\ Tree!Inputs(levels, level) \subseteq DOMAIN files
       /\ \E sst \in Tree!MergedTables(levels, files, level) :
            files' = Tree!Stored(files, Tree!LastComponent(levels, level), sst)
  /\ Goto(t, "reset")
  /\ UNCHANGED <<memtable, tree_data, open, mtx_, call, answer, before>>

(* The output's open() fails unnoticed: nothing is written, so nothing but *)
(* the counts changes up to the first unlink.                              *)
MergeUnwritten(t) ==
  /\ pc[t] = "merge"
  /\ "compaction" \in Faults
  /\ \E level \in 1 .. Len(levels) :
       /\ Tree!IsCompactionTarget(levels, level)
       /\ Tree!Inputs(levels, level) \subseteq DOMAIN files
       /\ \E sst \in Tree!MergedTables(levels, files, level) :
            levels' = Tree!CompactedLevels(levels, level, sst)
       /\ at' = [at EXCEPT ![t] = Tree!LastComponent(levels, level)]
  /\ Goto(t, "unlink")
  /\ UNCHANGED <<memtable, files, tree_data, open, mtx_, call, created, answer, before>>

MergeThrows(t) ==
  /\ pc[t] = "merge"
  /\ \E level \in 1 .. Len(levels) :
       /\ MergeInto(t, level)
       /\ "reader" \in Faults \/ ~ (Tree!Inputs(levels, level) \subseteq DOMAIN files)
       /\ files' \in Tree!AfterThrow(files, Tree!LastComponent(levels, level))
  /\ Goto(t, "unlock")
  /\ UNCHANGED <<memtable, tree_data, open, mtx_, call, answer, before>>

(* MUTANT: a new level stays although nothing is left to put into it. *)
ResetLevelsUnpopped(t) ==
  [n \in DOMAIN levels |->
     IF n <= at[t][1] THEN 0
     ELSE levels[n] + IF n = at[t][1] + 1 /\ files[at[t]] # Tree!ZeroBytes THEN 1 ELSE 0]

(* levels_ after a merge: the output counted or its level popped again,    *)
(* the levels above it empty.                                              *)
ResetLevels(t) ==
  LET level == at[t][1]
      empty == files[at[t]] = Tree!ZeroBytes
  IN  [n \in 1 .. IF empty /\ created[t] THEN level ELSE Len(levels) |->
         IF n <= level THEN 0
         ELSE levels[n] + IF n = level + 1 /\ ~empty THEN 1 ELSE 0]

Reset(t) ==
  /\ pc[t] = "reset"
  /\ levels' = ResetLevels(t)
  /\ Goto(t, "unlink")
  /\ UNCHANGED <<memtable, files, tree_data, open, mtx_, call, at, created, answer, before>>

(* The tables to unlink that are left, level by level, and the last one of *)
(* level 0 at the end.                                                     *)
Leftover(t) == Tree!ConsumedPaths(at[t][1]) \cap DOMAIN files
UnlinkedNext(t) ==
  CHOOSE p \in Leftover(t) :
    \A q \in Leftover(t) \ {p} :
      \/ q = <<0, sstable_scaling_factor - 1>>
      \/ /\ p # <<0, sstable_scaling_factor - 1>>
         /\ p[1] < q[1] \/ (p[1] = q[1] /\ p[2] < q[2])

Unlink(t) ==
  /\ pc[t] = "unlink"
  /\ Leftover(t) # {}
  /\ files' = Tree!Unlinked(files, {UnlinkedNext(t)})
  /\ UNCHANGED <<memtable, levels, tree_data, open, mtx_, pc, call, at, created, answer, before>>

UnlinkedAll(t) ==
  /\ pc[t] = "unlink"
  /\ Leftover(t) = {}
  /\ Goto(t, "unlock")
  /\ UNCHANGED <<tree, mtx_, call, at, created, answer, before>>

----------------------------------------------------------------------------
(* Find: levels_ is read at the start of each level, a table when its turn *)
(* comes.  A number below 0 ends a level.                                  *)

(* MUTANT: the newest component of a level is passed over. *)
LastOfButOne(i) == <<i, IF i < Len(levels) THEN levels[i + 1] - 2 ELSE 0>>

LastOf(i) == <<i, IF i < Len(levels) THEN levels[i + 1] - 1 ELSE 0>>

FindInMemtable(t) ==
  LET entry == memtable[call[t].key]
  IN  /\ pc[t] = "Find"
      /\ Answers(t, Tree!Visible(entry))
      /\ Goto(t, IF entry # nullopt THEN "unlock" ELSE "search")
      /\ at' = [at EXCEPT ![t] = LastOf(0)]
      /\ UNCHANGED <<tree, mtx_, call, created, before>>

(* MUTANT: a table that does not hold the key is looked at again. *)
NextInLevelSame(p) == IF p[2] < 0 THEN LastOf(p[1] + 1) ELSE p

NextInLevel(p) == IF p[2] < 0 THEN LastOf(p[1] + 1) ELSE <<p[1], p[2] - 1>>

HasKey(p, k) == Tree!TestHashes(files[p], k) /\ files[p].kv[k] # nullopt

(* The end of a level, or a table without the key. *)
SearchOn(t) ==
  /\ pc[t] = "search"
  /\ at[t][1] < Len(levels)
  /\ at[t][2] >= 0 => at[t] \in DOMAIN files /\ ~HasKey(at[t], call[t].key)
  /\ at' = [at EXCEPT ![t] = NextInLevel(at[t])]
  /\ UNCHANGED <<tree, mtx_, pc, call, created, answer, before>>

SearchHit(t) ==
  /\ pc[t] = "search"
  /\ at[t][1] < Len(levels) /\ at[t][2] >= 0
  /\ at[t] \in DOMAIN files /\ HasKey(at[t], call[t].key)
  /\ Answers(t, Tree!Visible(files[at[t]].kv[call[t].key]))
  /\ Goto(t, "unlock")
  /\ UNCHANGED <<tree, mtx_, call, at, created, before>>

SearchMiss(t) ==
  /\ pc[t] = "search"
  /\ at[t][1] >= Len(levels)
  /\ Goto(t, "unlock")
  /\ UNCHANGED <<tree, mtx_, call, at, created, answer, before>>

(* FindRange, of all keys: from the deepest level's first component on. *)
BeginRange(t) ==
  /\ pc[t] = "FindRange"
  /\ Answers(t, Tree!EmptyTable)
  /\ at' = [at EXCEPT ![t] = <<Len(levels) - 1, 0>>]
  /\ Goto(t, "range")
  /\ UNCHANGED <<tree, mtx_, call, created, before>>

Counted(p) == p[1] >= 0 /\ p[1] < Len(levels) /\ p[2] < levels[p[1] + 1]

RangeTable(t) ==
  /\ pc[t] = "range"
  /\ Counted(at[t]) /\ at[t] \in DOMAIN files
  /\ Answers(t, Tree!Overlay(answer[t], files[at[t]].kv, Key))
  /\ at' = [at EXCEPT ![t][2] = @ + 1]
  /\ UNCHANGED <<tree, mtx_, pc, call, created, before>>

RangeNextLevel(t) ==
  /\ pc[t] = "range"
  /\ at[t][1] >= 0 /\ ~Counted(at[t])
  /\ at' = [at EXCEPT ![t] = <<at[t][1] - 1, 0>>]
  /\ UNCHANGED <<tree, mtx_, pc, call, created, answer, before>>

RangeMemtable(t) ==
  /\ pc[t] = "range"
  /\ at[t][1] < 0
  /\ Answers(t, Tree!Overlay(answer[t], memtable, Key))
  /\ Goto(t, "unlock")
  /\ UNCHANGED <<tree, mtx_, call, at, created, before>>

(* CreateReader cannot open the table. *)
LookupThrows(t) ==
  /\ pc[t] \in {"search", "range"}
  /\ Counted(at[t]) /\ at[t][2] >= 0
  /\ "reader" \in Faults \/ at[t] \notin DOMAIN files
  /\ Answers(t, exception)
  /\ Goto(t, "unlock")
  /\ UNCHANGED <<tree, mtx_, call, at, created, before>>

----------------------------------------------------------------------------
Session ==
  /\ \A t \in Thread : pc[t] = "idle"
  /\ Tree!Create \/ Tree!Load \/ Tree!Close
  /\ UNCHANGED <<mtx_, pc, call, at, created, answer, before>>

WriteStep(t) ==
  \/ WriteMemtable(t)
  \/ Flush(t) \/ CountNothing(t) \/ Count(t)
  \/ Merge(t) \/ MergeUnwritten(t) \/ Reset(t) \/ Unlink(t) \/ UnlinkedAll(t)

ReadStep(t) ==
  \/ FindInMemtable(t) \/ SearchOn(t) \/ SearchHit(t) \/ SearchMiss(t)
  \/ BeginRange(t) \/ RangeTable(t) \/ RangeNextLevel(t) \/ RangeMemtable(t)

Throw(t) == FlushThrows(t) \/ MergeThrows(t) \/ LookupThrows(t)

Step(t) == Lock(t) \/ WriteStep(t) \/ ReadStep(t) \/ Unlock(t)

Next ==
  \/ Session
  \/ \E t \in Thread : Step(t) \/ Throw(t) \/ Return(t) \/ \E c \in Abstract!Calls : Call(t, c)

(* Each thread is scheduled again and again, and no loop may count on a    *)
(* failure to end it.  std::mutex promises nothing about which of the      *)
(* waiting threads is next, so there is no strong fairness for Lock.       *)
Fairness == \A t \in Thread : WF_vars(Step(t))

Spec == Init /\ [][Next]_vars /\ Fairness

----------------------------------------------------------------------------
(* Properties. *)

Inside == {t \in Thread : pc[t] \notin {"idle", "lock", "returned"}}

(* The tree has its types, and exactly the holder of the mutex is between  *)
(* its locking and its unlocking.                                          *)
TypeOK ==
  /\ Tree!TypeOK
  /\ pc \in [Thread -> {"idle", "lock", "Insert", "flush", "count", "merge", "reset", "unlink",
                        "Find", "search", "FindRange", "range", "unlock", "returned"}]
  /\ \A t \in Thread : at[t] \in Int \X Int /\ created[t] \in BOOLEAN
  /\ Inside = IF mtx_ = nullopt THEN {} ELSE {mtx_}

(* Seen from outside the mutex, the steps of a write are one step of       *)
(* LSMTree, and lookups are none.                                          *)
ImplementsLSMTree == Atomic!Spec

(* Linearizability: what threads call and what they are answered is what   *)
(* a map shows that serves each call in one instant.                       *)
Linearizable == Abstract!Spec

(* Every lookup that ends with an answer, and not with an exception, has   *)
(* the newest entries of the tree at the moment it releases the mutex: no  *)
(* filter, no order of levels and tables and no write of another thread    *)
(* makes it miss one or answer an older one.                               *)
AnswersAreCurrent ==
  \A t \in Thread : pc[t] = "unlock" =>
    /\ call[t].op = "Find" => answer[t] \in {exception, Tree!Contents[call[t].key]}
    /\ call[t].op = "FindRange" => answer[t] \in {exception, Tree!Contents}

(* Whoever holds the mutex releases it, whether the operation succeeds or  *)
(* throws: flush, cascade and every loop over levels and tables end.       *)
MutexReleased == \A t \in Thread : mtx_ = t ~> mtx_ # t

(* While threads wait for the mutex some call returns.  (That the same     *)
(* thread does not wait for ever is not promised by std::mutex.)           *)
SomeCallReturns ==
  (\E t \in Thread : pc[t] = "lock") ~> (\E t \in Thread : pc[t] = "returned")
============================================================================
