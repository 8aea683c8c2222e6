-------------------------- MODULE LSMThreads_proofs --------------------------
(***************************************************************************)
(* The steps between locking and unlocking mtx_ are one step of LSMTree,   *)
(* for every set of threads, keys and values and every parameter: why the  *)
(* other modules may take an operation for one step.  The invariant says   *)
(* of each place in the code what the holder of the mutex has done to the  *)
(* tree since it locked it, from the tree it found then.                   *)
(*                                                                         *)
(* The second half is about the same threads when their process dies at    *)
(* any step: it loses its session and nothing else, until a merge unlinks  *)
(* a table of the saved tree.  Whatever the holder of the mutex has done,  *)
(* the components of the tree that it found are still counted, until the   *)
(* merge resets the counts; and no table is ever written where a counted   *)
(* one lies.  So what the saved tree names is not touched before that.     *)
(***************************************************************************)
EXTENDS LSMTreeCrash, LeastNaturals, TLAPS

----------------------------------------------------------------------------
(* What a write c makes of the tree b: its memtable, the table it flushes  *)
(* and the levels and files after the flush.                               *)

MemtableOf(c, b) == [b.memtable EXCEPT ![c.key] = c.entry]
TableOf(c, b) == Tree!MakeSSTable(MemtableOf(c, b), Tree!CreatedJustNow(b.levels, 0))
FilesOf(c, b) == Tree!Stored(b.files, Tree!LastComponent(b.levels, 0), TableOf(c, b))
LevelsOf(b) == [Tree!Grown(b.levels, 0) EXCEPT ![1] = @ + 1]

Flushes(c, b) == c.op = "Insert" /\ Tree!Full(MemtableOf(c, b))

(* The flush has filled level 0, a merge must follow.                      *)
Fills(c, b) ==
  /\ Flushes(c, b)
  /\ TableOf(c, b) # Tree!ZeroBytes
  /\ LevelsOf(b)[1] = sstable_scaling_factor

IsMerge(c, b, level, sst) ==
  /\ level \in 1 .. Len(LevelsOf(b))
  /\ Tree!IsCompactionTarget(LevelsOf(b), level)
  /\ Tree!Inputs(LevelsOf(b), level) \subseteq DOMAIN FilesOf(c, b)
  /\ sst \in Tree!MergedTables(LevelsOf(b), FilesOf(c, b), level)

Output(b, level) == Tree!LastComponent(LevelsOf(b), level)
WithOutput(c, b, level, sst) == Tree!Stored(FilesOf(c, b), Output(b, level), sst)

(* The files after a merge, before it unlinks; its output may not have     *)
(* been created.                                                           *)
MergedFiles(c, b, level, sst) ==
  {WithOutput(c, b, level, sst)} \cup IF "compaction" \in Faults THEN {FilesOf(c, b)} ELSE {}

(* The tree s after the write, one case for each way out of the code.      *)
Buffered(c, b, s) ==
  /\ ~Tree!Full(MemtableOf(c, b))
  /\ s.memtable = MemtableOf(c, b) /\ s.levels = b.levels /\ s.files = b.files
FlushThrew(c, b, s) ==
  /\ Flushes(c, b)
  /\ "flush" \in Faults
  /\ s.memtable = MemtableOf(c, b) /\ s.levels = Tree!Grown(b.levels, 0) /\ s.files = b.files
FlushedNothing(c, b, s) ==
  /\ Flushes(c, b)
  /\ TableOf(c, b) = Tree!ZeroBytes
  /\ s.memtable = Tree!EmptyTable /\ s.levels = b.levels /\ s.files = FilesOf(c, b)
Flushed(c, b, s) ==
  /\ Flushes(c, b)
  /\ TableOf(c, b) # Tree!ZeroBytes
  /\ LevelsOf(b)[1] # sstable_scaling_factor
  /\ s.memtable = Tree!EmptyTable /\ s.levels = LevelsOf(b) /\ s.files = FilesOf(c, b)
Compacted(c, b, s) ==
  /\ Fills(c, b)
  /\ s.memtable = Tree!EmptyTable
  /\ \E level \in 1 .. Len(LevelsOf(b)) :
     \E sst \in Tree!MergedTables(LevelsOf(b), FilesOf(c, b), level) :
       /\ IsMerge(c, b, level, sst)
       /\ s.levels = Tree!CompactedLevels(LevelsOf(b), level, sst)
       /\ \E fs \in MergedFiles(c, b, level, sst) :
            s.files = Tree!Unlinked(fs, Tree!ConsumedPaths(level))
CompactionThrew(c, b, s) ==
  /\ Fills(c, b)
  /\ s.memtable = Tree!EmptyTable
  /\ \E level \in 1 .. Len(LevelsOf(b)) :
       /\ Tree!IsCompactionTarget(LevelsOf(b), level)
       /\ \/ "reader" \in Faults
          \/ ~ (Tree!Inputs(LevelsOf(b), level) \subseteq DOMAIN FilesOf(c, b))
       /\ s.levels = Tree!Grown(LevelsOf(b), level)
       /\ s.files \in MergedFiles(c, b, level, Tree!ZeroBytes)

Outcome(c, b, s) ==
  /\ c.op = "Insert"
  /\ \/ Buffered(c, b, s) \/ FlushThrew(c, b, s) \/ FlushedNothing(c, b, s)
     \/ Flushed(c, b, s) \/ Compacted(c, b, s) \/ CompactionThrew(c, b, s)

----------------------------------------------------------------------------
(* The tree s at each place of an operation c that found the tree b.  The  *)
(* thread has come to the table p, on a level just created or not.         *)

AtFlush(c, b, s) ==
  /\ Flushes(c, b)
  /\ s.memtable = MemtableOf(c, b) /\ s.levels = b.levels /\ s.files = b.files
AtCount(c, b, s, new) ==
  /\ Flushes(c, b)
  /\ new = Tree!CreatedJustNow(b.levels, 0)
  /\ s.memtable = MemtableOf(c, b) /\ s.levels = Tree!Grown(b.levels, 0)
  /\ s.files = FilesOf(c, b)
AtMerge(c, b, s) ==
  /\ Fills(c, b)
  /\ s.memtable = Tree!EmptyTable /\ s.levels = LevelsOf(b) /\ s.files = FilesOf(c, b)
AtReset(c, b, s, p, new) ==
  /\ Fills(c, b)
  /\ s.memtable = Tree!EmptyTable
  /\ \E level, sst :
       /\ IsMerge(c, b, level, sst)
       /\ p = Output(b, level)
       /\ new = Tree!CreatedJustNow(LevelsOf(b), level)
       /\ s.levels = Tree!Grown(LevelsOf(b), level)
       /\ s.files = WithOutput(c, b, level, sst)
AtUnlink(c, b, s, p) ==
  /\ Fills(c, b)
  /\ s.memtable = Tree!EmptyTable
  /\ \E level, sst, gone :
       /\ IsMerge(c, b, level, sst)
       /\ p = Output(b, level)
       /\ gone \subseteq Tree!ConsumedPaths(level)
       /\ s.levels = Tree!CompactedLevels(LevelsOf(b), level, sst)
       /\ \E fs \in MergedFiles(c, b, level, sst) : s.files = Tree!Unlinked(fs, gone)

Progress(place, c, b, s, p, new) ==
  /\ place = "Insert" => c.op = "Insert" /\ s = b
  /\ place \in {"Find", "FindRange", "search", "range"} => c.op # "Insert" /\ s = b
  /\ place = "flush" => AtFlush(c, b, s)
  /\ place = "count" => AtCount(c, b, s, new)
  /\ place = "merge" => AtMerge(c, b, s)
  /\ place = "reset" => AtReset(c, b, s, p, new)
  /\ place = "unlink" => AtUnlink(c, b, s, p)
  /\ place = "unlock" => IF c.op = "Insert" THEN Outcome(c, b, s) ELSE s = b

----------------------------------------------------------------------------
(* The inductive invariant. *)

Outside == {"idle", "lock", "returned"}
Within == {"Insert", "flush", "count", "merge", "reset", "unlink",
           "Find", "search", "FindRange", "range", "unlock"}

ThreadsTyped ==
  /\ mtx_ \in Thread \cup {nullopt}
  /\ pc \in [Thread -> Outside \cup Within]
  /\ DOMAIN call = Thread /\ DOMAIN at = Thread /\ DOMAIN created = Thread
  /\ \A t \in Thread : pc[t] # "idle" => call[t] \in Abstract!Calls /\ open

(* The holder of the mutex is inside, and nobody else.                     *)
Mutex == \A t \in Thread : pc[t] \in Within <=> mtx_ = t

(* Counts are naturals in the tree that is seen and in the saved one.      *)
CountsTyped ==
  /\ Seen.levels \in Seq(Nat)
  /\ tree_data # nullopt => tree_data.levels \in Seq(Nat)

HolderInv == \A t \in Thread :
  mtx_ = t => Progress(pc[t], call[t], before, Snapshot, at[t], created[t])

ThreadInv == ThreadsTyped /\ Mutex /\ CountsTyped /\ HolderInv

LEMMA ThreadInit == Init => ThreadInv
<1> SUFFICES ASSUME Init PROVE ThreadInv
  OBVIOUS
<1>1. ThreadsTyped /\ Mutex
  BY ThreadAssumption DEF Init, ThreadsTyped, Mutex, Outside, Within
<1>2. CountsTyped
  BY DEF Init, CountsTyped, Seen, Snapshot, Tree!Init
<1>3. HolderInv
  BY ThreadAssumption DEF Init, HolderInv
<1> QED
  BY <1>1, <1>2, <1>3 DEF ThreadInv

----------------------------------------------------------------------------
(* The counts after each way a write may go are naturals. *)

LEMMA GrownSeq ==
  ASSUME NEW lv \in Seq(Nat), NEW level \in 0 .. Len(lv)
  PROVE  /\ Tree!Grown(lv, level) \in Seq(Nat)
         /\ Len(Tree!Grown(lv, level)) = Len(lv) + IF level = Len(lv) THEN 1 ELSE 0
         /\ \A n \in 1 .. Len(lv) : Tree!Grown(lv, level)[n] = lv[n]
         /\ level = Len(lv) => Tree!Grown(lv, level)[level + 1] = 0
BY DEF Tree!Grown

LEMMA FirstIncremented ==
  ASSUME NEW lv \in Seq(Nat), Len(lv) >= 1
  PROVE  /\ [lv EXCEPT ![1] = @ + 1] \in Seq(Nat)
         /\ Len([lv EXCEPT ![1] = @ + 1]) = Len(lv)
OBVIOUS

LEMMA LevelsOfSeq ==
  ASSUME NEW b, b.levels \in Seq(Nat)
  PROVE  /\ Tree!Grown(b.levels, 0) \in Seq(Nat)
         /\ LevelsOf(b) \in Seq(Nat) /\ Len(LevelsOf(b)) >= 1
<1>1. \A lv \in Seq(Nat) : Tree!Grown(lv, 0) \in Seq(Nat) /\ Len(Tree!Grown(lv, 0)) >= 1
  <2> TAKE lv \in Seq(Nat)
  <2>1. 0 \in 0 .. Len(lv)
    OBVIOUS
  <2> QED
    BY <2>1, GrownSeq
<1> QED
  BY <1>1, FirstIncremented DEF LevelsOf

LEMMA CompactedSeq ==
  ASSUME NEW lv \in Seq(Nat), NEW level \in 1 .. Len(lv), NEW sst
  PROVE  Tree!CompactedLevels(lv, level, sst) \in Seq(Nat)
<1>1. /\ Tree!Grown(lv, level) \in Seq(Nat)
      /\ Len(Tree!Grown(lv, level)) = Len(lv) + IF level = Len(lv) THEN 1 ELSE 0
  BY GrownSeq
<1> DEFINE N == IF sst = Tree!ZeroBytes /\ Tree!CreatedJustNow(lv, level) THEN level
                ELSE Len(Tree!Grown(lv, level))
           M == Tree!CompactedLevels(lv, level, sst)
<1>2. N \in Nat
  BY <1>1
<1>3. M = [n \in 1 .. N |-> IF n <= level THEN 0
            ELSE IF n = level + 1
                 THEN Tree!Grown(lv, level)[n] + IF sst # Tree!ZeroBytes THEN 1 ELSE 0
                 ELSE lv[n]]
  BY DEF Tree!CompactedLevels
<1>4. \A n \in 1 .. N : M[n] \in Nat
  <2> TAKE n \in 1 .. N
  <2>1. CASE n <= level
    BY <1>3, <2>1
  <2>2. CASE n = level + 1
    <3>1. Tree!Grown(lv, level)[n] \in Nat
      BY <1>1, <2>2
    <3> QED
      BY <1>3, <2>2, <3>1
  <2>3. CASE n > level + 1
    <3>1. n \in 1 .. Len(lv)
      BY <1>1, <2>3 DEF Tree!CreatedJustNow
    <3> QED
      BY <1>3, <2>3, <3>1
  <2> QED
    BY <2>1, <2>2, <2>3
<1> HIDE DEF N, M
<1>5. M \in [1 .. N -> Nat]
  BY <1>3, <1>4
<1> QED
  BY <1>2, <1>5 DEF M

LEMMA OutcomeSeq ==
  ASSUME NEW c, NEW b, NEW s, b.levels \in Seq(Nat), Outcome(c, b, s)
  PROVE  s.levels \in Seq(Nat)
<1>1. Tree!Grown(b.levels, 0) \in Seq(Nat) /\ LevelsOf(b) \in Seq(Nat)
  BY LevelsOfSeq
<1>2. CASE Buffered(c, b, s) \/ FlushThrew(c, b, s) \/ FlushedNothing(c, b, s) \/ Flushed(c, b, s)
  BY <1>1, <1>2 DEF Buffered, FlushThrew, FlushedNothing, Flushed
<1>3. CASE Compacted(c, b, s)
  BY <1>1, <1>3, CompactedSeq DEF Compacted
<1>4. CASE CompactionThrew(c, b, s)
  <2>1. PICK level \in 1 .. Len(LevelsOf(b)) : s.levels = Tree!Grown(LevelsOf(b), level)
    BY <1>4 DEF CompactionThrew
  <2>2. level \in 0 .. Len(LevelsOf(b))
    BY <1>1
  <2> QED
    BY <1>1, <2>1, <2>2, GrownSeq
<1> QED
  BY <1>2, <1>3, <1>4 DEF Outcome

----------------------------------------------------------------------------
(* The steps inside. *)

(* A thread inside holds the mutex, has a call, and has come as far as its *)
(* place says.                                                             *)
LEMMA Inner ==
  ASSUME ThreadInv, NEW t \in Thread, pc[t] \in Within
  PROVE  /\ mtx_ = t /\ mtx_ # nullopt
         /\ call[t] \in Abstract!Calls /\ open
         /\ Seen = before /\ before.levels \in Seq(Nat)
         /\ Progress(pc[t], call[t], before, Snapshot, at[t], created[t])
BY ThreadAssumption
DEF ThreadInv, ThreadsTyped, Mutex, CountsTyped, HolderInv, Seen, Within

(* A step inside that ends inside keeps the invariant if the tree is as    *)
(* the place it has come to says; seen from outside nothing happens.       *)
InnerStep(t, place) ==
  /\ place \in Within
  /\ Goto(t, place)
  /\ DOMAIN at' = Thread /\ DOMAIN created' = Thread
  /\ UNCHANGED <<tree_data, open, mtx_, call, before>>
  /\ Progress(place, call[t], before, Snapshot', at'[t], created'[t])

LEMMA InnerStepKeeps ==
  ASSUME ThreadInv, NEW t \in Thread, pc[t] \in Within,
         NEW place, InnerStep(t, place)
  PROVE  ThreadInv' /\ UNCHANGED Atomic!vars
<1>1. mtx_ = t /\ mtx_ # nullopt /\ call[t] \in Abstract!Calls /\ open /\ Seen = before
  BY Inner
<1>2. UNCHANGED <<tree_data, open, mtx_, call, before>> /\ Goto(t, place) /\ place \in Within
      /\ pc' = [pc EXCEPT ![t] = place]
  BY DEF InnerStep, Goto
<1>3. pc' \in [Thread -> Outside \cup Within] /\ pc'[t] = place
      /\ \A u \in Thread : u # t => pc'[u] = pc[u]
  BY <1>2 DEF ThreadInv, ThreadsTyped
<1>4. ThreadsTyped'
  <2>1. Abstract!Calls' = Abstract!Calls
    BY DEF Abstract!Calls
  <2>2. DOMAIN at' = Thread /\ DOMAIN created' = Thread
    BY DEF InnerStep
  <2>3. \A u \in Thread : pc'[u] # "idle" => call'[u] \in Abstract!Calls /\ open'
    BY <1>1, <1>2, <1>3 DEF ThreadInv, ThreadsTyped
  <2> QED
    BY <1>2, <1>3, <2>1, <2>2, <2>3 DEF ThreadInv, ThreadsTyped
<1>5. Mutex'
  BY <1>1, <1>2, <1>3 DEF ThreadInv, Mutex
<1>6. Seen' = Seen
  BY <1>1, <1>2 DEF Seen
<1>7. CountsTyped'
  BY <1>2, <1>6 DEF ThreadInv, CountsTyped
<1>8. HolderInv'
  <2>1. Progress(pc'[t], call'[t], before', Snapshot', at'[t], created'[t])
    BY <1>2, <1>3 DEF InnerStep
  <2> QED
    BY <1>1, <1>2, <2>1 DEF HolderInv
<1> QED
  BY <1>2, <1>4, <1>5, <1>6, <1>7, <1>8 DEF ThreadInv, Atomic!vars

LEMMA WriteMemtableKeeps ==
  ASSUME ThreadInv, NEW t \in Thread, WriteMemtable(t)
  PROVE  ThreadInv' /\ UNCHANGED Atomic!vars
<1> DEFINE place == IF Tree!Full(memtable') THEN "flush" ELSE "unlock"
           c == call[t]
<1>1. pc[t] = "Insert" /\ pc[t] \in Within /\ place \in Within
  BY DEF WriteMemtable, Within
<1>2. c.op = "Insert" /\ Snapshot = before
  BY <1>1, Inner DEF Progress
<1>3. /\ memtable' = MemtableOf(c, before) /\ levels' = before.levels /\ files' = before.files
  BY <1>2 DEF WriteMemtable, Snapshot, MemtableOf, Tree!Written
<1>4. Snapshot'.memtable = memtable' /\ Snapshot'.levels = levels' /\ Snapshot'.files = files'
  BY DEF Snapshot
<1>5. Progress(place, c, before, Snapshot', at'[t], created'[t])
  <2>1. CASE Tree!Full(memtable')
    <3>1. AtFlush(c, before, Snapshot')
      BY <1>2, <1>3, <1>4, <2>1 DEF AtFlush, Flushes
    <3> QED
      BY <2>1, <3>1 DEF Progress
  <2>2. CASE ~Tree!Full(memtable')
    <3>1. Outcome(c, before, Snapshot')
      BY <1>2, <1>3, <1>4, <2>2 DEF Outcome, Buffered
    <3> QED
      BY <1>2, <2>2, <3>1 DEF Progress
  <2> QED
    BY <2>1, <2>2
<1>6. InnerStep(t, place)
  BY <1>1, <1>5 DEF WriteMemtable, InnerStep, ThreadInv, ThreadsTyped
<1> QED
  BY <1>1, <1>6, InnerStepKeeps

LEMMA FlushKeeps ==
  ASSUME ThreadInv, NEW t \in Thread, Flush(t)
  PROVE  ThreadInv' /\ UNCHANGED Atomic!vars
<1> DEFINE c == call[t]
<1>1. pc[t] = "flush" /\ pc[t] \in Within /\ "count" \in Within
  BY DEF Flush, Within
<1>2. AtFlush(c, before, Snapshot)
  BY <1>1, Inner DEF Progress
<1>3. memtable = MemtableOf(c, before) /\ levels = before.levels /\ files = before.files
  BY <1>2 DEF AtFlush, Snapshot
<1>4. /\ memtable' = MemtableOf(c, before)
      /\ levels' = Tree!Grown(before.levels, 0)
      /\ files' = FilesOf(c, before)
      /\ created'[t] = Tree!CreatedJustNow(before.levels, 0)
  BY <1>3 DEF Flush, FilesOf, TableOf, Tree!FlushedFiles, Tree!FlushedTable, ThreadInv, ThreadsTyped
<1>5. Snapshot'.memtable = memtable' /\ Snapshot'.levels = levels' /\ Snapshot'.files = files'
  BY DEF Snapshot
<1>6. AtCount(c, before, Snapshot', created'[t])
  BY <1>2, <1>4, <1>5 DEF AtFlush, AtCount
<1>7. Progress("count", c, before, Snapshot', at'[t], created'[t])
  BY <1>6 DEF Progress
<1>8. InnerStep(t, "count")
  BY <1>1, <1>7 DEF Flush, InnerStep, ThreadInv, ThreadsTyped
<1> QED
  BY <1>1, <1>8, InnerStepKeeps

LEMMA FlushThrowsKeeps ==
  ASSUME ThreadInv, NEW t \in Thread, FlushThrows(t)
  PROVE  ThreadInv' /\ UNCHANGED Atomic!vars
<1> DEFINE c == call[t]
<1>1. pc[t] = "flush" /\ pc[t] \in Within /\ "unlock" \in Within
  BY DEF FlushThrows, Within
<1>2. AtFlush(c, before, Snapshot)
  BY <1>1, Inner DEF Progress
<1>3. memtable = MemtableOf(c, before) /\ levels = before.levels /\ files = before.files
  BY <1>2 DEF AtFlush, Snapshot
<1>4. memtable' = memtable /\ levels' = Tree!Grown(before.levels, 0) /\ files' = files
  BY <1>3 DEF FlushThrows
<1>5. Snapshot'.memtable = memtable' /\ Snapshot'.levels = levels' /\ Snapshot'.files = files'
  BY DEF Snapshot
<1>6. FlushThrew(c, before, Snapshot')
  BY <1>2, <1>3, <1>4, <1>5 DEF AtFlush, FlushThrew, FlushThrows
<1>7. Progress("unlock", c, before, Snapshot', at'[t], created'[t])
  BY <1>2, <1>6 DEF Progress, Outcome, AtFlush, Flushes
<1>8. InnerStep(t, "unlock")
  BY <1>1, <1>7 DEF FlushThrows, InnerStep, ThreadInv, ThreadsTyped
<1> QED
  BY <1>1, <1>8, InnerStepKeeps

(* If nothing is flushed, level 0 is gone again unless it was there.       *)
LEMMA CountNothingRestores ==
  ASSUME ThreadInv, NEW t \in Thread, CountNothing(t)
  PROVE  levels' = before.levels
<1>1. pc[t] = "count" /\ pc[t] \in Within
  BY DEF CountNothing, Within
<1>2. AtCount(call[t], before, Snapshot, created[t]) /\ before.levels \in Seq(Nat)
  BY <1>1, Inner DEF Progress
<1>3. levels = Tree!Grown(before.levels, 0) /\ created[t] = Tree!CreatedJustNow(before.levels, 0)
  BY <1>2 DEF AtCount, Snapshot
<1>4. \A lv \in Seq(Nat) :
        IF 0 = Len(lv)
        THEN SubSeq(Tree!Grown(lv, 0), 1, Len(Tree!Grown(lv, 0)) - 1) = lv
        ELSE Tree!Grown(lv, 0) = lv
  <2> TAKE lv \in Seq(Nat)
  <2>1. CASE 0 = Len(lv)
    <3>1. lv = <<>> /\ Tree!Grown(lv, 0) = <<0>>
      BY <2>1 DEF Tree!Grown
    <3>2. Len(<<0>>) - 1 = 0 /\ SubSeq(<<0>>, 1, 0) = <<>>
      OBVIOUS
    <3> QED
      BY <2>1, <3>1, <3>2
  <2>2. CASE 0 # Len(lv)
    BY <2>2 DEF Tree!Grown
  <2> QED
    BY <2>1, <2>2
<1> QED
  BY <1>2, <1>3, <1>4 DEF CountNothing, Tree!CreatedJustNow

LEMMA CountNothingKeeps ==
  ASSUME ThreadInv, NEW t \in Thread, CountNothing(t)
  PROVE  ThreadInv' /\ UNCHANGED Atomic!vars
<1> DEFINE c == call[t]
<1>1. pc[t] = "count" /\ pc[t] \in Within /\ "unlock" \in Within
  BY DEF CountNothing, Within
<1>2. AtCount(c, before, Snapshot, created[t]) /\ before.levels \in Seq(Nat)
  BY <1>1, Inner DEF Progress
<1>3. /\ memtable = MemtableOf(c, before) /\ levels = Tree!Grown(before.levels, 0)
      /\ files = FilesOf(c, before) /\ created[t] = Tree!CreatedJustNow(before.levels, 0)
  BY <1>2 DEF AtCount, Snapshot
<1>4. TableOf(c, before) = Tree!ZeroBytes
  BY <1>3 DEF CountNothing, WritesNothing, TableOf
<1>5. levels' = before.levels
  BY CountNothingRestores
<1>6. memtable' = Tree!EmptyTable /\ files' = FilesOf(c, before)
  BY <1>3 DEF CountNothing
<1>7. Snapshot'.memtable = memtable' /\ Snapshot'.levels = levels' /\ Snapshot'.files = files'
  BY DEF Snapshot
<1>8. FlushedNothing(c, before, Snapshot')
  BY <1>2, <1>4, <1>5, <1>6, <1>7 DEF AtCount, FlushedNothing
<1>9. Progress("unlock", c, before, Snapshot', at'[t], created'[t])
  BY <1>2, <1>8 DEF Progress, Outcome, AtCount, Flushes
<1>10. InnerStep(t, "unlock")
  BY <1>1, <1>9 DEF CountNothing, InnerStep, ThreadInv, ThreadsTyped
<1> QED
  BY <1>1, <1>10, InnerStepKeeps

LEMMA CountKeeps ==
  ASSUME ThreadInv, NEW t \in Thread, Count(t)
  PROVE  ThreadInv' /\ UNCHANGED Atomic!vars
<1> DEFINE c == call[t]
           place == IF levels'[1] = sstable_scaling_factor THEN "merge" ELSE "unlock"
<1>1. pc[t] = "count" /\ pc[t] \in Within /\ place \in Within
  BY DEF Count, Within
<1>2. AtCount(c, before, Snapshot, created[t])
  BY <1>1, Inner DEF Progress
<1>3. /\ memtable = MemtableOf(c, before) /\ levels = Tree!Grown(before.levels, 0)
      /\ files = FilesOf(c, before) /\ created[t] = Tree!CreatedJustNow(before.levels, 0)
  BY <1>2 DEF AtCount, Snapshot
<1>4. TableOf(c, before) # Tree!ZeroBytes
  BY <1>3 DEF Count, WritesNothing, TableOf
<1>5. /\ memtable' = Tree!EmptyTable /\ levels' = LevelsOf(before) /\ files' = FilesOf(c, before)
  BY <1>3 DEF Count, LevelsOf
<1>6. Snapshot'.memtable = memtable' /\ Snapshot'.levels = levels' /\ Snapshot'.files = files'
  BY DEF Snapshot
<1>7. Flushes(c, before)
  BY <1>2 DEF AtCount
<1>8. Progress(place, c, before, Snapshot', at'[t], created'[t])
  <2>1. CASE levels'[1] = sstable_scaling_factor
    <3>1. AtMerge(c, before, Snapshot')
      BY <1>4, <1>5, <1>6, <1>7, <2>1 DEF AtMerge, Fills
    <3> QED
      BY <2>1, <3>1 DEF Progress
  <2>2. CASE levels'[1] # sstable_scaling_factor
    <3>1. Flushed(c, before, Snapshot')
      BY <1>4, <1>5, <1>6, <1>7, <2>2 DEF Flushed
    <3> QED
      BY <1>7, <2>2, <3>1 DEF Progress, Outcome, Flushes
  <2> QED
    BY <2>1, <2>2
<1>9. InnerStep(t, place)
  BY <1>1, <1>8 DEF Count, InnerStep, ThreadInv, ThreadsTyped
<1> QED
  BY <1>1, <1>9, InnerStepKeeps

LEMMA MergeKeeps ==
  ASSUME ThreadInv, NEW t \in Thread, Merge(t)
  PROVE  ThreadInv' /\ UNCHANGED Atomic!vars
<1> DEFINE c == call[t]
<1>1. pc[t] = "merge" /\ pc[t] \in Within /\ "reset" \in Within
  BY DEF Merge, Within
<1>2. AtMerge(c, before, Snapshot)
  BY <1>1, Inner DEF Progress
<1>3. memtable = Tree!EmptyTable /\ levels = LevelsOf(before) /\ files = FilesOf(c, before)
  BY <1>2 DEF AtMerge, Snapshot
<1>4. PICK level \in 1 .. Len(levels) :
        /\ MergeInto(t, level)
        /\ Tree!Inputs(levels, level) \subseteq DOMAIN files
        /\ \E sst \in Tree!MergedTables(levels, files, level) :
             files' = Tree!Stored(files, Tree!LastComponent(levels, level), sst)
  BY DEF Merge
<1>5. PICK sst \in Tree!MergedTables(levels, files, level) :
        files' = Tree!Stored(files, Tree!LastComponent(levels, level), sst)
  BY <1>4
<1>6. IsMerge(c, before, level, sst)
  BY <1>3, <1>4, <1>5 DEF IsMerge, MergeInto
<1>7. /\ memtable' = Tree!EmptyTable
      /\ levels' = Tree!Grown(LevelsOf(before), level)
      /\ files' = WithOutput(c, before, level, sst)
      /\ at'[t] = Output(before, level)
      /\ created'[t] = Tree!CreatedJustNow(LevelsOf(before), level)
  BY <1>3, <1>4, <1>5 DEF Merge, MergeInto, WithOutput, Output, ThreadInv, ThreadsTyped
<1>8. Snapshot'.memtable = memtable' /\ Snapshot'.levels = levels' /\ Snapshot'.files = files'
  BY DEF Snapshot
<1>9. AtReset(c, before, Snapshot', at'[t], created'[t])
  BY <1>2, <1>6, <1>7, <1>8 DEF AtMerge, AtReset
<1>10. Progress("reset", c, before, Snapshot', at'[t], created'[t])
  BY <1>9 DEF Progress
<1>11. InnerStep(t, "reset")
  BY <1>1, <1>4, <1>10 DEF Merge, MergeInto, InnerStep, ThreadInv, ThreadsTyped
<1> QED
  BY <1>1, <1>11, InnerStepKeeps

LEMMA MergeUnwrittenKeeps ==
  ASSUME ThreadInv, NEW t \in Thread, MergeUnwritten(t)
  PROVE  ThreadInv' /\ UNCHANGED Atomic!vars
<1> DEFINE c == call[t]
<1>1. pc[t] = "merge" /\ pc[t] \in Within /\ "unlink" \in Within /\ "compaction" \in Faults
  BY DEF MergeUnwritten, Within
<1>2. AtMerge(c, before, Snapshot)
  BY <1>1, Inner DEF Progress
<1>3. memtable = Tree!EmptyTable /\ levels = LevelsOf(before) /\ files = FilesOf(c, before)
  BY <1>2 DEF AtMerge, Snapshot
<1>4. PICK level \in 1 .. Len(levels) :
        /\ Tree!IsCompactionTarget(levels, level)
        /\ Tree!Inputs(levels, level) \subseteq DOMAIN files
        /\ \E sst \in Tree!MergedTables(levels, files, level) :
             levels' = Tree!CompactedLevels(levels, level, sst)
        /\ at' = [at EXCEPT ![t] = Tree!LastComponent(levels, level)]
  BY DEF MergeUnwritten
<1>5. PICK sst \in Tree!MergedTables(levels, files, level) :
        levels' = Tree!CompactedLevels(levels, level, sst)
  BY <1>4
<1>6. IsMerge(c, before, level, sst)
  BY <1>3, <1>4, <1>5 DEF IsMerge
<1>7. /\ memtable' = Tree!EmptyTable
      /\ levels' = Tree!CompactedLevels(LevelsOf(before), level, sst)
      /\ at'[t] = Output(before, level)
  BY <1>3, <1>4, <1>5 DEF MergeUnwritten, Output, ThreadInv, ThreadsTyped
<1>8. files' = Tree!Unlinked(FilesOf(c, before), {})
  BY <1>3 DEF MergeUnwritten, Tree!Unlinked, FilesOf, Tree!Stored
<1>9. FilesOf(c, before) \in MergedFiles(c, before, level, sst)
  BY <1>1 DEF MergedFiles
<1>10. Snapshot'.memtable = memtable' /\ Snapshot'.levels = levels' /\ Snapshot'.files = files'
  BY DEF Snapshot
<1>11. AtUnlink(c, before, Snapshot', at'[t])
  <2>1. {} \subseteq Tree!ConsumedPaths(level)
    OBVIOUS
  <2> QED
    BY <1>2, <1>6, <1>7, <1>8, <1>9, <1>10, <2>1 DEF AtMerge, AtUnlink
<1>12. Progress("unlink", c, before, Snapshot', at'[t], created'[t])
  BY <1>11 DEF Progress
<1>13. InnerStep(t, "unlink")
  BY <1>1, <1>4, <1>12 DEF MergeUnwritten, InnerStep, ThreadInv, ThreadsTyped
<1> QED
  BY <1>1, <1>13, InnerStepKeeps

LEMMA MergeThrowsKeeps ==
  ASSUME ThreadInv, NEW t \in Thread, MergeThrows(t)
  PROVE  ThreadInv' /\ UNCHANGED Atomic!vars
<1> DEFINE c == call[t]
<1>1. pc[t] = "merge" /\ pc[t] \in Within /\ "unlock" \in Within
  BY DEF MergeThrows, Within
<1>2. AtMerge(c, before, Snapshot)
  BY <1>1, Inner DEF Progress
<1>3. memtable = Tree!EmptyTable /\ levels = LevelsOf(before) /\ files = FilesOf(c, before)
  BY <1>2 DEF AtMerge, Snapshot
<1>4. PICK level \in 1 .. Len(levels) :
        /\ MergeInto(t, level)
        /\ "reader" \in Faults \/ ~ (Tree!Inputs(levels, level) \subseteq DOMAIN files)
        /\ files' \in Tree!AfterThrow(files, Tree!LastComponent(levels, level))
  BY DEF MergeThrows
<1>5. /\ memtable' = Tree!EmptyTable
      /\ Tree!IsCompactionTarget(LevelsOf(before), level)
      /\ levels' = Tree!Grown(LevelsOf(before), level)
      /\ files' \in MergedFiles(c, before, level, Tree!ZeroBytes)
  BY <1>3, <1>4
  DEF MergeThrows, MergeInto, MergedFiles, WithOutput, Output, Tree!AfterThrow
<1>6. Snapshot'.memtable = memtable' /\ Snapshot'.levels = levels' /\ Snapshot'.files = files'
  BY DEF Snapshot
<1>7. CompactionThrew(c, before, Snapshot')
  BY <1>2, <1>3, <1>4, <1>5, <1>6 DEF AtMerge, CompactionThrew
<1>8. Progress("unlock", c, before, Snapshot', at'[t], created'[t])
  BY <1>2, <1>7 DEF Progress, Outcome, AtMerge, Fills, Flushes
<1>9. InnerStep(t, "unlock")
  BY <1>1, <1>4, <1>8 DEF MergeThrows, MergeInto, InnerStep, ThreadInv, ThreadsTyped
<1> QED
  BY <1>1, <1>9, InnerStepKeeps

(* The counts that are reset in place are those of CompactedLevels.        *)
LEMMA ResetIsCompacted ==
  ASSUME NEW t \in Thread, NEW lv \in Seq(Nat), NEW level \in 1 .. Len(lv), NEW sst,
         levels = Tree!Grown(lv, level), at[t][1] = level, files[at[t]] = sst,
         created[t] = Tree!CreatedJustNow(lv, level)
  PROVE  ResetLevels(t) = Tree!CompactedLevels(lv, level, sst)
<1>1. level \in 0 .. Len(lv) /\ level \in Nat /\ Len(lv) \in Nat
  OBVIOUS
<1>2. /\ levels \in Seq(Nat)
      /\ Len(levels) = Len(lv) + IF level = Len(lv) THEN 1 ELSE 0
      /\ \A n \in 1 .. Len(lv) : levels[n] = lv[n]
  BY <1>1, GrownSeq
<1> DEFINE N == IF sst = Tree!ZeroBytes /\ Tree!CreatedJustNow(lv, level) THEN level ELSE Len(levels)
<1>3. N \in Nat /\ N <= Len(levels)
  BY <1>1, <1>2
<1>4. ResetLevels(t) =
        [n \in 1 .. N |-> IF n <= level THEN 0
           ELSE levels[n] + IF n = level + 1 /\ sst # Tree!ZeroBytes THEN 1 ELSE 0]
  BY DEF ResetLevels
<1>5. Tree!CompactedLevels(lv, level, sst) =
        [n \in 1 .. N |-> IF n <= level THEN 0
           ELSE IF n = level + 1 THEN levels[n] + IF sst # Tree!ZeroBytes THEN 1 ELSE 0
           ELSE lv[n]]
  BY DEF Tree!CompactedLevels
<1>6. ASSUME NEW n \in 1 .. N, n > level + 1
      PROVE  levels[n] = lv[n] /\ levels[n] \in Nat
  BY <1>1, <1>2, <1>3, <1>6
<1> HIDE DEF N
<1>7. \A n \in 1 .. N : levels[n] \in Nat
  BY <1>2, <1>3
<1>8. \A n \in 1 .. N :
        (IF n <= level THEN 0
           ELSE levels[n] + IF n = level + 1 /\ sst # Tree!ZeroBytes THEN 1 ELSE 0)
        = (IF n <= level THEN 0
           ELSE IF n = level + 1 THEN levels[n] + IF sst # Tree!ZeroBytes THEN 1 ELSE 0
           ELSE lv[n])
  BY <1>1, <1>6, <1>7
<1> QED
  BY <1>4, <1>5, <1>8

LEMMA ResetKeeps ==
  ASSUME ThreadInv, NEW t \in Thread, Reset(t)
  PROVE  ThreadInv' /\ UNCHANGED Atomic!vars
<1> DEFINE c == call[t]
<1>1. pc[t] = "reset" /\ pc[t] \in Within /\ "unlink" \in Within
  BY DEF Reset, Within
<1>2. AtReset(c, before, Snapshot, at[t], created[t]) /\ before.levels \in Seq(Nat)
  BY <1>1, Inner DEF Progress
<1>3. PICK level, sst :
        /\ IsMerge(c, before, level, sst)
        /\ at[t] = Output(before, level)
        /\ created[t] = Tree!CreatedJustNow(LevelsOf(before), level)
        /\ Snapshot.levels = Tree!Grown(LevelsOf(before), level)
        /\ Snapshot.files = WithOutput(c, before, level, sst)
  BY <1>2 DEF AtReset
<1>4. /\ memtable = Tree!EmptyTable /\ levels = Tree!Grown(LevelsOf(before), level)
      /\ files = WithOutput(c, before, level, sst)
  BY <1>2, <1>3 DEF AtReset, Snapshot
<1>5. LevelsOf(before) \in Seq(Nat) /\ level \in 1 .. Len(LevelsOf(before))
  BY <1>2, <1>3, LevelsOfSeq DEF IsMerge
<1>6. files[at[t]] = sst /\ at[t][1] = level
  BY <1>3, <1>4 DEF WithOutput, Output, Tree!Stored, Tree!LastComponent
<1>7. ResetLevels(t) = Tree!CompactedLevels(LevelsOf(before), level, sst)
  BY <1>3, <1>4, <1>5, <1>6, ResetIsCompacted
<1>8. /\ memtable' = Tree!EmptyTable
      /\ levels' = Tree!CompactedLevels(LevelsOf(before), level, sst)
      /\ files' = Tree!Unlinked(WithOutput(c, before, level, sst), {})
      /\ at'[t] = Output(before, level)
  <2>1. \A path : Tree!Unlinked(Tree!Stored(FilesOf(c, before), path, sst), {})
                   = Tree!Stored(FilesOf(c, before), path, sst)
    BY DEF Tree!Unlinked, Tree!Stored
  <2> QED
    BY <1>3, <1>4, <1>7, <2>1 DEF Reset, WithOutput
<1>9. Snapshot'.memtable = memtable' /\ Snapshot'.levels = levels' /\ Snapshot'.files = files'
  BY DEF Snapshot
<1>10. AtUnlink(c, before, Snapshot', at'[t])
  <2>1. {} \subseteq Tree!ConsumedPaths(level)
    OBVIOUS
  <2>2. WithOutput(c, before, level, sst) \in MergedFiles(c, before, level, sst)
    BY DEF MergedFiles
  <2> QED
    BY <1>2, <1>3, <1>8, <1>9, <2>1, <2>2 DEF AtReset, AtUnlink
<1>11. Progress("unlink", c, before, Snapshot', at'[t], created'[t])
  BY <1>10 DEF Progress
<1>12. InnerStep(t, "unlink")
  BY <1>1, <1>11 DEF Reset, InnerStep, ThreadInv, ThreadsTyped
<1> QED
  BY <1>1, <1>12, InnerStepKeeps

(* The tables to unlink that are left have a next one, the least by level  *)
(* and number with the last table of level 0 behind all others.            *)
LEMMA NextIsLeft ==
  ASSUME NEW t \in Thread, NEW level \in Nat, at[t][1] = level, Leftover(t) # {}
  PROVE  UnlinkedNext(t) \in Leftover(t)
<1> DEFINE last == <<0, sstable_scaling_factor - 1>>
           Others == Leftover(t) \ {last}
           Follows(p, q) ==
             \/ q = last
             \/ p # last /\ (p[1] < q[1] \/ (p[1] = q[1] /\ p[2] < q[2]))
<1>1. Others \subseteq Nat \X Nat
  BY TreeAssumption DEF Tree!ParameterAssumption, Leftover, Tree!ConsumedPaths
<1>2. \E p \in Leftover(t) : \A q \in Leftover(t) \ {p} : Follows(p, q)
  <2>1. CASE Others = {}
    BY <2>1
  <2>2. CASE Others # {}
    <3> DEFINE I == {p[1] : p \in Others}
    <3>1. I \subseteq Nat /\ I # {}
      BY <1>1, <2>2
    <3>2. PICK i \in I : \A n \in I : i <= n
      BY <3>1, LeastNat
    <3> DEFINE J == {p[2] : p \in {q \in Others : q[1] = i}}
    <3>3. J \subseteq Nat /\ J # {}
      BY <1>1, <3>2
    <3>4. PICK j \in J : \A n \in J : j <= n
      <4> HIDE DEF J
      <4> QED
        BY <3>3, LeastNat
    <3>5. PICK p \in Others : p[1] = i /\ p[2] = j
      BY <3>4
    <3>6. \A q \in Others \ {p} : p[1] < q[1] \/ (p[1] = q[1] /\ p[2] < q[2])
      <4> TAKE q \in Others \ {p}
      <4>1. /\ p = <<p[1], p[2]>> /\ p[1] \in Nat /\ p[2] \in Nat
            /\ q = <<q[1], q[2]>> /\ q[1] \in Nat /\ q[2] \in Nat
        BY <1>1
      <4>2. p[1] <= q[1]
        BY <3>2, <3>5
      <4>3. q[1] = p[1] => p[2] <= q[2]
        BY <3>4, <3>5
      <4> QED
        BY <4>1, <4>2, <4>3
    <3> HIDE DEF last
    <3> QED
      BY <3>5, <3>6
  <2> QED
    BY <2>1, <2>2
<1>3. UnlinkedNext(t) = CHOOSE p \in Leftover(t) : \A q \in Leftover(t) \ {p} : Follows(p, q)
  BY DEF UnlinkedNext
<1> HIDE DEF Follows
<1> QED
  BY <1>2, <1>3

LEMMA UnlinkKeeps ==
  ASSUME ThreadInv, NEW t \in Thread, Unlink(t)
  PROVE  ThreadInv' /\ UNCHANGED Atomic!vars
<1> DEFINE c == call[t]
<1>1. pc[t] = "unlink" /\ pc[t] \in Within
  BY DEF Unlink, Within
<1>2. AtUnlink(c, before, Snapshot, at[t]) /\ before.levels \in Seq(Nat)
  BY <1>1, Inner DEF Progress
<1>3. PICK level, sst, gone, fs :
        /\ IsMerge(c, before, level, sst)
        /\ at[t] = Output(before, level)
        /\ gone \subseteq Tree!ConsumedPaths(level)
        /\ Snapshot.levels = Tree!CompactedLevels(LevelsOf(before), level, sst)
        /\ fs \in MergedFiles(c, before, level, sst)
        /\ Snapshot.files = Tree!Unlinked(fs, gone)
  BY <1>2 DEF AtUnlink
<1>4. LevelsOf(before) \in Seq(Nat) /\ level \in 1 .. Len(LevelsOf(before)) /\ level \in Nat
  BY <1>2, <1>3, LevelsOfSeq DEF IsMerge
<1>5. at[t][1] = level
  BY <1>3 DEF Output, Tree!LastComponent
<1> DEFINE next == UnlinkedNext(t)
<1>6. next \in Tree!ConsumedPaths(level)
  BY <1>4, <1>5, NextIsLeft DEF Unlink, Leftover
<1> HIDE DEF next
<1>7. /\ memtable' = Tree!EmptyTable
      /\ levels' = Tree!CompactedLevels(LevelsOf(before), level, sst)
      /\ files' = Tree!Unlinked(fs, gone \cup {next})
  <2>1. Tree!Unlinked(Tree!Unlinked(fs, gone), {next}) = Tree!Unlinked(fs, gone \cup {next})
    BY DEF Tree!Unlinked
  <2>2. files' = Tree!Unlinked(files, {next}) /\ UNCHANGED <<memtable, levels>>
    BY DEF Unlink, next
  <2> QED
    BY <1>2, <1>3, <2>1, <2>2 DEF AtUnlink, Snapshot
<1>8. Snapshot'.memtable = memtable' /\ Snapshot'.levels = levels' /\ Snapshot'.files = files'
  BY DEF Snapshot
<1>9. AtUnlink(c, before, Snapshot', at[t])
  BY <1>2, <1>3, <1>6, <1>7, <1>8 DEF AtUnlink
<1>10. Progress("unlink", c, before, Snapshot', at[t], created[t])
  BY <1>9 DEF Progress
<1>11. Goto(t, "unlink")
  BY <1>1 DEF Unlink, Goto, ThreadInv, ThreadsTyped
<1>12. InnerStep(t, "unlink")
  BY <1>1, <1>10, <1>11 DEF Unlink, InnerStep, ThreadInv, ThreadsTyped
<1> QED
  BY <1>1, <1>12, InnerStepKeeps

LEMMA UnlinkedAllKeeps ==
  ASSUME ThreadInv, NEW t \in Thread, UnlinkedAll(t)
  PROVE  ThreadInv' /\ UNCHANGED Atomic!vars
<1> DEFINE c == call[t]
<1>1. pc[t] = "unlink" /\ pc[t] \in Within /\ "unlock" \in Within
  BY DEF UnlinkedAll, Within
<1>2. AtUnlink(c, before, Snapshot, at[t]) /\ before.levels \in Seq(Nat)
  BY <1>1, Inner DEF Progress
<1>3. PICK level, sst, gone, fs :
        /\ IsMerge(c, before, level, sst)
        /\ at[t] = Output(before, level)
        /\ gone \subseteq Tree!ConsumedPaths(level)
        /\ Snapshot.levels = Tree!CompactedLevels(LevelsOf(before), level, sst)
        /\ fs \in MergedFiles(c, before, level, sst)
        /\ Snapshot.files = Tree!Unlinked(fs, gone)
  BY <1>2 DEF AtUnlink
<1>4. at[t][1] = level
  BY <1>3 DEF Output, Tree!LastComponent
<1>5. files = Tree!Unlinked(fs, Tree!ConsumedPaths(level))
  <2>1. Tree!ConsumedPaths(level) \cap DOMAIN files = {}
    BY <1>4 DEF UnlinkedAll, Leftover
  <2>2. \A paths :
          /\ gone \subseteq paths
          /\ paths \cap DOMAIN Tree!Unlinked(fs, gone) = {}
          => Tree!Unlinked(fs, gone) = Tree!Unlinked(fs, paths)
    BY DEF Tree!Unlinked
  <2> QED
    BY <1>3, <2>1, <2>2 DEF Snapshot
<1>6. Compacted(c, before, Snapshot)
  BY <1>2, <1>3, <1>5 DEF AtUnlink, Compacted, IsMerge, Snapshot
<1>7. Snapshot' = Snapshot
  BY DEF UnlinkedAll, tree, Snapshot
<1>8. Progress("unlock", c, before, Snapshot', at'[t], created'[t])
  BY <1>2, <1>6, <1>7 DEF Progress, Outcome, AtUnlink, Fills, Flushes
<1>9. InnerStep(t, "unlock")
  BY <1>1, <1>8 DEF UnlinkedAll, tree, InnerStep, ThreadInv, ThreadsTyped
<1> QED
  BY <1>1, <1>9, InnerStepKeeps

(* Lookups leave the tree alone.                                           *)
LEMMA LookupKeeps ==
  ASSUME ThreadInv, NEW t \in Thread, ReadStep(t) \/ LookupThrows(t)
  PROVE  ThreadInv' /\ UNCHANGED Atomic!vars
<1> DEFINE Lookups == {"Find", "FindRange", "search", "range"}
<1>1. pc[t] \in Lookups /\ pc[t] \in Within
  BY DEF ReadStep, LookupThrows, FindInMemtable, SearchOn, SearchHit, SearchMiss,
         BeginRange, RangeTable, RangeNextLevel, RangeMemtable, Within
<1>2. call[t].op # "Insert" /\ Snapshot = before
  BY <1>1, Inner DEF Progress
<1>3. UNCHANGED <<tree, mtx_, call, created, before>> /\ DOMAIN at' = Thread
  BY DEF ReadStep, LookupThrows, FindInMemtable, SearchOn, SearchHit, SearchMiss,
         BeginRange, RangeTable, RangeNextLevel, RangeMemtable, ThreadInv, ThreadsTyped
<1>4. Snapshot' = before
  BY <1>2, <1>3 DEF Snapshot, tree
<1>5. \A place \in Lookups \cup {"unlock"} :
        Progress(place, call[t], before, Snapshot', at'[t], created'[t])
  BY <1>2, <1>4 DEF Progress
<1>6. \E place \in Lookups \cup {"unlock"} : Goto(t, place)
  <2>1. pc' = pc => Goto(t, pc[t])
    BY DEF Goto, ThreadInv, ThreadsTyped
  <2> QED
    BY <1>1, <2>1
    DEF ReadStep, LookupThrows, FindInMemtable, SearchOn, SearchHit, SearchMiss,
        BeginRange, RangeTable, RangeNextLevel, RangeMemtable
<1>7. PICK place \in Lookups \cup {"unlock"} : Goto(t, place)
  BY <1>6
<1>8. InnerStep(t, place)
  BY <1>3, <1>5, <1>7 DEF InnerStep, Within, tree, ThreadInv, ThreadsTyped
<1> QED
  BY <1>1, <1>8, InnerStepKeeps

----------------------------------------------------------------------------
(* Locking and unlocking. *)

LEMMA SameFull == \A mem : Atomic!Full(mem) <=> Tree!Full(mem)
<1>1. \A mem : Atomic!Keys(mem) = Tree!Keys(mem)
  BY DEF Atomic!Keys, Tree!Keys
<1> TAKE mem
<1>2. Atomic!Cardinality(Atomic!Keys(mem)) = Tree!Cardinality(Tree!Keys(mem))
  BY <1>1 DEF Atomic!Cardinality, Tree!Cardinality
<1> QED
  BY <1>2 DEF Atomic!Full, Tree!Full

(* Both instances of LSMTree have the same operators on levels and files.  *)
LEMMA SameOperators ==
  /\ Atomic!EmptyTable = Tree!EmptyTable /\ Atomic!ZeroBytes = Tree!ZeroBytes
  /\ Atomic!Entry = Tree!Entry
  /\ \A mem : Atomic!Full(mem) <=> Tree!Full(mem)
  /\ \A mem, new : Atomic!MakeSSTable(mem, new) = Tree!MakeSSTable(mem, new)
  /\ \A fs, path, sst : Atomic!Stored(fs, path, sst) = Tree!Stored(fs, path, sst)
  /\ \A fs, paths : Atomic!Unlinked(fs, paths) = Tree!Unlinked(fs, paths)
  /\ \A lv, level : Atomic!Grown(lv, level) = Tree!Grown(lv, level)
  /\ \A lv, level : Atomic!CreatedJustNow(lv, level) = Tree!CreatedJustNow(lv, level)
  /\ \A lv, level : Atomic!LastComponent(lv, level) = Tree!LastComponent(lv, level)
  /\ \A lv, level : Atomic!IsCompactionTarget(lv, level) = Tree!IsCompactionTarget(lv, level)
  /\ \A lv, level : Atomic!Inputs(lv, level) = Tree!Inputs(lv, level)
  /\ \A level : Atomic!ConsumedPaths(level) = Tree!ConsumedPaths(level)
<1> USE DEF Tree!EmptyTable, Atomic!EmptyTable, Tree!ZeroBytes, Atomic!ZeroBytes,
            Tree!Entry, Atomic!Entry, Tree!Keys, Atomic!Keys,
            Tree!Stored, Atomic!Stored, Tree!Unlinked, Atomic!Unlinked,
            Tree!Grown, Atomic!Grown, Tree!CreatedJustNow, Atomic!CreatedJustNow,
            Tree!LastComponent, Atomic!LastComponent,
            Tree!IsCompactionTarget, Atomic!IsCompactionTarget,
            Tree!Inputs, Atomic!Inputs, Tree!Components, Atomic!Components,
            Tree!ConsumedPaths, Atomic!ConsumedPaths
<1>1. /\ Atomic!EmptyTable = Tree!EmptyTable /\ Atomic!ZeroBytes = Tree!ZeroBytes
      /\ Atomic!Entry = Tree!Entry
  OBVIOUS
<1>2. \A mem : Atomic!Full(mem) <=> Tree!Full(mem)
  BY SameFull
<1>3. \A mem, new : Atomic!MakeSSTable(mem, new) = Tree!MakeSSTable(mem, new)
  BY DEF Tree!MakeSSTable, Atomic!MakeSSTable, Tree!SkipDeleted, Atomic!SkipDeleted,
         Tree!FilterOf, Atomic!FilterOf
<1>4. /\ \A fs, path, sst : Atomic!Stored(fs, path, sst) = Tree!Stored(fs, path, sst)
      /\ \A fs, paths : Atomic!Unlinked(fs, paths) = Tree!Unlinked(fs, paths)
  OBVIOUS
<1>5. /\ \A lv, level : Atomic!Grown(lv, level) = Tree!Grown(lv, level)
      /\ \A lv, level : Atomic!CreatedJustNow(lv, level) = Tree!CreatedJustNow(lv, level)
      /\ \A lv, level : Atomic!LastComponent(lv, level) = Tree!LastComponent(lv, level)
  OBVIOUS
<1>6. \A lv, level : Atomic!IsCompactionTarget(lv, level) = Tree!IsCompactionTarget(lv, level)
  OBVIOUS
<1>7. \A lv, level : Atomic!Inputs(lv, level) = Tree!Inputs(lv, level)
  OBVIOUS
<1>8. \A level : Atomic!ConsumedPaths(level) = Tree!ConsumedPaths(level)
  OBVIOUS
<1> QED
  BY <1>1, <1>2, <1>3, <1>4, <1>5, <1>6, <1>7, <1>8

LEMMA SameMerges ==
  /\ \A lv, fs, level : Atomic!MergedTables(lv, fs, level) = Tree!MergedTables(lv, fs, level)
  /\ \A lv, level, sst : Atomic!CompactedLevels(lv, level, sst) = Tree!CompactedLevels(lv, level, sst)
<1>1. \A lv, fs, level : Atomic!MergedTables(lv, fs, level) = Tree!MergedTables(lv, fs, level)
  BY DEF Tree!MergedTables, Atomic!MergedTables, Tree!MergedTable, Atomic!MergedTable,
         Tree!MergedKV, Atomic!MergedKV, Tree!MergedEntry, Atomic!MergedEntry,
         Tree!NewestEntry, Atomic!NewestEntry, Tree!Newest, Atomic!Newest,
         Tree!Newer, Atomic!Newer, Tree!Holding, Atomic!Holding,
         Tree!SkipDeleted, Atomic!SkipDeleted, Tree!FilterOf, Atomic!FilterOf,
         Tree!CreatedJustNow, Atomic!CreatedJustNow, Tree!Inputs, Atomic!Inputs,
         Tree!Components, Atomic!Components, Tree!Keys, Atomic!Keys,
         Tree!EmptyTable, Atomic!EmptyTable, Tree!Table, Atomic!Table, Tree!Entry, Atomic!Entry
<1>2. \A lv, level, sst : Atomic!CompactedLevels(lv, level, sst) = Tree!CompactedLevels(lv, level, sst)
  BY DEF Tree!CompactedLevels, Atomic!CompactedLevels, Tree!Grown, Atomic!Grown,
         Tree!CreatedJustNow, Atomic!CreatedJustNow, Tree!ZeroBytes, Atomic!ZeroBytes,
         Tree!EmptyTable, Atomic!EmptyTable
<1> QED
  BY <1>1, <1>2

(* While a thread is inside, LSMTree's operators on the tree that is seen  *)
(* are those of the tree the thread found.                                 *)
LEMMA SeenOperators ==
  ASSUME NEW c, Seen = before
  PROVE  /\ Atomic!Written(c.key, c.entry) = MemtableOf(c, before)
         /\ Atomic!FlushedTable(MemtableOf(c, before)) = TableOf(c, before)
         /\ Atomic!FlushedFiles(MemtableOf(c, before)) = FilesOf(c, before)
         /\ Atomic!FlushedLevels = LevelsOf(before)
         /\ Atomic!LevelFilled <=> LevelsOf(before)[1] = sstable_scaling_factor
<1>1. Atomic!Written(c.key, c.entry) = MemtableOf(c, before)
  BY DEF Atomic!Written, MemtableOf
<1>2. Atomic!FlushedTable(MemtableOf(c, before)) = TableOf(c, before)
  BY SameOperators DEF Atomic!FlushedTable, TableOf
<1>3. Atomic!FlushedFiles(MemtableOf(c, before)) = FilesOf(c, before)
  BY <1>2, SameOperators DEF Atomic!FlushedFiles, FilesOf
<1>4. Atomic!FlushedLevels = LevelsOf(before)
  BY SameOperators DEF Atomic!FlushedLevels, LevelsOf
<1> QED
  BY <1>1, <1>2, <1>3, <1>4 DEF Atomic!LevelFilled

(* What a write has done when it unlocks is an Insert of LSMTree.          *)
LEMMA OutcomeIsInsert ==
  ASSUME NEW c, Outcome(c, before, Snapshot), Seen = before, Seen' = Snapshot,
         open, UNCHANGED <<tree_data, open>>
  PROVE  Atomic!Insert(c.key, c.entry)
<1> DEFINE W == MemtableOf(c, before)
<1>1. /\ Atomic!Written(c.key, c.entry) = W
      /\ Atomic!FlushedTable(W) = TableOf(c, before)
      /\ Atomic!FlushedFiles(W) = FilesOf(c, before)
      /\ Atomic!FlushedLevels = LevelsOf(before)
      /\ Atomic!LevelFilled <=> LevelsOf(before)[1] = sstable_scaling_factor
  BY SeenOperators
<1>2. /\ Seen.memtable = before.memtable /\ Seen.levels = before.levels
      /\ Seen.files = before.files
      /\ Seen'.memtable = memtable /\ Seen'.levels = levels /\ Seen'.files = files
      /\ Snapshot.memtable = memtable /\ Snapshot.levels = levels /\ Snapshot.files = files
  BY DEF Snapshot
<1> HIDE DEF W
<1>3. CASE Buffered(c, before, Snapshot)
  <2>1. Atomic!InsertBuffered(c.key, c.entry)
    BY <1>1, <1>2, <1>3, SameOperators DEF Buffered, Atomic!InsertBuffered, W
  <2> QED
    BY <2>1 DEF Atomic!Insert
<1>4. CASE FlushThrew(c, before, Snapshot)
  <2>1. Atomic!InsertFlushThrows(c.key, c.entry)
    BY <1>1, <1>2, <1>4, SameOperators DEF FlushThrew, Flushes, Atomic!InsertFlushThrows, W
  <2> QED
    BY <2>1 DEF Atomic!Insert
<1>5. CASE FlushedNothing(c, before, Snapshot)
  <2>1. Atomic!InsertFlushedNothing(c.key, c.entry)
    BY <1>1, <1>2, <1>5, SameOperators DEF FlushedNothing, Flushes, Atomic!InsertFlushedNothing, W
  <2> QED
    BY <2>1 DEF Atomic!Insert
<1>6. CASE Flushed(c, before, Snapshot)
  <2>1. Atomic!InsertFlushed(c.key, c.entry)
    BY <1>1, <1>2, <1>6, SameOperators DEF Flushed, Flushes, Atomic!InsertFlushed, W
  <2> QED
    BY <2>1 DEF Atomic!Insert
<1>7. ASSUME Fills(c, before), memtable = Tree!EmptyTable
      PROVE  Atomic!InsertFillsLevel(c.key, c.entry)
  BY <1>1, <1>2, <1>7, SameOperators DEF Fills, Flushes, Atomic!InsertFillsLevel, W
<1>8. CASE Compacted(c, before, Snapshot)
  <2>1. PICK level, sst, fs :
          /\ level \in 1 .. Len(LevelsOf(before))
          /\ IsMerge(c, before, level, sst)
          /\ levels = Tree!CompactedLevels(LevelsOf(before), level, sst)
          /\ fs \in MergedFiles(c, before, level, sst)
          /\ files = Tree!Unlinked(fs, Tree!ConsumedPaths(level))
    BY <1>2, <1>8 DEF Compacted
  <2>2. Atomic!InsertFillsLevel(c.key, c.entry)
    BY <1>2, <1>7, <1>8 DEF Compacted
  <2>3. /\ Atomic!IsCompactionTarget(Atomic!FlushedLevels, level)
        /\ Atomic!Inputs(Atomic!FlushedLevels, level) \subseteq DOMAIN Atomic!FlushedFiles(W)
        /\ sst \in Atomic!MergedTables(Atomic!FlushedLevels, Atomic!FlushedFiles(W), level)
    BY <1>1, <2>1, SameOperators, SameMerges DEF IsMerge
  <2>4. levels = Atomic!CompactedLevels(Atomic!FlushedLevels, level, sst)
    BY <1>1, <2>1, SameMerges
  <2>5. CASE fs = WithOutput(c, before, level, sst)
    <3>1. files = Atomic!Unlinked(Atomic!Stored(Atomic!FlushedFiles(W),
                    Atomic!LastComponent(Atomic!FlushedLevels, level), sst), Atomic!ConsumedPaths(level))
      BY <1>1, <2>1, <2>5, SameOperators DEF WithOutput, Output
    <3>2. Atomic!InsertCompacted(c.key, c.entry)
      BY <1>1, <1>2, <2>1, <2>2, <2>3, <2>4, <3>1 DEF Atomic!InsertCompacted
    <3> QED
      BY <3>2 DEF Atomic!Insert
  <2>6. CASE "compaction" \in Faults /\ fs = FilesOf(c, before)
    <3>1. files = Atomic!Unlinked(Atomic!FlushedFiles(W), Atomic!ConsumedPaths(level))
      BY <1>1, <2>1, <2>6, SameOperators
    <3>2. Atomic!InsertCompactedUnwritten(c.key, c.entry)
      BY <1>1, <1>2, <2>1, <2>2, <2>3, <2>4, <2>6, <3>1 DEF Atomic!InsertCompactedUnwritten
    <3> QED
      BY <3>2 DEF Atomic!Insert
  <2> QED
    BY <2>1, <2>5, <2>6 DEF MergedFiles
<1>9. CASE CompactionThrew(c, before, Snapshot)
  <2>1. PICK level \in 1 .. Len(LevelsOf(before)) :
          /\ Tree!IsCompactionTarget(LevelsOf(before), level)
          /\ \/ "reader" \in Faults
             \/ ~ (Tree!Inputs(LevelsOf(before), level) \subseteq DOMAIN FilesOf(c, before))
          /\ levels = Tree!Grown(LevelsOf(before), level)
          /\ files \in MergedFiles(c, before, level, Tree!ZeroBytes)
    BY <1>2, <1>9 DEF CompactionThrew
  <2>2. Atomic!InsertFillsLevel(c.key, c.entry)
    BY <1>2, <1>7, <1>9 DEF CompactionThrew
  <2>3. /\ Atomic!IsCompactionTarget(Atomic!FlushedLevels, level)
        /\ \/ "reader" \in Faults
           \/ ~ (Atomic!Inputs(Atomic!FlushedLevels, level) \subseteq DOMAIN Atomic!FlushedFiles(W))
        /\ levels = Atomic!Grown(Atomic!FlushedLevels, level)
    BY <1>1, <2>1, SameOperators
  <2>4. files \in Atomic!AfterThrow(Atomic!FlushedFiles(W),
                    Atomic!LastComponent(Atomic!FlushedLevels, level))
    BY <1>1, <2>1, SameOperators DEF MergedFiles, WithOutput, Output, Atomic!AfterThrow
  <2>5. Atomic!InsertCompactionThrows(c.key, c.entry)
    BY <1>1, <1>2, <2>1, <2>2, <2>3, <2>4 DEF Atomic!InsertCompactionThrows
  <2> QED
    BY <2>5 DEF Atomic!Insert
<1> QED
  BY <1>3, <1>4, <1>5, <1>6, <1>8, <1>9 DEF Outcome

LEMMA CallsStay == Abstract!Calls' = Abstract!Calls
BY DEF Abstract!Calls

LEMMA CallKeeps ==
  ASSUME ThreadInv, NEW t \in Thread, NEW c \in Abstract!Calls, Call(t, c)
  PROVE  ThreadInv' /\ UNCHANGED Atomic!vars
<1>1. /\ open /\ pc[t] = "idle" /\ pc' = [pc EXCEPT ![t] = "lock"]
      /\ call' = [call EXCEPT ![t] = c]
      /\ UNCHANGED <<memtable, levels, files, tree_data, open, mtx_, at, created, before>>
  BY DEF Call, Goto, tree
<1>2. ThreadsTyped'
  BY <1>1, CallsStay DEF ThreadInv, ThreadsTyped, Outside
<1>3. Mutex'
  BY <1>1 DEF ThreadInv, ThreadsTyped, Mutex, Within
<1>4. Seen' = Seen /\ Snapshot' = Snapshot
  BY <1>1 DEF Seen, Snapshot
<1>5. CountsTyped'
  BY <1>1, <1>4 DEF ThreadInv, CountsTyped
<1>6. HolderInv'
  <2>1. SUFFICES ASSUME NEW u \in Thread, mtx_ = u
                 PROVE  Progress(pc'[u], call'[u], before', Snapshot', at'[u], created'[u])
    BY <1>1 DEF HolderInv
  <2>2. pc[u] \in Within /\ u # t
    BY <1>1, <2>1 DEF ThreadInv, Mutex, Within
  <2> QED
    BY <1>1, <1>4, <2>1, <2>2 DEF ThreadInv, ThreadsTyped, HolderInv
<1> QED
  BY <1>1, <1>2, <1>3, <1>4, <1>5, <1>6 DEF ThreadInv, Atomic!vars

LEMMA ReturnKeeps ==
  ASSUME ThreadInv, NEW t \in Thread, Return(t)
  PROVE  ThreadInv' /\ UNCHANGED Atomic!vars
<1>1. /\ pc[t] = "returned" /\ pc' = [pc EXCEPT ![t] = "idle"]
      /\ call' = [call EXCEPT ![t] = nullopt]
      /\ at' = [at EXCEPT ![t] = <<0, 0>>] /\ created' = [created EXCEPT ![t] = FALSE]
      /\ UNCHANGED <<memtable, levels, files, tree_data, open, mtx_, before>>
  BY DEF Return, Goto, tree
<1>2. ThreadsTyped'
  BY <1>1, CallsStay DEF ThreadInv, ThreadsTyped, Outside
<1>3. Mutex'
  BY <1>1 DEF ThreadInv, ThreadsTyped, Mutex, Within
<1>4. Seen' = Seen /\ Snapshot' = Snapshot
  BY <1>1 DEF Seen, Snapshot
<1>5. CountsTyped'
  BY <1>1, <1>4 DEF ThreadInv, CountsTyped
<1>6. HolderInv'
  <2>1. SUFFICES ASSUME NEW u \in Thread, mtx_ = u
                 PROVE  Progress(pc'[u], call'[u], before', Snapshot', at'[u], created'[u])
    BY <1>1 DEF HolderInv
  <2>2. pc[u] \in Within /\ u # t
    BY <1>1, <2>1 DEF ThreadInv, Mutex, Within
  <2> QED
    BY <1>1, <1>4, <2>1, <2>2 DEF ThreadInv, ThreadsTyped, HolderInv
<1> QED
  BY <1>1, <1>2, <1>3, <1>4, <1>5, <1>6 DEF ThreadInv, Atomic!vars

LEMMA LockKeeps ==
  ASSUME ThreadInv, NEW t \in Thread, Lock(t)
  PROVE  ThreadInv' /\ UNCHANGED Atomic!vars
<1>1. /\ pc[t] = "lock" /\ mtx_ = nullopt /\ mtx_' = t /\ mtx_' # nullopt
      /\ pc' = [pc EXCEPT ![t] = call[t].op] /\ before' = Snapshot
      /\ UNCHANGED <<memtable, levels, files, tree_data, open, call, at, created>>
  BY ThreadAssumption DEF Lock, Acquire, Goto, tree
<1>2. call[t] \in Abstract!Calls /\ open /\ call[t].op \in {"Insert", "Find", "FindRange"}
      /\ call[t].op \in Within
  BY <1>1 DEF ThreadInv, ThreadsTyped, Abstract!Calls, Within
<1>3. ThreadsTyped'
  BY <1>1, <1>2, CallsStay DEF ThreadInv, ThreadsTyped
<1>4. Mutex'
  <2>1. \A u \in Thread : pc[u] \notin Within
    BY <1>1, ThreadAssumption DEF ThreadInv, Mutex
  <2> QED
    BY <1>1, <1>2, <2>1 DEF ThreadInv, ThreadsTyped, Mutex
<1>5. Seen = Snapshot /\ Seen' = Snapshot /\ Snapshot' = Snapshot
  BY <1>1 DEF Seen, Snapshot
<1>6. CountsTyped'
  BY <1>1, <1>5 DEF ThreadInv, CountsTyped
<1>7. HolderInv'
  <2>1. pc'[t] = call[t].op
    BY <1>1 DEF ThreadInv, ThreadsTyped
  <2>2. Progress(call[t].op, call[t], Snapshot, Snapshot, at[t], created[t])
    BY <1>2 DEF Progress
  <2> QED
    BY <1>1, <1>5, <2>1, <2>2 DEF HolderInv
<1> QED
  BY <1>1, <1>3, <1>4, <1>5, <1>6, <1>7 DEF ThreadInv, Atomic!vars

LEMMA UnlockKeeps ==
  ASSUME ThreadInv, NEW t \in Thread, Unlock(t)
  PROVE  ThreadInv' /\ [Atomic!Next]_(Atomic!vars)
<1> DEFINE c == call[t]
<1>1. /\ pc[t] = "unlock" /\ pc[t] \in Within /\ mtx_' = nullopt
      /\ pc' = [pc EXCEPT ![t] = "returned"]
      /\ UNCHANGED <<memtable, levels, files, tree_data, open, call, at, created>>
  BY DEF Unlock, Goto, tree, Within
<1>2. /\ mtx_ = t /\ c \in Abstract!Calls /\ open /\ Seen = before
      /\ before.levels \in Seq(Nat)
      /\ Progress("unlock", c, before, Snapshot, at[t], created[t])
  BY <1>1, Inner
<1>3. Seen' = Snapshot /\ Snapshot.levels = levels
  BY <1>1 DEF Seen, Snapshot
<1>4. IF c.op = "Insert" THEN Outcome(c, before, Snapshot) ELSE Snapshot = before
  BY <1>2 DEF Progress
<1>5. ThreadsTyped'
  BY <1>1, CallsStay DEF ThreadInv, ThreadsTyped, Outside
<1>6. Mutex'
  BY <1>1, <1>2, ThreadAssumption DEF ThreadInv, ThreadsTyped, Mutex, Within
<1>7. CountsTyped'
  <2>1. Snapshot.levels \in Seq(Nat)
    BY <1>2, <1>4, OutcomeSeq
  <2> QED
    BY <1>1, <1>3, <2>1 DEF ThreadInv, CountsTyped
<1>8. HolderInv'
  BY <1>1, ThreadAssumption DEF HolderInv
<1>9. CASE c.op = "Insert"
  <2>1. Atomic!Insert(c.key, c.entry)
    BY <1>1, <1>2, <1>3, <1>4, <1>9, OutcomeIsInsert
  <2>2. c.key \in Key /\ c.entry \in Atomic!Entry
    BY <1>2, <1>9 DEF Abstract!Calls, Atomic!Entry
  <2>3. Atomic!Next
    BY <2>1, <2>2 DEF Atomic!Next
  <2> QED
    BY <1>5, <1>6, <1>7, <1>8, <2>3 DEF ThreadInv
<1>10. CASE c.op # "Insert"
  <2>1. UNCHANGED Atomic!vars
    BY <1>1, <1>2, <1>3, <1>4, <1>10 DEF Atomic!vars
  <2> QED
    BY <1>5, <1>6, <1>7, <1>8, <2>1 DEF ThreadInv
<1> QED
  BY <1>9, <1>10

(* Objects are made and destroyed while nobody is inside.                  *)
LEMMA SessionKeeps ==
  ASSUME ThreadInv, Session
  PROVE  ThreadInv' /\ Atomic!Next
<1>1. /\ \A t \in Thread : pc[t] = "idle"
      /\ UNCHANGED <<mtx_, pc, call, at, created, before>>
  BY DEF Session
<1>2. mtx_ = nullopt /\ Seen = Snapshot /\ Seen' = Snapshot'
  BY <1>1 DEF ThreadInv, ThreadsTyped, Mutex, Seen, Within
<1>3. /\ Seen.memtable = memtable /\ Seen.levels = levels /\ Seen.files = files
      /\ Seen'.memtable = memtable' /\ Seen'.levels = levels' /\ Seen'.files = files'
  BY <1>2 DEF Snapshot
<1>4. ThreadsTyped'
  BY <1>1, CallsStay DEF ThreadInv, ThreadsTyped
<1>5. Mutex'
  BY <1>1 DEF ThreadInv, Mutex
<1>6. HolderInv'
  BY <1>1, <1>2, ThreadAssumption DEF HolderInv
<1>7. CountsTyped' /\ Atomic!Next
  <2>1. CASE Tree!Create
    <3>1. Atomic!Create
      BY <1>3, <2>1, SameOperators DEF Tree!Create, Atomic!Create
    <3> QED
      BY <1>3, <2>1, <3>1 DEF Tree!Create, ThreadInv, CountsTyped, Atomic!Next
  <2>2. CASE Tree!Load
    <3>1. Atomic!Load
      BY <1>3, <2>2 DEF Tree!Load, Atomic!Load
    <3> QED
      BY <1>3, <2>2, <3>1 DEF Tree!Load, ThreadInv, CountsTyped, Atomic!Next
  <2>3. CASE Tree!Close
    <3>1. Atomic!Close
      BY <1>3, <2>3, SameOperators
      DEF Tree!Close, Atomic!Close, Tree!Destroyed, Atomic!Destroyed
    <3> QED
      BY <1>3, <2>3, <3>1 DEF Tree!Close, Tree!Destroyed, ThreadInv, CountsTyped, Atomic!Next
  <2> QED
    BY <2>1, <2>2, <2>3 DEF Session
<1> QED
  BY <1>4, <1>5, <1>6, <1>7 DEF ThreadInv

----------------------------------------------------------------------------
LEMMA ThreadStep ==
  ASSUME ThreadInv, [Next]_vars
  PROVE  ThreadInv' /\ [Atomic!Next]_(Atomic!vars)
<1>1. CASE Session
  BY <1>1, SessionKeeps
<1>2. ASSUME NEW t \in Thread, Lock(t) PROVE ThreadInv' /\ [Atomic!Next]_(Atomic!vars)
  BY <1>2, LockKeeps
<1>3. ASSUME NEW t \in Thread, WriteStep(t) PROVE ThreadInv' /\ [Atomic!Next]_(Atomic!vars)
  BY <1>3, WriteMemtableKeeps, FlushKeeps, CountNothingKeeps, CountKeeps, MergeKeeps,
     MergeUnwrittenKeeps, ResetKeeps, UnlinkKeeps, UnlinkedAllKeeps
  DEF WriteStep
<1>4. ASSUME NEW t \in Thread, ReadStep(t) PROVE ThreadInv' /\ [Atomic!Next]_(Atomic!vars)
  BY <1>4, LookupKeeps
<1>5. ASSUME NEW t \in Thread, Unlock(t) PROVE ThreadInv' /\ [Atomic!Next]_(Atomic!vars)
  BY <1>5, UnlockKeeps
<1>6. ASSUME NEW t \in Thread, Throw(t) PROVE ThreadInv' /\ [Atomic!Next]_(Atomic!vars)
  BY <1>6, FlushThrowsKeeps, MergeThrowsKeeps, LookupKeeps DEF Throw
<1>7. ASSUME NEW t \in Thread, Return(t) PROVE ThreadInv' /\ [Atomic!Next]_(Atomic!vars)
  BY <1>7, ReturnKeeps
<1>8. ASSUME NEW t \in Thread, NEW c \in Abstract!Calls, Call(t, c)
      PROVE  ThreadInv' /\ [Atomic!Next]_(Atomic!vars)
  BY <1>8, CallKeeps
<1>9. CASE UNCHANGED vars
  <2>1. Seen' = Seen /\ Snapshot' = Snapshot
    BY <1>9 DEF vars, Seen, Snapshot
  <2>2. ThreadsTyped'
    BY <1>9, CallsStay DEF vars, ThreadInv, ThreadsTyped
  <2>3. Mutex' /\ CountsTyped'
    BY <1>9, <2>1 DEF vars, ThreadInv, Mutex, CountsTyped
  <2>4. HolderInv'
    BY <1>9, <2>1 DEF vars, ThreadInv, HolderInv
  <2>5. UNCHANGED Atomic!vars
    BY <1>9, <2>1 DEF vars, Atomic!vars
  <2> QED
    BY <2>2, <2>3, <2>4, <2>5 DEF ThreadInv
<1> QED
  BY <1>1, <1>2, <1>3, <1>4, <1>5, <1>6, <1>7, <1>8, <1>9 DEF Next, Step

(* At every moment the holder of the mutex, and nobody else, is between    *)
(* its locking and its unlocking.                                          *)
THEOREM OnlyTheHolderIsInside ==
  Spec => [](Inside = IF mtx_ = nullopt THEN {} ELSE {mtx_})
<1>1. Init => ThreadInv
  BY ThreadInit
<1>2. ThreadInv /\ [Next]_vars => ThreadInv'
  BY ThreadStep
<1>3. ThreadInv => Inside = IF mtx_ = nullopt THEN {} ELSE {mtx_}
  <2> SUFFICES ASSUME ThreadInv PROVE Inside = IF mtx_ = nullopt THEN {} ELSE {mtx_}
    OBVIOUS
  <2>1. \A t \in Thread : t \in Inside <=> mtx_ = t
    BY DEF ThreadInv, ThreadsTyped, Mutex, Inside, Within, Outside
  <2> QED
    BY <2>1, ThreadAssumption DEF ThreadInv, ThreadsTyped, Inside
<1> QED
  BY <1>1, <1>2, <1>3, PTL DEF Spec

(* Whatever the threads do at once, and however a write is cut into steps  *)
(* or ends in an exception, the tree that is seen between two holders of   *)
(* the mutex changes only by LSMTree's operations, each in one step.       *)
THEOREM ThreadsImplementTree == Spec => ImplementsLSMTree
<1>1. Init => ThreadInv /\ Atomic!Init
  <2>1. Init => Atomic!Init
    BY SameOperators DEF Init, Tree!Init, Atomic!Init, Seen, Snapshot
  <2> QED
    BY <2>1, ThreadInit
<1>2. ThreadInv /\ [Next]_vars => ThreadInv' /\ [Atomic!Next]_(Atomic!vars)
  BY ThreadStep
<1> QED
  BY <1>1, <1>2, PTL DEF Spec, ImplementsLSMTree, Atomic!Spec

----------------------------------------------------------------------------
(* What Find and FindRange answer, step by step through levels and tables, *)
(* whatever the other threads do: the newest entry of each key, in the     *)
(* tree as it is when the mutex is released.  This holds for trees of any  *)
(* shape, missing and stale tables included, as long as the filters are    *)
(* sound; that they are, also in the middle of every write, comes first.   *)

(* Filters. *)

Sound(sst) == \A k \in Tree!Keys(sst.kv) : Tree!TestHashes(sst, k)

LEMMA SoundTables ==
  /\ Sound(Tree!ZeroBytes)
  /\ \A mem, new : Sound(Tree!MakeSSTable(mem, new))
  /\ \A lv, fs, level : \A sst \in Tree!MergedTables(lv, fs, level) : Sound(sst)
<1> USE DEF Sound, Tree!Keys, Tree!TestHashes, Tree!FilterOf
<1>1. Sound(Tree!ZeroBytes)
  BY DEF Tree!ZeroBytes, Tree!EmptyTable
<1>2. \A mem, new : Sound(Tree!MakeSSTable(mem, new))
  BY <1>1 DEF Tree!MakeSSTable, Tree!SkipDeleted
<1>3. \A lv, fs, level : \A sst \in Tree!MergedTables(lv, fs, level) : Sound(sst)
  BY DEF Tree!MergedTables, Tree!MergedTable
<1> QED
  BY <1>1, <1>2, <1>3

LEMMA SoundFiles ==
  ASSUME NEW fs, \A p \in DOMAIN fs : Sound(fs[p])
  PROVE  /\ \A path, sst : Sound(sst) =>
              \A p \in DOMAIN Tree!Stored(fs, path, sst) : Sound(Tree!Stored(fs, path, sst)[p])
         /\ \A paths : \A p \in DOMAIN Tree!Unlinked(fs, paths) : Sound(Tree!Unlinked(fs, paths)[p])
BY DEF Tree!Stored, Tree!Unlinked

FiltersInv == \A p \in DOMAIN files : Sound(files[p])

LEMMA FiltersStep ==
  ASSUME FiltersInv, [Next]_vars
  PROVE  FiltersInv'
<1> USE DEF FiltersInv
<1>1. CASE files' = files
  BY <1>1
<1>2. CASE \E path, sst : Sound(sst) /\ files' = Tree!Stored(files, path, sst)
  BY <1>2, SoundFiles
<1>3. CASE \E paths : files' = Tree!Unlinked(files, paths)
  BY <1>3, SoundFiles
<1>4. ASSUME NEW t \in Thread, Flush(t)
      PROVE  \E path, sst : Sound(sst) /\ files' = Tree!Stored(files, path, sst)
  BY <1>4, SoundTables DEF Flush, Tree!FlushedFiles, Tree!FlushedTable
<1>5. ASSUME NEW t \in Thread, Merge(t)
      PROVE  \E path, sst : Sound(sst) /\ files' = Tree!Stored(files, path, sst)
  BY <1>5, SoundTables DEF Merge
<1>6. ASSUME NEW t \in Thread, MergeThrows(t)
      PROVE  files' = files \/ \E path, sst : Sound(sst) /\ files' = Tree!Stored(files, path, sst)
  BY <1>6, SoundTables DEF MergeThrows, Tree!AfterThrow
<1>7. ASSUME NEW t \in Thread, Unlink(t)
      PROVE  \E paths : files' = Tree!Unlinked(files, paths)
  BY <1>7 DEF Unlink
<1>8. ASSUME NEW t \in Thread,
             \/ WriteMemtable(t) \/ CountNothing(t) \/ Count(t)
             \/ MergeUnwritten(t) \/ Reset(t) \/ UnlinkedAll(t)
             \/ FlushThrows(t) \/ LookupThrows(t) \/ ReadStep(t)
             \/ Lock(t) \/ Unlock(t) \/ Return(t) \/ \E c \in Abstract!Calls : Call(t, c)
      PROVE  files' = files
  BY <1>8
  DEF WriteMemtable, CountNothing, Count, MergeUnwritten, Reset, UnlinkedAll, FlushThrows,
      LookupThrows, ReadStep, FindInMemtable, SearchOn, SearchHit, SearchMiss, BeginRange, RangeTable,
      RangeNextLevel, RangeMemtable, Lock, Unlock, Return, Call, tree
<1>9. Session => files' = files
  BY DEF Session, Tree!Create, Tree!Load, Tree!Close, Tree!Destroyed
<1> QED
  BY <1>1, <1>2, <1>3, <1>4, <1>5, <1>6, <1>7, <1>8, <1>9
  DEF Next, vars, Step, WriteStep, Throw

(* No filter ever denies a key of its table, in the middle of writes too.  *)
THEOREM FiltersSoundInside == Spec => []Tree!FiltersSound
<1>1. Init => FiltersInv
  BY DEF Init, Tree!Init, FiltersInv
<1>2. FiltersInv /\ [Next]_vars => FiltersInv'
  BY FiltersStep
<1>3. FiltersInv => Tree!FiltersSound
  BY DEF FiltersInv, Sound, Tree!FiltersSound
<1> QED
  BY <1>1, <1>2, <1>3, PTL DEF Spec

----------------------------------------------------------------------------
(* The newest entry among some components. *)

LEMMA ComponentsAre ==
  ASSUME NEW lv \in Seq(Nat)
  PROVE  /\ Tree!Components(lv) \subseteq Nat \X Nat
         /\ \A q \in Tree!Components(lv) : q[1] < Len(lv) /\ q[2] < lv[q[1] + 1]
BY DEF Tree!Components

(* The table of these that holds the key and that no other holding table   *)
(* is newer than.                                                          *)
LEMMA NewestIs ==
  ASSUME NEW fs, NEW paths, paths \subseteq Nat \X Nat, NEW k,
         NEW p \in paths \cap DOMAIN fs, fs[p].kv[k] # nullopt,
         \A q \in paths \cap DOMAIN fs : Tree!Newer(q, p) => fs[q].kv[k] = nullopt
  PROVE  Tree!NewestEntry(fs, paths, k) = fs[p].kv[k]
<1> DEFINE H == Tree!Holding(fs, paths, k)
<1>1. p \in H /\ H \subseteq Nat \X Nat /\ \A q \in H : ~Tree!Newer(q, p)
  BY DEF Tree!Holding
<1>2. \A q \in H : p = q \/ Tree!Newer(p, q)
  <2> TAKE q \in H
  <2>1. /\ p = <<p[1], p[2]>> /\ p[1] \in Nat /\ p[2] \in Nat
        /\ q = <<q[1], q[2]>> /\ q[1] \in Nat /\ q[2] \in Nat
    BY <1>1
  <2>2. ~Tree!Newer(q, p)
    BY <1>1
  <2> QED
    BY <2>1, <2>2 DEF Tree!Newer
<1> HIDE DEF H
<1>3. Tree!Newest(H) \in H /\ \A q \in H : Tree!Newest(H) = q \/ Tree!Newer(Tree!Newest(H), q)
  BY <1>1, <1>2 DEF Tree!Newest
<1>4. Tree!Newest(H) = p
  BY <1>1, <1>3
<1>5. H # {}
  BY <1>1
<1> QED
  BY <1>4, <1>5 DEF Tree!NewestEntry, H

LEMMA NewestOfNone ==
  ASSUME NEW fs, NEW paths, NEW k, \A q \in paths \cap DOMAIN fs : fs[q].kv[k] = nullopt
  PROVE  Tree!NewestEntry(fs, paths, k) = nullopt
BY DEF Tree!NewestEntry, Tree!Holding

(* A table newer than all of these is asked first.                         *)
LEMMA NewestWith ==
  ASSUME NEW fs, NEW paths, paths \subseteq Nat \X Nat, NEW k,
         NEW p \in (Nat \X Nat) \cap DOMAIN fs,
         \A q \in paths : Tree!Newer(p, q)
  PROVE  Tree!NewestEntry(fs, paths \cup {p}, k) =
           IF fs[p].kv[k] # nullopt THEN fs[p].kv[k] ELSE Tree!NewestEntry(fs, paths, k)
<1>1. CASE fs[p].kv[k] # nullopt
  <2>1. \A q \in paths \cup {p} : ~Tree!Newer(q, p)
    <3> TAKE q \in paths \cup {p}
    <3>1. p[1] \in Nat /\ p[2] \in Nat /\ q[1] \in Nat /\ q[2] \in Nat
      OBVIOUS
    <3> QED
      BY <3>1 DEF Tree!Newer
  <2>2. paths \cup {p} \subseteq Nat \X Nat /\ p \in (paths \cup {p}) \cap DOMAIN fs
    OBVIOUS
  <2>3. \A q \in (paths \cup {p}) \cap DOMAIN fs : Tree!Newer(q, p) => fs[q].kv[k] = nullopt
    BY <2>1
  <2>4. Tree!NewestEntry(fs, paths \cup {p}, k) = fs[p].kv[k]
    BY <1>1, <2>2, <2>3, NewestIs
  <2> QED
    BY <1>1, <2>4
<1>2. CASE fs[p].kv[k] = nullopt
  <2>1. Tree!Holding(fs, paths \cup {p}, k) = Tree!Holding(fs, paths, k)
    BY <1>2 DEF Tree!Holding
  <2> QED
    BY <1>2, <2>1 DEF Tree!NewestEntry
<1> QED
  BY <1>1, <1>2

----------------------------------------------------------------------------
(* How far a lookup c has come in the tree s: it is at the table p and has *)
(* the answer a.                                                           *)

LookupIn(s, k) == Tree!Lookup(s.memtable, s.levels, s.files, k)

(* The components that a search has passed, and a range scan.              *)
Passed(p, lv) == {q \in Tree!Components(lv) : q[1] < p[1] \/ (q[1] = p[1] /\ q[2] > p[2])}
Scanned(p, lv) == {q \in Tree!Components(lv) : q[1] > p[1] \/ (q[1] = p[1] /\ q[2] < p[2])}

AtSearch(c, p, a, s) ==
  /\ c.op = "Find"
  /\ p \in Nat \X Int
  /\ p[1] < Len(s.levels) => p[2] < s.levels[p[1] + 1]
  /\ a = nullopt
  /\ s.memtable[c.key] = nullopt
  /\ \A q \in Passed(p, s.levels) \cap DOMAIN s.files : s.files[q].kv[c.key] = nullopt

Overlay(p, s) ==
  [k \in Key |-> Tree!Visible(Tree!NewestEntry(s.files, Scanned(p, s.levels), k))]

AtRange(c, p, a, s) ==
  /\ c.op = "FindRange"
  /\ p \in Int \X Nat
  /\ a = Overlay(p, s)

Answered(c, a, s) ==
  /\ c.op = "Find" => a \in {exception, LookupIn(s, c.key)}
  /\ c.op = "FindRange" => a \in {exception, [k \in Key |-> LookupIn(s, k)]}

Stage(place, c, p, a, s) ==
  /\ place \in {"Insert", "flush", "count", "merge", "reset", "unlink"} => c.op = "Insert"
  /\ place = "Find" => c.op = "Find"
  /\ place = "FindRange" => c.op = "FindRange"
  /\ place = "search" => AtSearch(c, p, a, s)
  /\ place = "range" => AtRange(c, p, a, s)
  /\ place = "unlock" => Answered(c, a, s)

StageInv ==
  /\ DOMAIN answer = Thread
  /\ \A t \in Thread : pc[t] \in Within => Stage(pc[t], call[t], at[t], answer[t], Snapshot)

LookupInv == ThreadInv /\ FiltersInv /\ StageInv

----------------------------------------------------------------------------
(* Find. *)

LEMMA FindInMemtableStage ==
  ASSUME LookupInv, NEW t \in Thread, FindInMemtable(t)
  PROVE  Stage(pc'[t], call[t], at'[t], answer'[t], Snapshot)
<1> DEFINE c == call[t]
           entry == memtable[c.key]
<1>1. pc[t] = "Find" /\ pc[t] \in Within
  BY DEF FindInMemtable, Within
<1>2. c.op = "Find" /\ levels \in Seq(Nat)
  <2>1. Snapshot = before /\ before.levels \in Seq(Nat)
    BY <1>1, Inner DEF LookupInv, Progress
  <2> QED
    BY <1>1, <2>1 DEF LookupInv, StageInv, Stage, Snapshot
<1>3. /\ pc'[t] = IF entry # nullopt THEN "unlock" ELSE "search"
      /\ at'[t] = LastOf(0) /\ answer'[t] = Tree!Visible(entry)
  BY DEF FindInMemtable, Goto, Answers, LookupInv, ThreadInv, ThreadsTyped, StageInv
<1>4. /\ Snapshot.memtable = memtable /\ Snapshot.levels = levels /\ Snapshot.files = files
  BY DEF Snapshot
<1>5. CASE entry # nullopt
  <2>1. LookupIn(Snapshot, c.key) = Tree!Visible(entry)
    BY <1>4, <1>5 DEF LookupIn, Tree!Lookup
  <2> QED
    BY <1>2, <1>3, <1>5, <2>1 DEF Stage, Answered
<1>6. CASE entry = nullopt
  <2>1. /\ LastOf(0) \in Nat \X Int /\ LastOf(0)[1] = 0
        /\ 0 < Len(levels) => LastOf(0)[2] = levels[0 + 1] - 1 /\ levels[0 + 1] \in Nat
    BY <1>2 DEF LastOf
  <2>2. Passed(LastOf(0), levels) = {}
    <3> SUFFICES ASSUME NEW q \in Passed(LastOf(0), levels) PROVE FALSE
      OBVIOUS
    <3>1. /\ q[1] \in Nat /\ q[2] \in Nat /\ q[1] < Len(levels) /\ q[2] < levels[q[1] + 1]
          /\ q[1] < 0 \/ (q[1] = 0 /\ q[2] > LastOf(0)[2])
      BY <1>2, <2>1, ComponentsAre DEF Passed
    <3> QED
      BY <1>2, <2>1, <3>1
  <2>3. Tree!Visible(entry) = nullopt
    BY <1>6 DEF Tree!Visible
  <2>4. AtSearch(c, LastOf(0), nullopt, Snapshot)
    BY <1>2, <1>4, <1>6, <2>1, <2>2 DEF AtSearch
  <2> QED
    BY <1>3, <1>6, <2>3, <2>4 DEF Stage
<1> QED
  BY <1>5, <1>6

(* What the search knows at its next table.                                *)
LEMMA Searching ==
  ASSUME LookupInv, NEW t \in Thread, pc[t] = "search"
  PROVE  /\ pc[t] \in Within /\ levels \in Seq(Nat) /\ call[t].key \in Key
         /\ AtSearch(call[t], at[t], answer[t], Snapshot)
         /\ Snapshot.memtable = memtable /\ Snapshot.levels = levels /\ Snapshot.files = files
<1>1. pc[t] \in Within
  BY DEF Within
<1>2. Snapshot = before /\ before.levels \in Seq(Nat) /\ call[t] \in Abstract!Calls
  BY <1>1, Inner DEF LookupInv, Progress
<1>3. AtSearch(call[t], at[t], answer[t], Snapshot)
  BY <1>1 DEF LookupInv, StageInv, Stage
<1>4. call[t].key \in Key
  BY <1>2, <1>3 DEF AtSearch, Abstract!Calls
<1> QED
  BY <1>1, <1>2, <1>3, <1>4 DEF Snapshot

LEMMA SearchOnStage ==
  ASSUME LookupInv, NEW t \in Thread, SearchOn(t)
  PROVE  AtSearch(call[t], at'[t], answer[t], Snapshot)
<1> DEFINE c == call[t]
           p == at[t]
<1>1. /\ pc[t] = "search" /\ p[1] < Len(levels)
      /\ p[2] >= 0 => p \in DOMAIN files /\ ~HasKey(p, c.key)
      /\ at'[t] = NextInLevel(p)
  BY DEF SearchOn, LookupInv, ThreadInv, ThreadsTyped
<1>2. /\ levels \in Seq(Nat) /\ c.key \in Key /\ AtSearch(c, p, answer[t], Snapshot)
      /\ Snapshot.memtable = memtable /\ Snapshot.levels = levels /\ Snapshot.files = files
  BY <1>1, Searching
<1>3. /\ p \in Nat \X Int /\ p = <<p[1], p[2]>> /\ p[1] \in Nat /\ p[2] \in Int
      /\ p[2] < levels[p[1] + 1]
      /\ \A q \in Passed(p, levels) \cap DOMAIN files : files[q].kv[c.key] = nullopt
  BY <1>1, <1>2 DEF AtSearch
<1> DEFINE n == NextInLevel(p)
<1>4. CASE p[2] < 0
  <2>1. n = LastOf(p[1] + 1) /\ p[1] + 1 \in Nat
    BY <1>3, <1>4 DEF NextInLevel
  <2>2. /\ n \in Nat \X Int /\ n[1] = p[1] + 1
        /\ n[1] < Len(levels) => n[2] = levels[n[1] + 1] - 1 /\ levels[n[1] + 1] \in Nat
    <3>1. \A i \in Nat : i < Len(levels) => levels[i + 1] \in Nat
      BY <1>2
    <3>2. \A i \in Nat : LastOf(i) \in Nat \X Int /\ LastOf(i)[1] = i
                          /\ (i < Len(levels) => LastOf(i)[2] = levels[i + 1] - 1)
      BY <3>1 DEF LastOf
    <3>3. PICK i : i = p[1] + 1
      OBVIOUS
    <3>4. n = LastOf(i) /\ i \in Nat
      BY <2>1, <3>3
    <3> HIDE DEF n
    <3> QED
      BY <3>1, <3>2, <3>3, <3>4
  <2>3. ASSUME NEW q \in Passed(n, levels)
        PROVE  q \in Passed(p, levels)
    <3>1. /\ q \in Tree!Components(levels)
          /\ q[1] \in Nat /\ q[2] \in Nat /\ q[1] < Len(levels) /\ q[2] < levels[q[1] + 1]
          /\ q[1] < n[1] \/ (q[1] = n[1] /\ q[2] > n[2])
      BY <1>2, <2>3, ComponentsAre DEF Passed
    <3>2. q[1] < n[1]
      BY <1>2, <2>2, <3>1
    <3>3. q[1] < p[1] \/ (q[1] = p[1] /\ q[2] > p[2])
      BY <1>3, <1>4, <2>2, <3>1, <3>2
    <3> QED
      BY <3>1, <3>3 DEF Passed
  <2>4. n[1] < Len(levels) => n[2] < levels[n[1] + 1]
    BY <1>2, <2>2
  <2> HIDE DEF n
  <2> QED
    BY <1>1, <1>2, <1>3, <2>2, <2>3, <2>4 DEF AtSearch, n
<1>5. CASE p[2] >= 0
  <2>1. n = <<p[1], p[2] - 1>>
    BY <1>3, <1>5 DEF NextInLevel
  <2>2. n \in Nat \X Int /\ n[1] = p[1] /\ n[2] = p[2] - 1
    BY <1>3, <2>1
  <2>3. files[p].kv[c.key] = nullopt
    BY <1>1, <1>2, <1>5 DEF HasKey, LookupInv, FiltersInv, Sound, Tree!Keys
  <2>4. ASSUME NEW q \in Passed(n, levels)
        PROVE  q \in Passed(p, levels) \/ q = p
    <3>1. /\ q \in Tree!Components(levels) /\ q = <<q[1], q[2]>>
          /\ q[1] \in Nat /\ q[2] \in Nat
          /\ q[1] < n[1] \/ (q[1] = n[1] /\ q[2] > n[2])
      BY <1>2, <2>4, ComponentsAre DEF Passed
    <3>2. q[1] < p[1] \/ (q[1] = p[1] /\ q[2] > p[2]) \/ (q[1] = p[1] /\ q[2] = p[2])
      BY <1>3, <2>2, <3>1
    <3> QED
      BY <1>3, <3>1, <3>2 DEF Passed
  <2>5. n[1] < Len(levels) => n[2] < levels[n[1] + 1]
    BY <1>2, <1>3, <2>2
  <2> HIDE DEF n
  <2> QED
    BY <1>1, <1>2, <1>3, <2>2, <2>3, <2>4, <2>5 DEF AtSearch, n
<1> QED
  BY <1>3, <1>4, <1>5

(* The first table that has the key is the newest.                         *)
LEMMA SearchHitAnswers ==
  ASSUME LookupInv, NEW t \in Thread, SearchHit(t)
  PROVE  Answered(call[t], answer'[t], Snapshot)
<1> DEFINE c == call[t]
           p == at[t]
<1>1. /\ pc[t] = "search" /\ p[1] < Len(levels) /\ p[2] >= 0
      /\ p \in DOMAIN files /\ files[p].kv[c.key] # nullopt
      /\ answer'[t] = Tree!Visible(files[p].kv[c.key])
  BY DEF SearchHit, HasKey, Answers, LookupInv, StageInv
<1>2. /\ levels \in Seq(Nat) /\ c.key \in Key /\ AtSearch(c, p, answer[t], Snapshot)
      /\ Snapshot.memtable = memtable /\ Snapshot.levels = levels /\ Snapshot.files = files
  BY <1>1, Searching
<1>3. p \in Tree!Components(levels)
  <2>1. p = <<p[1], p[2]>> /\ p[1] \in 0 .. Len(levels) - 1 /\ p[2] \in 0 .. levels[p[1] + 1] - 1
    BY <1>1, <1>2 DEF AtSearch
  <2> HIDE DEF p
  <2> QED
    BY <2>1 DEF Tree!Components
<1>4. \A q \in Tree!Components(levels) \cap DOMAIN files :
        Tree!Newer(q, p) => files[q].kv[c.key] = nullopt
  BY <1>2 DEF AtSearch, Passed, Tree!Newer
<1>5. Tree!NewestEntry(files, Tree!Components(levels), c.key) = files[p].kv[c.key]
  <2> DEFINE comps == Tree!Components(levels)
             k == c.key
  <2>1. comps \subseteq Nat \X Nat /\ p \in comps \cap DOMAIN files /\ files[p].kv[k] # nullopt
    BY <1>1, <1>2, <1>3, ComponentsAre
  <2>2. \A q \in comps \cap DOMAIN files : Tree!Newer(q, p) => files[q].kv[k] = nullopt
    BY <1>4
  <2> HIDE DEF comps, p, k
  <2>3. Tree!NewestEntry(files, comps, k) = files[p].kv[k]
    BY <2>1, <2>2, NewestIs
  <2> QED
    BY <2>3 DEF comps, p, k
<1> QED
  BY <1>1, <1>2, <1>5 DEF Answered, AtSearch, LookupIn, Tree!Lookup

LEMMA SearchMissAnswers ==
  ASSUME LookupInv, NEW t \in Thread, SearchMiss(t)
  PROVE  Answered(call[t], answer[t], Snapshot)
<1> DEFINE c == call[t]
           p == at[t]
<1>1. pc[t] = "search" /\ p[1] >= Len(levels)
  BY DEF SearchMiss
<1>2. /\ levels \in Seq(Nat) /\ c.key \in Key /\ AtSearch(c, p, answer[t], Snapshot)
      /\ Snapshot.memtable = memtable /\ Snapshot.levels = levels /\ Snapshot.files = files
  BY <1>1, Searching
<1>3. Tree!Components(levels) \subseteq Passed(p, levels)
  <2> SUFFICES ASSUME NEW q \in Tree!Components(levels) PROVE q[1] < p[1]
    BY DEF Passed
  <2>1. q[1] \in Nat /\ q[1] < Len(levels)
    BY <1>2, ComponentsAre
  <2> QED
    BY <1>1, <1>2, <2>1 DEF AtSearch
<1>4. Tree!NewestEntry(files, Tree!Components(levels), c.key) = nullopt
  BY <1>2, <1>3, NewestOfNone DEF AtSearch
<1>5. LookupIn(Snapshot, c.key) = nullopt
  BY <1>2, <1>4 DEF AtSearch, LookupIn, Tree!Lookup, Tree!Visible
<1> QED
  BY <1>2, <1>5 DEF AtSearch, Answered

----------------------------------------------------------------------------
(* FindRange. *)

LEMMA BeginRangeStage ==
  ASSUME LookupInv, NEW t \in Thread, BeginRange(t)
  PROVE  AtRange(call[t], at'[t], answer'[t], Snapshot)
<1> DEFINE n == <<Len(levels) - 1, 0>>
<1>1. pc[t] = "FindRange" /\ pc[t] \in Within
  BY DEF BeginRange, Within
<1>2. call[t].op = "FindRange" /\ levels \in Seq(Nat)
  <2>1. Snapshot = before /\ before.levels \in Seq(Nat)
    BY <1>1, Inner DEF LookupInv, Progress
  <2> QED
    BY <1>1, <2>1 DEF LookupInv, StageInv, Stage, Snapshot
<1>3. at'[t] = n /\ answer'[t] = Tree!EmptyTable
  BY DEF BeginRange, Answers, LookupInv, ThreadInv, ThreadsTyped, StageInv
<1>4. n \in Int \X Nat /\ n[1] = Len(levels) - 1 /\ n[2] = 0
  BY <1>2
<1> HIDE DEF n
<1>5. Scanned(n, levels) = {}
  <2> SUFFICES ASSUME NEW q \in Scanned(n, levels) PROVE FALSE
    OBVIOUS
  <2>1. /\ q[1] \in Nat /\ q[2] \in Nat /\ q[1] < Len(levels)
        /\ q[1] > n[1] \/ (q[1] = n[1] /\ q[2] < n[2])
    BY <1>2, ComponentsAre DEF Scanned
  <2> QED
    BY <1>2, <1>4, <2>1
<1>6. \A k \in Key : Tree!Visible(Tree!NewestEntry(files, {}, k)) = nullopt
  BY NewestOfNone DEF Tree!Visible
<1>7. Overlay(n, Snapshot) = Tree!EmptyTable
  <2>1. Snapshot.levels = levels /\ Snapshot.files = files
    BY DEF Snapshot
  <2> QED
    BY <1>5, <1>6, <2>1 DEF Overlay, Tree!EmptyTable
<1> QED
  BY <1>2, <1>3, <1>4, <1>7 DEF AtRange

(* What the scan knows at its next table.                                  *)
LEMMA Scanning ==
  ASSUME LookupInv, NEW t \in Thread, pc[t] = "range"
  PROVE  /\ pc[t] \in Within /\ levels \in Seq(Nat)
         /\ AtRange(call[t], at[t], answer[t], Snapshot)
         /\ at[t] \in Int \X Nat
         /\ answer[t] = [k \in Key |->
              Tree!Visible(Tree!NewestEntry(files, Scanned(at[t], levels), k))]
         /\ Snapshot.memtable = memtable /\ Snapshot.levels = levels /\ Snapshot.files = files
<1>1. pc[t] \in Within
  BY DEF Within
<1>2. Snapshot = before /\ before.levels \in Seq(Nat)
  BY <1>1, Inner DEF LookupInv, Progress
<1>3. AtRange(call[t], at[t], answer[t], Snapshot)
  BY <1>1 DEF LookupInv, StageInv, Stage
<1>4. Snapshot.memtable = memtable /\ Snapshot.levels = levels /\ Snapshot.files = files
  BY DEF Snapshot
<1> QED
  BY <1>1, <1>2, <1>3, <1>4 DEF AtRange, Overlay

LEMMA RangeTableStage ==
  ASSUME LookupInv, NEW t \in Thread, RangeTable(t)
  PROVE  AtRange(call[t], at'[t], answer'[t], Snapshot)
<1> DEFINE p == at[t]
           n == <<p[1], p[2] + 1>>
           done == Scanned(p, levels)
<1>1. /\ pc[t] = "range" /\ Counted(p) /\ p \in DOMAIN files
      /\ answer'[t] = Tree!Overlay(answer[t], files[p].kv, Key)
  BY DEF RangeTable, Answers, LookupInv, StageInv
<1>2. /\ levels \in Seq(Nat) /\ AtRange(call[t], p, answer[t], Snapshot) /\ p \in Int \X Nat
      /\ answer[t] = [k \in Key |-> Tree!Visible(Tree!NewestEntry(files, done, k))]
      /\ Snapshot.levels = levels /\ Snapshot.files = files
  BY <1>1, Scanning
<1>3. p = <<p[1], p[2]>> /\ p[1] \in Nat /\ p[2] \in Nat /\ p[1] < Len(levels)
      /\ p[2] < levels[p[1] + 1] /\ p \in Nat \X Nat
  BY <1>1, <1>2 DEF Counted
<1>4. at'[t] = n
  BY <1>2 DEF RangeTable, LookupInv, ThreadInv, ThreadsTyped
<1>5. n \in Int \X Nat /\ n[1] = p[1] /\ n[2] = p[2] + 1
  BY <1>3
<1>6. p \in Tree!Components(levels)
  <2>1. p[1] \in 0 .. Len(levels) - 1 /\ p[2] \in 0 .. levels[p[1] + 1] - 1
    BY <1>2, <1>3
  <2> HIDE DEF p
  <2> QED
    BY <1>3, <2>1 DEF Tree!Components
<1> HIDE DEF n, p
<1>7. Scanned(n, levels) = done \cup {p}
  <2>1. ASSUME NEW q \in Tree!Components(levels)
        PROVE  /\ q = <<q[1], q[2]>>
               /\ (q[1] > n[1] \/ (q[1] = n[1] /\ q[2] < n[2]))
                  <=> (q[1] > p[1] \/ (q[1] = p[1] /\ q[2] < p[2])) \/ (q[1] = p[1] /\ q[2] = p[2])
    <3>1. q = <<q[1], q[2]>> /\ q[1] \in Nat /\ q[2] \in Nat
      BY <1>2, <2>1, ComponentsAre
    <3> QED
      BY <1>3, <1>5, <3>1
  <2>2. ASSUME NEW q \in Scanned(n, levels) PROVE q \in done \cup {p}
    BY <1>3, <2>1, <2>2 DEF Scanned
  <2>3. ASSUME NEW q \in done \cup {p} PROVE q \in Scanned(n, levels)
    BY <1>3, <1>6, <2>1, <2>3 DEF Scanned
  <2> QED
    BY <2>2, <2>3
<1>8. done \subseteq Nat \X Nat /\ \A q \in done : Tree!Newer(p, q)
  BY <1>2, <1>3, ComponentsAre DEF Scanned, Tree!Newer
<1> HIDE DEF done
<1>9. \A k \in Key : Tree!NewestEntry(files, done \cup {p}, k)
        = IF files[p].kv[k] # nullopt THEN files[p].kv[k] ELSE Tree!NewestEntry(files, done, k)
  BY <1>1, <1>3, <1>8, NewestWith
<1>10. answer'[t] = Overlay(n, Snapshot)
  <2> DEFINE kv == files[p].kv
  <2>1. Overlay(n, Snapshot)
          = [k \in Key |-> Tree!Visible(Tree!NewestEntry(files, done \cup {p}, k))]
    BY <1>2, <1>7 DEF Overlay
  <2>2. answer'[t] = [k \in Key |-> IF kv[k] # nullopt THEN Tree!Visible(kv[k])
                                    ELSE Tree!Visible(Tree!NewestEntry(files, done, k))]
    BY <1>1, <1>2 DEF Tree!Overlay, Tree!Keys
  <2>3. \A k \in Key : Tree!Visible(Tree!NewestEntry(files, done \cup {p}, k))
          = IF kv[k] # nullopt THEN Tree!Visible(kv[k])
            ELSE Tree!Visible(Tree!NewestEntry(files, done, k))
    BY <1>9
  <2> HIDE DEF kv
  <2> QED
    BY <2>1, <2>2, <2>3
<1> QED
  BY <1>2, <1>4, <1>5, <1>10 DEF AtRange

LEMMA RangeNextLevelStage ==
  ASSUME LookupInv, NEW t \in Thread, RangeNextLevel(t)
  PROVE  AtRange(call[t], at'[t], answer[t], Snapshot)
<1> DEFINE p == at[t]
           n == <<p[1] - 1, 0>>
<1>1. pc[t] = "range" /\ p[1] >= 0 /\ ~Counted(p)
  BY DEF RangeNextLevel
<1>2. /\ levels \in Seq(Nat) /\ AtRange(call[t], p, answer[t], Snapshot) /\ p \in Int \X Nat
      /\ Snapshot.levels = levels
  BY <1>1, Scanning
<1>3. at'[t] = n
  BY DEF RangeNextLevel, LookupInv, ThreadInv, ThreadsTyped
<1>4. n \in Int \X Nat /\ n[1] = p[1] - 1 /\ n[2] = 0 /\ p[1] \in Nat /\ p[2] \in Nat
  BY <1>1, <1>2
<1>5. Scanned(n, levels) = Scanned(p, levels)
  <2>1. ASSUME NEW q \in Tree!Components(levels)
        PROVE  (q[1] > n[1] \/ (q[1] = n[1] /\ q[2] < n[2]))
                 <=> (q[1] > p[1] \/ (q[1] = p[1] /\ q[2] < p[2]))
    <3>1. /\ q[1] \in Nat /\ q[2] \in Nat /\ q[1] < Len(levels) /\ q[2] < levels[q[1] + 1]
          /\ levels[q[1] + 1] \in Nat
      BY <1>2, <2>1, ComponentsAre
    <3>2. q[1] = p[1] => q[2] < p[2]
      BY <1>1, <1>4, <3>1 DEF Counted
    <3> HIDE DEF p, n
    <3> QED
      BY <1>4, <3>1, <3>2
  <2> HIDE DEF p, n
  <2> QED
    BY <2>1 DEF Scanned
<1> HIDE DEF n
<1> QED
  BY <1>2, <1>3, <1>4, <1>5 DEF AtRange, Overlay

(* When the levels are done, only the memtable is newer.                   *)
LEMMA RangeMemtableAnswers ==
  ASSUME LookupInv, NEW t \in Thread, RangeMemtable(t)
  PROVE  Answered(call[t], answer'[t], Snapshot)
<1> DEFINE p == at[t]
<1>1. /\ pc[t] = "range" /\ p[1] < 0
      /\ answer'[t] = Tree!Overlay(answer[t], memtable, Key)
  BY DEF RangeMemtable, Answers, LookupInv, StageInv
<1>2. /\ levels \in Seq(Nat) /\ AtRange(call[t], p, answer[t], Snapshot) /\ p \in Int \X Nat
      /\ answer[t] = [k \in Key |->
           Tree!Visible(Tree!NewestEntry(files, Scanned(p, levels), k))]
      /\ Snapshot.memtable = memtable /\ Snapshot.levels = levels /\ Snapshot.files = files
  BY <1>1, Scanning
<1>3. Scanned(p, levels) = Tree!Components(levels)
  <2>1. ASSUME NEW q \in Tree!Components(levels) PROVE q[1] > p[1]
    <3>1. q[1] \in Nat
      BY <1>2, <2>1, ComponentsAre
    <3> QED
      BY <1>1, <1>2, <3>1
  <2> QED
    BY <2>1 DEF Scanned
<1>4. answer'[t] = [k \in Key |-> LookupIn(Snapshot, k)]
  BY <1>1, <1>2, <1>3 DEF LookupIn, Tree!Lookup, Tree!Overlay, Tree!Keys
<1> QED
  BY <1>2, <1>4 DEF AtRange, Answered

----------------------------------------------------------------------------
(* Every step. *)

(* A thread outside has nothing to keep; one inside that does not step     *)
(* keeps its stage, as the tree is left alone by all but the holder.       *)
LEMMA OthersStage ==
  ASSUME LookupInv, ThreadInv', DOMAIN answer' = Thread,
         \A u \in Thread : pc'[u] \in Within => pc[u] \in Within,
         \A u \in Thread : pc'[u] \in Within =>
           UNCHANGED <<pc[u], call[u], at[u], answer[u], Snapshot>>
  PROVE  StageInv'
<1> SUFFICES ASSUME NEW u \in Thread, pc'[u] \in Within
             PROVE  Stage(pc'[u], call'[u], at'[u], answer'[u], Snapshot')
  BY DEF StageInv
<1> QED
  BY DEF LookupInv, StageInv

(* A step of the holder: the others are outside.                           *)
LEMMA HolderStage ==
  ASSUME LookupInv, ThreadInv', DOMAIN answer' = Thread, NEW t \in Thread, mtx_' = t,
         Stage(pc'[t], call'[t], at'[t], answer'[t], Snapshot')
  PROVE  StageInv'
<1> SUFFICES ASSUME NEW u \in Thread, pc'[u] \in Within PROVE u = t
  BY DEF StageInv
<1> QED
  BY DEF ThreadInv, Mutex

LEMMA ReadStage ==
  ASSUME LookupInv, ThreadInv', NEW t \in Thread, ReadStep(t) \/ LookupThrows(t)
  PROVE  StageInv'
<1> DEFINE c == call[t]
<1>1. /\ pc[t] \in Within /\ UNCHANGED <<tree, mtx_, call>> /\ DOMAIN answer' = Thread
  BY DEF ReadStep, LookupThrows, FindInMemtable, SearchOn, SearchHit, SearchMiss,
         BeginRange, RangeTable, RangeNextLevel, RangeMemtable, Within, Answers,
         LookupInv, StageInv
<1>2. mtx_' = t /\ call' = call /\ Snapshot' = Snapshot
  BY <1>1, Inner DEF LookupInv, Snapshot, tree
<1> SUFFICES Stage(pc'[t], c, at'[t], answer'[t], Snapshot)
  BY <1>1, <1>2, HolderStage
<1>3. CASE FindInMemtable(t)
  BY <1>3, FindInMemtableStage
<1>4. CASE SearchOn(t)
  <2>1. pc'[t] = "search" /\ answer' = answer
    BY <1>4 DEF SearchOn
  <2> QED
    BY <1>4, <2>1, SearchOnStage DEF Stage
<1>5. ASSUME pc'[t] = "unlock", Answered(c, answer'[t], Snapshot)
      PROVE  Stage(pc'[t], c, at'[t], answer'[t], Snapshot)
  BY <1>5 DEF Stage
<1>6. CASE SearchHit(t)
  <2>1. pc'[t] = "unlock"
    BY <1>6 DEF SearchHit, Goto, LookupInv, ThreadInv, ThreadsTyped
  <2> QED
    BY <1>5, <1>6, <2>1, SearchHitAnswers
<1>7. CASE SearchMiss(t)
  <2>1. pc'[t] = "unlock" /\ answer' = answer
    BY <1>7 DEF SearchMiss, Goto, LookupInv, ThreadInv, ThreadsTyped
  <2> QED
    BY <1>5, <1>7, <2>1, SearchMissAnswers
<1>8. CASE BeginRange(t)
  <2>1. pc'[t] = "range"
    BY <1>8 DEF BeginRange, Goto, LookupInv, ThreadInv, ThreadsTyped
  <2> QED
    BY <1>8, <2>1, BeginRangeStage DEF Stage
<1>9. CASE RangeTable(t)
  <2>1. pc'[t] = "range"
    BY <1>9 DEF RangeTable
  <2> QED
    BY <1>9, <2>1, RangeTableStage DEF Stage
<1>10. CASE RangeNextLevel(t)
  <2>1. pc'[t] = "range" /\ answer' = answer
    BY <1>10 DEF RangeNextLevel
  <2> QED
    BY <1>10, <2>1, RangeNextLevelStage DEF Stage
<1>11. CASE RangeMemtable(t)
  <2>1. pc'[t] = "unlock"
    BY <1>11 DEF RangeMemtable, Goto, LookupInv, ThreadInv, ThreadsTyped
  <2> QED
    BY <1>5, <1>11, <2>1, RangeMemtableAnswers
<1>12. CASE LookupThrows(t)
  <2>1. pc'[t] = "unlock" /\ answer'[t] = exception
    BY <1>12 DEF LookupThrows, Goto, Answers, LookupInv, ThreadInv, ThreadsTyped, StageInv
  <2> QED
    BY <1>5, <2>1 DEF Answered
<1> QED
  BY <1>3, <1>4, <1>6, <1>7, <1>8, <1>9, <1>10, <1>11, <1>12 DEF ReadStep

LEMMA WriteStage ==
  ASSUME LookupInv, ThreadInv', NEW t \in Thread,
         WriteStep(t) \/ FlushThrows(t) \/ MergeThrows(t)
  PROVE  StageInv'
<1> DEFINE places == {"Insert", "flush", "count", "merge", "reset", "unlink"}
<1>1. /\ pc[t] \in places /\ pc[t] \in Within /\ UNCHANGED <<mtx_, call, answer>>
      /\ pc'[t] \in places \cup {"unlock"}
  BY DEF WriteStep, FlushThrows, MergeThrows, WriteMemtable, Flush, CountNothing, Count, Merge,
         MergeUnwritten, Reset, Unlink, UnlinkedAll, Within, Goto, tree, LookupInv, ThreadInv, ThreadsTyped
<1>2. call[t].op = "Insert" /\ DOMAIN answer = Thread
  BY <1>1 DEF LookupInv, StageInv, Stage
<1>3. mtx_' = t
  BY <1>1, Inner DEF LookupInv
<1>4. Stage(pc'[t], call'[t], at'[t], answer'[t], Snapshot')
  BY <1>1, <1>2 DEF Stage, Answered
<1> QED
  BY <1>1, <1>2, <1>3, <1>4, HolderStage

LEMMA OutsideStage ==
  ASSUME LookupInv, ThreadInv', NEW t \in Thread,
         Unlock(t) \/ Return(t) \/ \E c \in Abstract!Calls : Call(t, c)
  PROVE  StageInv'
<1>1. /\ pc'[t] \in {"returned", "idle", "lock"} /\ DOMAIN answer' = Thread
      /\ \A u \in Thread : u # t => UNCHANGED <<pc[u], call[u], at[u], answer[u]>>
      /\ UNCHANGED <<memtable, levels, files>>
  BY DEF Unlock, Return, Call, Goto, tree, LookupInv, ThreadInv, ThreadsTyped, StageInv
<1>2. pc'[t] \notin Within /\ Snapshot' = Snapshot
  BY <1>1 DEF Within, Snapshot
<1> QED
  BY <1>1, <1>2, OthersStage

LEMMA LockStage ==
  ASSUME LookupInv, ThreadInv', NEW t \in Thread, Lock(t)
  PROVE  StageInv'
<1>1. /\ mtx_' = t /\ UNCHANGED <<call, at, answer>> /\ pc'[t] = call[t].op /\ pc[t] = "lock"
  BY DEF Lock, Acquire, Goto, LookupInv, ThreadInv, ThreadsTyped
<1>2. call[t].op \in {"Insert", "Find", "FindRange"}
  BY <1>1 DEF LookupInv, ThreadInv, ThreadsTyped, Abstract!Calls
<1>3. Stage(pc'[t], call'[t], at'[t], answer'[t], Snapshot')
  BY <1>1, <1>2 DEF Stage
<1>4. DOMAIN answer' = Thread
  BY <1>1 DEF LookupInv, StageInv
<1> QED
  BY <1>1, <1>3, <1>4, HolderStage

LEMMA LookupStep ==
  ASSUME LookupInv, [Next]_vars
  PROVE  LookupInv'
<1>1. ThreadInv' /\ FiltersInv'
  BY ThreadStep, FiltersStep DEF LookupInv
<1>2. StageInv'
  <2>1. CASE Session
    <3>1. pc' = pc /\ answer' = answer /\ \A u \in Thread : pc[u] \notin Within
      BY <2>1 DEF Session, Within
    <3> QED
      BY <3>1 DEF LookupInv, StageInv
  <2>2. CASE UNCHANGED vars
    <3>1. Snapshot' = Snapshot /\ UNCHANGED <<pc, call, at, answer>>
      BY <2>2 DEF vars, Snapshot
    <3> QED
      BY <3>1 DEF LookupInv, StageInv
  <2> QED
    BY <1>1, <2>1, <2>2, ReadStage, WriteStage, OutsideStage, LockStage
    DEF Next, Step, Throw
<1> QED
  BY <1>1, <1>2 DEF LookupInv

LEMMA LookupInvAlways == Spec => []LookupInv
<1>1. Init => LookupInv
  <2>1. Init => FiltersInv /\ StageInv
    BY DEF Init, Tree!Init, FiltersInv, StageInv, Within
  <2> QED
    BY <2>1, ThreadInit DEF LookupInv
<1>2. LookupInv /\ [Next]_vars => LookupInv'
  BY LookupStep
<1> QED
  BY <1>1, <1>2, PTL DEF Spec

(* Find and FindRange answer the newest entries, for every set of threads, *)
(* keys and values, every filter, factor and limit, and whatever fails.    *)
THEOREM LookupsAnswerNewest == Spec => []AnswersAreCurrent
<1>1. LookupInv => AnswersAreCurrent
  <2> SUFFICES ASSUME LookupInv, NEW t \in Thread, pc[t] = "unlock"
               PROVE  /\ call[t].op = "Find" =>
                            answer[t] \in {exception, Tree!Contents[call[t].key]}
                      /\ call[t].op = "FindRange" => answer[t] \in {exception, Tree!Contents}
    BY DEF AnswersAreCurrent
  <2>1. pc[t] \in Within
    BY DEF Within
  <2>2. call[t] \in Abstract!Calls /\ open
    BY <2>1, Inner DEF LookupInv
  <2>3. Answered(call[t], answer[t], Snapshot)
    BY <2>1 DEF LookupInv, StageInv, Stage
  <2>4. Tree!Contents = [k \in Key |-> LookupIn(Snapshot, k)]
    BY <2>2 DEF Tree!Contents, Tree!ContentsOf, LookupIn, Snapshot
  <2>5. call[t].op = "Find" => call[t].key \in Key
    BY <2>2 DEF Abstract!Calls
  <2> QED
    BY <2>3, <2>4, <2>5 DEF Answered
<1> QED
  BY <1>1, LookupInvAlways, PTL

----------------------------------------------------------------------------
(* Linearizability.  What is proved of LSMTree holds of the tree that is   *)
(* seen between two holders of the mutex, so that an operation takes its   *)
(* effect when it unlocks, and a lookup answers from that tree.            *)

Sequential == INSTANCE LSMTree_proofs WITH
  memtable <- Seen.memtable, levels <- Seen.levels, files <- Seen.files

LEMMA SequentialAssumptions ==
  /\ Sequential!SentinelAssumption /\ Sequential!ParameterAssumption
  /\ Sequential!SavedTreeAssumption
BY TreeAssumption
DEF Tree!SentinelAssumption, Tree!ParameterAssumption, Tree!SavedTreeAssumption,
    Tree!SavedTree, Tree!Table, Tree!Entry,
    Sequential!SentinelAssumption, Sequential!ParameterAssumption,
    Sequential!SavedTreeAssumption, Sequential!SavedTree, Sequential!Table, Sequential!Entry

LEMMA SequentialFull == \A mem : Atomic!Full(mem) <=> Sequential!Full(mem)
<1>1. \A mem : Atomic!Keys(mem) = Sequential!Keys(mem)
  BY DEF Atomic!Keys, Sequential!Keys
<1> TAKE mem
<1>2. Atomic!Cardinality(Atomic!Keys(mem)) = Sequential!Cardinality(Sequential!Keys(mem))
  BY <1>1 DEF Atomic!Cardinality, Sequential!Cardinality
<1> QED
  BY <1>2 DEF Atomic!Full, Sequential!Full

LEMMA SequentialOperators ==
  /\ Atomic!EmptyTable = Sequential!EmptyTable /\ Atomic!ZeroBytes = Sequential!ZeroBytes
  /\ Atomic!Entry = Sequential!Entry
  /\ \A k, e : Atomic!Written(k, e) = Sequential!Written(k, e)
  /\ \A mem : Atomic!FlushedTable(mem) = Sequential!FlushedTable(mem)
  /\ \A mem : Atomic!FlushedFiles(mem) = Sequential!FlushedFiles(mem)
  /\ Atomic!FlushedLevels = Sequential!FlushedLevels
  /\ Atomic!LevelFilled <=> Sequential!LevelFilled
  /\ \A fs, path, sst : Atomic!Stored(fs, path, sst) = Sequential!Stored(fs, path, sst)
  /\ \A fs, paths : Atomic!Unlinked(fs, paths) = Sequential!Unlinked(fs, paths)
  /\ \A lv, level : Atomic!Grown(lv, level) = Sequential!Grown(lv, level)
  /\ \A lv, level : Atomic!LastComponent(lv, level) = Sequential!LastComponent(lv, level)
  /\ \A lv, level : Atomic!IsCompactionTarget(lv, level) = Sequential!IsCompactionTarget(lv, level)
  /\ \A lv, level : Atomic!Inputs(lv, level) = Sequential!Inputs(lv, level)
  /\ \A level : Atomic!ConsumedPaths(level) = Sequential!ConsumedPaths(level)
<1> USE DEF Atomic!EmptyTable, Sequential!EmptyTable, Atomic!ZeroBytes, Sequential!ZeroBytes,
            Atomic!Entry, Sequential!Entry, Atomic!Written, Sequential!Written,
            Atomic!FlushedTable, Sequential!FlushedTable, Atomic!MakeSSTable, Sequential!MakeSSTable,
            Atomic!SkipDeleted, Sequential!SkipDeleted, Atomic!FilterOf, Sequential!FilterOf,
            Atomic!Keys, Sequential!Keys, Atomic!FlushedFiles, Sequential!FlushedFiles,
            Atomic!FlushedLevels, Sequential!FlushedLevels, Atomic!LevelFilled, Sequential!LevelFilled,
            Atomic!Stored, Sequential!Stored, Atomic!Unlinked, Sequential!Unlinked,
            Atomic!Grown, Sequential!Grown, Atomic!CreatedJustNow, Sequential!CreatedJustNow,
            Atomic!LastComponent, Sequential!LastComponent,
            Atomic!IsCompactionTarget, Sequential!IsCompactionTarget,
            Atomic!Inputs, Sequential!Inputs, Atomic!Components, Sequential!Components,
            Atomic!ConsumedPaths, Sequential!ConsumedPaths
<1>1. /\ Atomic!EmptyTable = Sequential!EmptyTable /\ Atomic!ZeroBytes = Sequential!ZeroBytes
      /\ Atomic!Entry = Sequential!Entry
      /\ \A k, e : Atomic!Written(k, e) = Sequential!Written(k, e)
  OBVIOUS
<1>2. \A mem : Atomic!FlushedTable(mem) = Sequential!FlushedTable(mem)
  OBVIOUS
<1>3. \A mem : Atomic!FlushedFiles(mem) = Sequential!FlushedFiles(mem)
  OBVIOUS
<1>4. /\ Atomic!FlushedLevels = Sequential!FlushedLevels
      /\ Atomic!LevelFilled <=> Sequential!LevelFilled
  OBVIOUS
<1>5. /\ \A fs, path, sst : Atomic!Stored(fs, path, sst) = Sequential!Stored(fs, path, sst)
      /\ \A fs, paths : Atomic!Unlinked(fs, paths) = Sequential!Unlinked(fs, paths)
      /\ \A lv, level : Atomic!Grown(lv, level) = Sequential!Grown(lv, level)
      /\ \A lv, level : Atomic!LastComponent(lv, level) = Sequential!LastComponent(lv, level)
  OBVIOUS
<1>6. /\ \A lv, level : Atomic!IsCompactionTarget(lv, level) = Sequential!IsCompactionTarget(lv, level)
      /\ \A lv, level : Atomic!Inputs(lv, level) = Sequential!Inputs(lv, level)
      /\ \A level : Atomic!ConsumedPaths(level) = Sequential!ConsumedPaths(level)
  OBVIOUS
<1> QED
  BY <1>1, <1>2, <1>3, <1>4, <1>5, <1>6

LEMMA SequentialMerges ==
  /\ \A lv, fs, level : Atomic!MergedTables(lv, fs, level) = Sequential!MergedTables(lv, fs, level)
  /\ \A lv, level, sst :
       Atomic!CompactedLevels(lv, level, sst) = Sequential!CompactedLevels(lv, level, sst)
<1>1. \A lv, fs, level : Atomic!MergedTables(lv, fs, level) = Sequential!MergedTables(lv, fs, level)
  BY DEF Sequential!MergedTables, Atomic!MergedTables, Sequential!MergedTable, Atomic!MergedTable,
         Sequential!MergedKV, Atomic!MergedKV, Sequential!MergedEntry, Atomic!MergedEntry,
         Sequential!NewestEntry, Atomic!NewestEntry, Sequential!Newest, Atomic!Newest,
         Sequential!Newer, Atomic!Newer, Sequential!Holding, Atomic!Holding,
         Sequential!SkipDeleted, Atomic!SkipDeleted, Sequential!FilterOf, Atomic!FilterOf,
         Sequential!CreatedJustNow, Atomic!CreatedJustNow, Sequential!Inputs, Atomic!Inputs,
         Sequential!Components, Atomic!Components, Sequential!Keys, Atomic!Keys,
         Sequential!EmptyTable, Atomic!EmptyTable, Sequential!Table, Atomic!Table,
         Sequential!Entry, Atomic!Entry
<1>2. \A lv, level, sst :
        Atomic!CompactedLevels(lv, level, sst) = Sequential!CompactedLevels(lv, level, sst)
  BY DEF Sequential!CompactedLevels, Atomic!CompactedLevels, Sequential!Grown, Atomic!Grown,
         Sequential!CreatedJustNow, Atomic!CreatedJustNow, Sequential!ZeroBytes, Atomic!ZeroBytes,
         Sequential!EmptyTable, Atomic!EmptyTable
<1> QED
  BY <1>1, <1>2

LEMMA SequentialContents == Atomic!Contents = Sequential!Contents
BY DEF Sequential!Contents, Atomic!Contents, Sequential!ContentsOf, Atomic!ContentsOf,
       Sequential!Lookup, Atomic!Lookup, Sequential!Visible, Atomic!Visible,
       Sequential!NewestEntry, Atomic!NewestEntry, Sequential!Newest, Atomic!Newest,
       Sequential!Newer, Atomic!Newer, Sequential!Holding, Atomic!Holding,
       Sequential!Components, Atomic!Components, Sequential!EmptyTable, Atomic!EmptyTable

LEMMA SequentialInsert ==
  ASSUME NEW k, NEW e, Atomic!Insert(k, e)
  PROVE  Sequential!Insert(k, e)
<1>1. CASE Atomic!InsertBuffered(k, e)
  BY <1>1, SequentialFull, SequentialOperators
  DEF Atomic!InsertBuffered, Sequential!InsertBuffered, Sequential!Insert
<1>2. CASE Atomic!InsertFlushThrows(k, e)
  BY <1>2, SequentialFull, SequentialOperators
  DEF Atomic!InsertFlushThrows, Sequential!InsertFlushThrows, Sequential!Insert
<1>3. CASE Atomic!InsertFlushedNothing(k, e)
  BY <1>3, SequentialFull, SequentialOperators
  DEF Atomic!InsertFlushedNothing, Sequential!InsertFlushedNothing, Sequential!Insert
<1>4. CASE Atomic!InsertFlushed(k, e)
  BY <1>4, SequentialFull, SequentialOperators
  DEF Atomic!InsertFlushed, Sequential!InsertFlushed, Sequential!Insert
<1>5. Atomic!InsertFillsLevel(k, e) => Sequential!InsertFillsLevel(k, e)
  BY SequentialFull, SequentialOperators DEF Atomic!InsertFillsLevel, Sequential!InsertFillsLevel
<1>6. CASE Atomic!InsertCompacted(k, e)
  BY <1>5, <1>6, SequentialOperators, SequentialMerges
  DEF Atomic!InsertCompacted, Sequential!InsertCompacted, Sequential!Insert
<1>7. CASE Atomic!InsertCompactionThrows(k, e)
  BY <1>5, <1>7, SequentialOperators
  DEF Atomic!InsertCompactionThrows, Sequential!InsertCompactionThrows, Sequential!Insert,
      Atomic!AfterThrow, Sequential!AfterThrow
<1>8. CASE Atomic!InsertCompactedUnwritten(k, e)
  BY <1>5, <1>8, SequentialOperators, SequentialMerges
  DEF Atomic!InsertCompactedUnwritten, Sequential!InsertCompactedUnwritten, Sequential!Insert
<1> QED
  BY <1>1, <1>2, <1>3, <1>4, <1>6, <1>7, <1>8 DEF Atomic!Insert

LEMMA SequentialStep ==
  ASSUME [Atomic!Next]_(Atomic!vars)
  PROVE  [Sequential!Next]_(Sequential!vars)
<1>1. CASE Atomic!Create
  BY <1>1, SequentialOperators DEF Atomic!Create, Sequential!Create, Sequential!Next
<1>2. CASE Atomic!Load
  BY <1>2 DEF Atomic!Load, Sequential!Load, Sequential!Next
<1>3. CASE Atomic!Close
  BY <1>3, SequentialOperators
  DEF Atomic!Close, Atomic!Destroyed, Sequential!Close, Sequential!Destroyed, Sequential!Next
<1>4. CASE Atomic!CloseUnsaved
  BY <1>4, SequentialOperators
  DEF Atomic!CloseUnsaved, Atomic!Destroyed, Sequential!CloseUnsaved, Sequential!Destroyed,
      Sequential!Next
<1>5. ASSUME NEW k \in Key, NEW e \in Atomic!Entry, Atomic!Insert(k, e)
      PROVE  Sequential!Next
  BY <1>5, SequentialInsert, SequentialOperators DEF Sequential!Next
<1>6. CASE UNCHANGED Atomic!vars
  BY <1>6 DEF Atomic!vars, Sequential!vars
<1> QED
  BY <1>1, <1>2, <1>3, <1>4, <1>5, <1>6 DEF Atomic!Next

(* What is proved of LSMTree, for the tree that is seen.                   *)
SeenInv == Sequential!TypeOK /\ Sequential!ComponentsReadable

LEMMA SeenAlways ==
  ASSUME Faults \subseteq {"flush", "reader"}
  PROVE  Spec => []SeenInv
<1>1. Atomic!Init => Sequential!Init
  BY SequentialOperators DEF Atomic!Init, Sequential!Init
<1>2. [Atomic!Next]_(Atomic!vars) => [Sequential!Next]_(Sequential!vars)
  BY SequentialStep
<1>3. Atomic!Spec => Sequential!Spec
  BY <1>1, <1>2, PTL DEF Atomic!Spec, Sequential!Spec
<1>4. Sequential!SafeFaults
  BY DEF Sequential!SafeFaults
<1>5. Sequential!Spec => []Sequential!TypeOK
  BY Sequential!TypeCorrect, SequentialAssumptions, PTL
<1>6. Sequential!Spec => []Sequential!ComponentsReadable
  BY <1>4, Sequential!ReadableAlways, SequentialAssumptions, PTL
<1> QED
  BY <1>3, <1>5, <1>6, ThreadsImplementTree, PTL DEF ImplementsLSMTree, SeenInv

(* Until it has an answer of its own, a call has none; a write never does. *)
Unanswered == \A t \in Thread :
  pc[t] \in {"idle", "lock"} \/ (pc[t] \in Within /\ call[t].op = "Insert") => answer[t] = nullopt

(* What a step of a thread leaves alone.                                   *)
LEMMA WriterSteps ==
  ASSUME LookupInv, NEW t \in Thread, WriteStep(t) \/ FlushThrows(t) \/ MergeThrows(t)
  PROVE  /\ pc[t] \in Within /\ pc'[t] \in Within /\ call[t].op = "Insert"
         /\ \A u \in Thread \ {t} : pc'[u] = pc[u]
         /\ UNCHANGED <<call, answer, open>>
<1> DEFINE places == {"Insert", "flush", "count", "merge", "reset", "unlink"}
<1>1. pc[t] \in places /\ pc'[t] \in places \cup {"unlock"}
      /\ \A u \in Thread \ {t} : pc'[u] = pc[u]
  BY DEF WriteStep, FlushThrows, MergeThrows, WriteMemtable, Flush, CountNothing, Count, Merge,
         MergeUnwritten, Reset, Unlink, UnlinkedAll, Goto, LookupInv, ThreadInv, ThreadsTyped
<1>2. UNCHANGED <<call, answer, open>>
  BY DEF WriteStep, FlushThrows, MergeThrows, WriteMemtable, Flush, CountNothing, Count, Merge,
         MergeUnwritten, Reset, Unlink, UnlinkedAll, tree
<1>3. pc[t] \in Within /\ pc'[t] \in Within
  BY <1>1 DEF Within
<1>4. call[t].op = "Insert"
  BY <1>1, <1>3 DEF LookupInv, StageInv, Stage
<1> QED
  BY <1>1, <1>2, <1>3, <1>4

LEMMA ReaderSteps ==
  ASSUME LookupInv, NEW t \in Thread, ReadStep(t) \/ LookupThrows(t)
  PROVE  /\ pc[t] \in Within /\ pc'[t] \in Within /\ call[t].op # "Insert"
         /\ \A u \in Thread \ {t} : pc'[u] = pc[u] /\ answer'[u] = answer[u]
         /\ UNCHANGED <<call, open>>
<1> DEFINE places == {"Find", "FindRange", "search", "range"}
<1>1. pc[t] \in places /\ pc'[t] \in {"search", "range", "unlock"}
      /\ \A u \in Thread \ {t} : pc'[u] = pc[u]
  BY DEF ReadStep, LookupThrows, FindInMemtable, SearchOn, SearchHit, SearchMiss,
         BeginRange, RangeTable, RangeNextLevel, RangeMemtable, Goto,
         LookupInv, ThreadInv, ThreadsTyped
<1>2. /\ \A u \in Thread \ {t} : answer'[u] = answer[u]
      /\ UNCHANGED <<call, open>>
  BY DEF ReadStep, LookupThrows, FindInMemtable, SearchOn, SearchHit, SearchMiss,
         BeginRange, RangeTable, RangeNextLevel, RangeMemtable, Answers, tree,
         LookupInv, StageInv
<1>3. pc[t] \in Within /\ pc'[t] \in Within
  BY <1>1 DEF Within
<1>4. call[t].op # "Insert"
  BY <1>1, <1>3, Inner DEF LookupInv, Progress
<1> QED
  BY <1>1, <1>2, <1>3, <1>4

LEMMA UnansweredStep ==
  ASSUME LookupInv, Unanswered, [Next]_vars
  PROVE  Unanswered'
<1>0. /\ pc \in [Thread -> Outside \cup Within] /\ DOMAIN call = Thread /\ DOMAIN answer = Thread
      /\ "idle" \notin Within /\ "lock" \notin Within /\ "returned" \notin Within
  BY DEF LookupInv, ThreadInv, ThreadsTyped, StageInv, Within
<1>1. CASE Session \/ UNCHANGED vars
  BY <1>1 DEF Session, vars, Unanswered
<1>2. ASSUME NEW t \in Thread, Lock(t) PROVE Unanswered'
  <2>1. pc[t] = "lock" /\ pc' = [pc EXCEPT ![t] = call[t].op] /\ UNCHANGED <<call, answer>>
    BY <1>2 DEF Lock, Goto
  <2> QED
    BY <1>0, <2>1 DEF Unanswered
<1>3. ASSUME NEW t \in Thread, WriteStep(t) \/ FlushThrows(t) \/ MergeThrows(t) PROVE Unanswered'
  BY <1>0, <1>3, WriterSteps DEF Unanswered
<1>4. ASSUME NEW t \in Thread, ReadStep(t) \/ LookupThrows(t) PROVE Unanswered'
  BY <1>0, <1>4, ReaderSteps DEF Unanswered
<1>5. ASSUME NEW t \in Thread, Unlock(t) PROVE Unanswered'
  <2>1. pc' = [pc EXCEPT ![t] = "returned"] /\ UNCHANGED <<call, answer>>
    BY <1>5 DEF Unlock, Goto
  <2> QED
    BY <1>0, <2>1 DEF Unanswered
<1>6. ASSUME NEW t \in Thread, Return(t) PROVE Unanswered'
  <2>1. /\ pc' = [pc EXCEPT ![t] = "idle"] /\ call' = [call EXCEPT ![t] = nullopt]
        /\ answer' = [answer EXCEPT ![t] = nullopt]
    BY <1>6 DEF Return, Goto
  <2> QED
    BY <1>0, <2>1 DEF Unanswered
<1>7. ASSUME NEW t \in Thread, NEW c \in Abstract!Calls, Call(t, c) PROVE Unanswered'
  <2>1. /\ pc[t] = "idle" /\ pc' = [pc EXCEPT ![t] = "lock"] /\ call' = [call EXCEPT ![t] = c]
        /\ answer' = answer
    BY <1>7 DEF Call, Goto
  <2> QED
    BY <1>0, <2>1 DEF Unanswered
<1> QED
  BY <1>1, <1>2, <1>3, <1>4, <1>5, <1>6, <1>7 DEF Next, Step, Throw

----------------------------------------------------------------------------
(* Each step as it is seen by the callers. *)

StatusOf(place) ==
  IF place = "idle" THEN "idle" ELSE IF place = "returned" THEN "done" ELSE "called"

LEMMA Moves ==
  ASSUME pc \in [Thread -> Outside \cup Within], NEW t \in Thread, NEW place,
         pc' = [pc EXCEPT ![t] = place], \A u \in Thread \ {t} : answer'[u] = answer[u]
  PROVE  /\ Status[t] = StatusOf(pc[t])
         /\ Status' = [Status EXCEPT ![t] = StatusOf(place)]
         /\ Returned' = [Returned EXCEPT ![t] = IF place = "returned" THEN answer'[t] ELSE nullopt]
<1>1. pc'[t] = place /\ \A u \in Thread \ {t} : pc'[u] = pc[u]
  OBVIOUS
<1>2. Status[t] = StatusOf(pc[t])
  BY DEF Status, StatusOf
<1>3. Status' = [Status EXCEPT ![t] = StatusOf(place)]
  BY <1>1 DEF Status, StatusOf
<1>4. Returned' = [Returned EXCEPT ![t] = IF place = "returned" THEN answer'[t] ELSE nullopt]
  BY <1>1 DEF Returned
<1> QED
  BY <1>2, <1>3, <1>4

LEMMA SameContents ==
  ASSUME UNCHANGED Atomic!vars
  PROVE  UNCHANGED <<Atomic!Contents, open>>
BY DEF Atomic!vars, Atomic!Contents, Atomic!ContentsOf, Atomic!Lookup, Atomic!NewestEntry,
       Atomic!Newest, Atomic!Newer, Atomic!Holding, Atomic!Components

(* Between locking and unlocking the callers see nothing.                  *)
LEMMA InsideStutters ==
  ASSUME LookupInv, NEW t \in Thread, pc[t] \in Within \cup {"lock"}, pc'[t] \in Within,
         \A u \in Thread \ {t} : pc'[u] = pc[u] /\ answer'[u] = answer[u],
         call' = call, UNCHANGED Atomic!vars
  PROVE  UNCHANGED Abstract!vars
<1>1. \A u \in Thread : /\ pc[u] = "idle" <=> pc'[u] = "idle"
                        /\ pc[u] = "returned" <=> pc'[u] = "returned"
  BY DEF Within
<1>2. Status' = Status
  BY <1>1 DEF Status
<1>3. pc[t] # "returned" /\ pc'[t] # "returned"
  BY DEF Within
<1>4. \A u \in Thread : (IF pc'[u] = "returned" THEN answer'[u] ELSE nullopt)
                       = (IF pc[u] = "returned" THEN answer[u] ELSE nullopt)
  BY <1>3
<1>5. Returned' = Returned
  BY <1>4 DEF Returned
<1>6. UNCHANGED <<Atomic!Contents, open>>
  BY SameContents
<1> QED
  BY <1>2, <1>5, <1>6 DEF Abstract!vars

(* A write takes its effect when it unlocks, on a tree that can be read    *)
(* and can be read again afterwards.                                       *)
LEMMA WriteTakesEffect ==
  ASSUME ThreadInv, SeenInv, Sequential!WholeMerges,
         NEW t \in Thread, Unlock(t), call[t].op = "Insert"
  PROVE  /\ call[t].key \in Key /\ call[t].entry \in Value \cup {Empty}
         /\ Atomic!Contents' = [Atomic!Contents EXCEPT ![call[t].key] =
                                  IF call[t].entry = Empty THEN nullopt ELSE call[t].entry]
         /\ Sequential!ComponentsReadable'
<1> DEFINE c == call[t]
<1>1. pc[t] = "unlock" /\ pc[t] \in Within /\ mtx_' = nullopt
      /\ UNCHANGED <<memtable, levels, files, tree_data, open>>
  BY DEF Unlock, tree, Within
<1>2. /\ c \in Abstract!Calls /\ open /\ Seen = before
      /\ Progress("unlock", c, before, Snapshot, at[t], created[t])
  BY <1>1, Inner
<1>3. Seen' = Snapshot
  BY <1>1 DEF Seen, Snapshot
<1>4. Outcome(c, before, Snapshot)
  BY <1>2 DEF Progress
<1>5. Sequential!Insert(c.key, c.entry)
  BY <1>1, <1>2, <1>3, <1>4, OutcomeIsInsert, SequentialInsert
<1>6. c.key \in Key /\ c.entry \in Value \cup {Empty} /\ c.entry \in Sequential!Entry
  BY <1>2 DEF Abstract!Calls, Sequential!Entry
<1>7. /\ IF c.entry = Empty THEN Sequential!Store!Erase(c.key)
         ELSE Sequential!Store!Insert(c.key, c.entry)
      /\ Sequential!ComponentsReadable'
  BY <1>5, <1>6, Sequential!InsertImplements, Sequential!InsertReadable, SequentialAssumptions
  DEF SeenInv
<1>8. Sequential!Contents' = [Sequential!Contents EXCEPT ![c.key] =
                                IF c.entry = Empty THEN nullopt ELSE c.entry]
  BY <1>7 DEF Sequential!Store!Erase, Sequential!Store!Insert
<1>9. (Atomic!Contents = Sequential!Contents)'
  BY SequentialContents, PTL
<1> QED
  BY <1>6, <1>7, <1>8, <1>9, SequentialContents

(* It is answered nothing.                                                 *)
LEMMA UnlockedWrite ==
  ASSUME LookupInv, Unanswered, SeenInv, Sequential!WholeMerges,
         NEW t \in Thread, Unlock(t), call[t].op = "Insert"
  PROVE  /\ Atomic!Contents' = [Atomic!Contents EXCEPT ![call[t].key] =
                                  IF call[t].entry = Empty THEN nullopt ELSE call[t].entry]
         /\ answer[t] = nullopt
<1>1. pc[t] = "unlock" /\ pc[t] \in Within
  BY DEF Unlock, Within
<1> QED
  BY <1>1, WriteTakesEffect DEF LookupInv, Unanswered

(* A lookup answers from the tree that it found and leaves, or throws.     *)
LEMMA UnlockedLookup ==
  ASSUME LookupInv, NEW t \in Thread, Unlock(t), call[t].op # "Insert"
  PROVE  /\ Atomic!Contents' = Atomic!Contents
         /\ call[t].op \in {"Find", "FindRange"}
         /\ call[t].op = "Find" => answer[t] \in {exception, Atomic!Contents[call[t].key]}
         /\ call[t].op = "FindRange" => answer[t] \in {exception, Atomic!Contents}
<1> DEFINE c == call[t]
<1>1. pc[t] = "unlock" /\ pc[t] \in Within /\ mtx_' = nullopt
      /\ UNCHANGED <<memtable, levels, files, tree_data, open>>
  BY DEF Unlock, tree, Within
<1>2. /\ c \in Abstract!Calls /\ open /\ Seen = before
      /\ Progress("unlock", c, before, Snapshot, at[t], created[t])
  BY <1>1, Inner DEF LookupInv
<1>3. Seen' = Snapshot /\ Snapshot = before
  BY <1>1, <1>2 DEF Seen, Snapshot, Progress
<1>4. UNCHANGED Atomic!vars
  BY <1>1, <1>2, <1>3 DEF Atomic!vars
<1>5. Answered(c, answer[t], Snapshot)
  BY <1>1 DEF LookupInv, StageInv, Stage
<1>6. Atomic!Contents = [k \in Key |-> LookupIn(Snapshot, k)]
  <2>1. Seen.memtable = Snapshot.memtable /\ Seen.levels = Snapshot.levels
        /\ Seen.files = Snapshot.files
    BY <1>2, <1>3
  <2>2. Atomic!Contents = [k \in Key |-> Atomic!Lookup(Seen.memtable, Seen.levels, Seen.files, k)]
    BY <1>2 DEF Atomic!Contents, Atomic!ContentsOf, Atomic!Lookup, Atomic!NewestEntry, Atomic!Holding
  <2>3. \A mem, lv, fs, k : Atomic!Lookup(mem, lv, fs, k) = Tree!Lookup(mem, lv, fs, k)
    BY DEF Atomic!Lookup, Tree!Lookup,
           Atomic!Visible, Tree!Visible, Atomic!NewestEntry, Tree!NewestEntry,
           Atomic!Newest, Tree!Newest, Atomic!Newer, Tree!Newer, Atomic!Holding, Tree!Holding,
           Atomic!Components, Tree!Components
  <2> QED
    BY <2>1, <2>2, <2>3 DEF LookupIn
<1>7. c.op \in {"Find", "FindRange"} /\ (c.op = "Find" => c.key \in Key)
  BY <1>2 DEF Abstract!Calls
<1> QED
  BY <1>4, <1>5, <1>6, <1>7, SameContents DEF Answered

LEMMA UnlockActs ==
  ASSUME LookupInv, Unanswered, SeenInv, Sequential!WholeMerges, NEW t \in Thread, Unlock(t)
  PROVE  Abstract!Act(t) \/ Abstract!Throw(t)
<1>1. /\ pc[t] = "unlock" /\ pc' = [pc EXCEPT ![t] = "returned"]
      /\ UNCHANGED <<call, answer, open>>
  BY DEF Unlock, Goto, tree
<1>2. /\ Status[t] = "called" /\ Status' = [Status EXCEPT ![t] = "done"]
      /\ Returned' = [Returned EXCEPT ![t] = answer[t]]
  BY <1>1, Moves DEF StatusOf, LookupInv, ThreadInv, ThreadsTyped
<1>3. CASE call[t].op = "Insert"
  <2>1. Abstract!Effect(call[t])
    BY <1>3, UnlockedWrite DEF Abstract!Effect
  <2>2. answer[t] = Abstract!Answer(call[t])
    BY <1>3, UnlockedWrite DEF Abstract!Answer
  <2> QED
    BY <1>1, <1>2, <2>1, <2>2 DEF Abstract!Act
<1>4. CASE call[t].op # "Insert" /\ answer[t] = exception
  BY <1>1, <1>2, <1>4, UnlockedLookup DEF Abstract!Throw
<1>5. CASE call[t].op # "Insert" /\ answer[t] # exception
  <2>1. Abstract!Effect(call[t])
    BY <1>5, UnlockedLookup DEF Abstract!Effect
  <2>2. answer[t] = Abstract!Answer(call[t])
    BY <1>5, UnlockedLookup DEF Abstract!Answer
  <2> QED
    BY <1>1, <1>2, <2>1, <2>2 DEF Abstract!Act
<1> QED
  BY <1>3, <1>4, <1>5

(* Calls and returns. *)
LEMMA CallActs ==
  ASSUME LookupInv, Unanswered, NEW t \in Thread, NEW c \in Abstract!Calls, Call(t, c)
  PROVE  Abstract!Call(t, c)
<1>1. /\ open /\ pc[t] = "idle" /\ pc' = [pc EXCEPT ![t] = "lock"]
      /\ call' = [call EXCEPT ![t] = c] /\ answer' = answer
  BY DEF Call, Goto
<1>2. UNCHANGED <<Atomic!Contents, open>>
  BY CallKeeps, SameContents DEF LookupInv
<1>3. /\ Status[t] = "idle" /\ Status' = [Status EXCEPT ![t] = "called"]
      /\ Returned' = [Returned EXCEPT ![t] = nullopt]
  <2>1. pc \in [Thread -> Outside \cup Within] /\ \A u \in Thread \ {t} : answer'[u] = answer[u]
    BY <1>1 DEF LookupInv, ThreadInv, ThreadsTyped, StageInv
  <2>2. StatusOf(pc[t]) = "idle" /\ StatusOf("lock") = "called"
    BY <1>1 DEF StatusOf
  <2>3. /\ Status[t] = StatusOf(pc[t]) /\ Status' = [Status EXCEPT ![t] = StatusOf("lock")]
        /\ Returned' = [Returned EXCEPT ![t] = IF "lock" = "returned" THEN answer'[t] ELSE nullopt]
    BY <1>1, <2>1, Moves
  <2> QED
    BY <2>2, <2>3
<1>4. Returned' = Returned
  BY <1>1, <1>3 DEF Returned
<1> QED
  BY <1>1, <1>2, <1>3, <1>4 DEF Abstract!Call

LEMMA ReturnActs ==
  ASSUME LookupInv, NEW t \in Thread, Return(t)
  PROVE  Abstract!Return(t)
<1>1. /\ pc[t] = "returned" /\ pc' = [pc EXCEPT ![t] = "idle"]
      /\ call' = [call EXCEPT ![t] = nullopt] /\ answer' = [answer EXCEPT ![t] = nullopt]
  BY DEF Return, Goto
<1>2. UNCHANGED <<Atomic!Contents, open>>
  BY ReturnKeeps, SameContents DEF LookupInv
<1>3. /\ Status[t] = "done" /\ Status' = [Status EXCEPT ![t] = "idle"]
      /\ Returned' = [Returned EXCEPT ![t] = nullopt]
  <2>1. pc \in [Thread -> Outside \cup Within] /\ \A u \in Thread \ {t} : answer'[u] = answer[u]
    BY <1>1 DEF LookupInv, ThreadInv, ThreadsTyped, StageInv
  <2>2. StatusOf(pc[t]) = "done" /\ StatusOf("idle") = "idle"
    BY <1>1 DEF StatusOf
  <2>3. /\ Status[t] = StatusOf(pc[t]) /\ Status' = [Status EXCEPT ![t] = StatusOf("idle")]
        /\ Returned' = [Returned EXCEPT ![t] = IF "idle" = "returned" THEN answer'[t] ELSE nullopt]
    BY <1>1, <2>1, Moves
  <2> QED
    BY <2>2, <2>3
<1> QED
  BY <1>1, <1>2, <1>3 DEF Abstract!Return

(* Objects come and go while every thread is idle.                         *)
LEMMA SessionActs ==
  ASSUME LookupInv, SeenInv, Sequential!SafeFaults, Session
  PROVE  Abstract!Session
<1>1. /\ \A t \in Thread : pc[t] = "idle"
      /\ UNCHANGED <<pc, call, answer>>
      /\ open' # open
  BY DEF Session, Tree!Create, Tree!Load, Tree!Close, Tree!Destroyed
<1>2. [Sequential!Next]_(Sequential!vars)
  BY SessionKeeps, SequentialStep DEF LookupInv
<1>3. [Sequential!Store!Next]_(Sequential!Store!vars)
  BY <1>2, Sequential!RefinementStep, SequentialAssumptions DEF SeenInv
<1>4. Sequential!Store!Create \/ Sequential!Store!Load \/ Sequential!Store!Close
  BY <1>1, <1>3 DEF Sequential!Store!Next, Sequential!Store!vars, Sequential!Store!Erase,
                    Sequential!Store!Insert
<1>5. (Atomic!Contents = Sequential!Contents)'
  BY SequentialContents, PTL
<1>6. Abstract!Store!Create \/ Abstract!Store!Load \/ Abstract!Store!Close
  BY <1>4, <1>5, SequentialContents
  DEF Sequential!Store!Create, Sequential!Store!Load, Sequential!Store!Close,
      Sequential!Store!Nothing, Abstract!Store!Create, Abstract!Store!Load,
      Abstract!Store!Close, Abstract!Store!Nothing
<1>7. Status' = Status /\ Returned' = Returned /\ \A t \in Thread : Status[t] = "idle"
  BY <1>1 DEF Status, Returned
<1> QED
  BY <1>1, <1>6, <1>7 DEF Abstract!Session

LEMMA AbstractStep ==
  ASSUME LookupInv, Unanswered, SeenInv, Sequential!SafeFaults, [Next]_vars
  PROVE  [Abstract!Next]_(Abstract!vars)
<1>1. CASE Session
  BY <1>1, SessionActs DEF Abstract!Next
<1>2. ASSUME NEW t \in Thread, Lock(t) PROVE UNCHANGED Abstract!vars
  <2>1. /\ pc[t] = "lock" /\ pc' = [pc EXCEPT ![t] = call[t].op] /\ UNCHANGED <<call, answer>>
    BY <1>2 DEF Lock, Goto
  <2>2. call[t].op \in Within
    BY <2>1 DEF LookupInv, ThreadInv, ThreadsTyped, Abstract!Calls, Within
  <2>3. pc'[t] \in Within /\ \A u \in Thread \ {t} : pc'[u] = pc[u]
    BY <2>1, <2>2 DEF LookupInv, ThreadInv, ThreadsTyped
  <2>4. UNCHANGED Atomic!vars
    BY <1>2, LockKeeps DEF LookupInv
  <2> QED
    BY <2>1, <2>3, <2>4, InsideStutters
<1>3. ASSUME NEW t \in Thread, WriteStep(t) \/ FlushThrows(t) \/ MergeThrows(t)
      PROVE  UNCHANGED Abstract!vars
  <2>1. UNCHANGED Atomic!vars
    BY <1>3, WriteMemtableKeeps, FlushKeeps, CountNothingKeeps, CountKeeps, MergeKeeps,
       MergeUnwrittenKeeps, ResetKeeps, UnlinkKeeps, UnlinkedAllKeeps, FlushThrowsKeeps, MergeThrowsKeeps
    DEF WriteStep, LookupInv
  <2>2. /\ pc[t] \in Within /\ pc'[t] \in Within
        /\ \A u \in Thread \ {t} : pc'[u] = pc[u]
        /\ UNCHANGED <<call, answer>>
    BY <1>3, WriterSteps
  <2> QED
    BY <2>1, <2>2, InsideStutters
<1>4. ASSUME NEW t \in Thread, ReadStep(t) \/ LookupThrows(t) PROVE UNCHANGED Abstract!vars
  <2>1. UNCHANGED Atomic!vars
    BY <1>4, LookupKeeps DEF LookupInv
  <2>2. /\ pc[t] \in Within /\ pc'[t] \in Within /\ call' = call
        /\ \A u \in Thread \ {t} : pc'[u] = pc[u] /\ answer'[u] = answer[u]
    BY <1>4, ReaderSteps
  <2> QED
    BY <2>1, <2>2, InsideStutters
<1>5. ASSUME NEW t \in Thread, Unlock(t) PROVE Abstract!Next
  BY <1>5, UnlockActs DEF Abstract!Next, Sequential!SafeFaults, Sequential!WholeMerges
<1>6. ASSUME NEW t \in Thread, Return(t) PROVE Abstract!Next
  BY <1>6, ReturnActs DEF Abstract!Next
<1>7. ASSUME NEW t \in Thread, NEW c \in Abstract!Calls, Call(t, c) PROVE Abstract!Next
  BY <1>7, CallActs DEF Abstract!Next
<1>8. CASE UNCHANGED vars
  <2>1. UNCHANGED Atomic!vars
    BY <1>8 DEF vars, Atomic!vars, Seen, Snapshot
  <2>2. UNCHANGED <<Atomic!Contents, open>> /\ UNCHANGED <<pc, call, answer>>
    BY <1>8, <2>1, SameContents DEF vars
  <2> QED
    BY <2>2 DEF Abstract!vars, Status, Returned
<1> QED
  BY <1>1, <1>2, <1>3, <1>4, <1>5, <1>6, <1>7, <1>8 DEF Next, Step, Throw

(* Whatever threads call, and however their steps interleave, each call    *)
(* has its effect and its answer in one instant between call and return:   *)
(* for every set of threads, keys and values, every filter, factor and     *)
(* limit, flushes and merges that throw included.                          *)
THEOREM CallsAreLinearizable ==
  ASSUME Faults \subseteq {"flush", "reader"}
  PROVE  Spec => Linearizable
<1>1. Sequential!SafeFaults
  BY DEF Sequential!SafeFaults
<1>2. Init => Abstract!Init /\ Unanswered
  <2> SUFFICES ASSUME Init PROVE Abstract!Init /\ Unanswered
    OBVIOUS
  <2>1. /\ open = FALSE /\ tree_data = nullopt
        /\ pc = [t \in Thread |-> "idle"] /\ call = [t \in Thread |-> nullopt]
        /\ answer = [t \in Thread |-> nullopt]
    BY DEF Init, Tree!Init
  <2>2. Atomic!Contents = Abstract!Store!Nothing
    BY <2>1 DEF Atomic!Contents, Atomic!EmptyTable, Abstract!Store!Nothing
  <2>3. Status = [t \in Thread |-> "idle"] /\ Returned = [t \in Thread |-> nullopt]
    BY <2>1 DEF Status, Returned
  <2> QED
    BY <2>1, <2>2, <2>3 DEF Abstract!Init, Abstract!Store!Init, Unanswered
<1>3. LookupInv /\ Unanswered /\ [Next]_vars => Unanswered'
  BY UnansweredStep
<1>4. LookupInv /\ Unanswered /\ SeenInv /\ [Next]_vars => [Abstract!Next]_(Abstract!vars)
  BY <1>1, AbstractStep
<1>5. Spec => []SeenInv
  BY SeenAlways
<1> QED
  BY <1>2, <1>3, <1>4, <1>5, LookupInvAlways, PTL DEF Spec, Linearizable, Abstract!Spec

----------------------------------------------------------------------------
(* Crashes: components. *)

LEMMA SequentialComponents ==
  /\ \A lv : Tree!Components(lv) = Sequential!Components(lv)
  /\ \A lv, level : Tree!Grown(lv, level) = Sequential!Grown(lv, level)
  /\ \A lv, level : Tree!LastComponent(lv, level) = Sequential!LastComponent(lv, level)
  /\ \A lv, level : Tree!Inputs(lv, level) = Sequential!Inputs(lv, level)
  /\ Tree!EmptyTable = Sequential!EmptyTable /\ Tree!ZeroBytes = Sequential!ZeroBytes
BY DEF Tree!Components, Sequential!Components, Tree!Grown, Sequential!Grown,
       Tree!LastComponent, Sequential!LastComponent, Tree!Inputs, Sequential!Inputs,
       Tree!EmptyTable, Sequential!EmptyTable, Tree!ZeroBytes, Sequential!ZeroBytes

(* A new level counts no table, and the next number none that is in use.   *)
LEMMA NextIsFree ==
  ASSUME NEW lv \in Seq(Nat), NEW level \in 0 .. Len(lv)
  PROVE  /\ Tree!Components(Tree!Grown(lv, level)) = Tree!Components(lv)
         /\ Tree!LastComponent(lv, level) \notin Tree!Components(lv)
         /\ Tree!LastComponent(lv, level) \in Nat \X Nat
         /\ Tree!Grown(lv, level) \in Seq(Nat)
<1>1. /\ Sequential!Components(Sequential!Grown(lv, level)) = Sequential!Components(lv)
      /\ Sequential!LastComponent(lv, level) \notin Sequential!Components(lv)
  BY Sequential!GrownComponents, SequentialAssumptions
<1>2. Tree!Grown(lv, level)[level + 1] \in Nat /\ level \in Nat
  BY GrownSeq
<1> QED
  BY <1>1, <1>2, GrownSeq, SequentialComponents DEF Tree!LastComponent

LEMMA ComponentPairs ==
  ASSUME NEW lv \in Seq(Nat)
  PROVE  /\ Tree!Components(lv) \subseteq Nat \X Nat
         /\ \A i, j \in Nat : <<i, j>> \in Tree!Components(lv) <=> i < Len(lv) /\ j < lv[i + 1]
BY DEF Tree!Components

LEMMA CountingKeeps ==
  ASSUME NEW lv \in Seq(Nat), Len(lv) >= 1
  PROVE  Tree!Components(lv) \subseteq Tree!Components([lv EXCEPT ![1] = @ + 1])
<1> DEFINE more == [lv EXCEPT ![1] = @ + 1]
<1>1. more \in Seq(Nat) /\ Len(more) = Len(lv)
  BY FirstIncremented
<1>2. \A n \in 1 .. Len(lv) : lv[n] \in Nat /\ more[n] \in Nat /\ lv[n] <= more[n]
  OBVIOUS
<1> HIDE DEF more
<1>3. ASSUME NEW i \in Nat, NEW j \in Nat, <<i, j>> \in Tree!Components(lv)
      PROVE  <<i, j>> \in Tree!Components(more)
  <2>1. i < Len(lv) /\ j < lv[i + 1] /\ i + 1 \in 1 .. Len(lv)
    BY <1>3, ComponentPairs
  <2>2. j < more[i + 1]
    BY <1>2, <2>1
  <2> QED
    BY <1>1, <2>1, <2>2, ComponentPairs
<1>4. \A p \in Nat \X Nat : p \in Tree!Components(lv) => p \in Tree!Components(more)
  BY <1>3
<1> QED
  BY <1>4, ComponentPairs DEF more

LEMMA FlushKeepsComponents ==
  ASSUME NEW b, b.levels \in Seq(Nat)
  PROVE  /\ Tree!Components(Tree!Grown(b.levels, 0)) = Tree!Components(b.levels)
         /\ Tree!Components(b.levels) \subseteq Tree!Components(LevelsOf(b))
<1>1. 0 \in 0 .. Len(b.levels)
  OBVIOUS
<1>2. Tree!Components(Tree!Grown(b.levels, 0)) = Tree!Components(b.levels)
  BY <1>1, NextIsFree
<1>3. Tree!Grown(b.levels, 0) \in Seq(Nat) /\ Len(Tree!Grown(b.levels, 0)) >= 1
  <2>1. \A lv \in Seq(Nat) : Len(Tree!Grown(lv, 0)) >= 1
    BY GrownSeq DEF Tree!Grown
  <2> QED
    BY <2>1, LevelsOfSeq
<1> QED
  BY <1>2, <1>3, CountingKeeps DEF LevelsOf

(* What the holder found is still counted, except where a merge has reset  *)
(* the counts.                                                             *)
LEMMA PlaceKeeps ==
  ASSUME ThreadInv, NEW t \in Thread, pc[t] \in Within \ {"unlink", "unlock"}
  PROVE  levels \in Seq(Nat) /\ Tree!Components(before.levels) \subseteq Tree!Components(levels)
<1> DEFINE c == call[t]
<1>1. /\ before.levels \in Seq(Nat)
      /\ Progress(pc[t], c, before, Snapshot, at[t], created[t])
      /\ Snapshot.levels = levels
  BY Inner DEF Snapshot
<1>2. CASE pc[t] \in {"Insert", "Find", "FindRange", "search", "range"}
  <2>1. Snapshot = before
    BY <1>1, <1>2 DEF Progress
  <2> QED
    BY <1>1, <2>1
<1>3. CASE pc[t] = "flush"
  BY <1>1, <1>3 DEF Progress, AtFlush
<1>4. CASE pc[t] = "count"
  BY <1>1, <1>4, LevelsOfSeq, FlushKeepsComponents DEF Progress, AtCount
<1>5. CASE pc[t] = "merge"
  BY <1>1, <1>5, LevelsOfSeq, FlushKeepsComponents DEF Progress, AtMerge
<1>6. CASE pc[t] = "reset"
  <2>1. PICK level, sst :
          IsMerge(c, before, level, sst) /\ levels = Tree!Grown(LevelsOf(before), level)
    BY <1>1, <1>6 DEF Progress, AtReset
  <2>2. LevelsOf(before) \in Seq(Nat) /\ level \in 0 .. Len(LevelsOf(before))
    BY <1>1, <2>1, LevelsOfSeq DEF IsMerge
  <2> QED
    BY <1>1, <2>1, <2>2, NextIsFree, FlushKeepsComponents
<1> QED
  BY <1>2, <1>3, <1>4, <1>5, <1>6 DEF Within

(* In the middle of an operation, too, there are only tables on disk.      *)
LEMMA LiveFiles ==
  ASSUME ThreadInv, Sequential!TypeOK
  PROVE  Sequential!FilesOK(files)
<1>1. Sequential!FilesOK(Seen.files)
  BY DEF Sequential!TypeOK, Sequential!FilesOK
<1>2. CASE mtx_ = nullopt
  BY <1>1, <1>2 DEF Seen, Snapshot
<1>3. ASSUME NEW t \in Thread, mtx_ = t
      PROVE  Sequential!FilesOK(files)
  <2> DEFINE c == call[t]
  <2>1. pc[t] \in Within
    BY <1>3 DEF ThreadInv, Mutex
  <2>2. /\ c \in Abstract!Calls /\ Seen = before /\ before.levels \in Seq(Nat)
        /\ Progress(pc[t], c, before, Snapshot, at[t], created[t])
        /\ Snapshot.files = files
    BY <2>1, Inner DEF Snapshot
  <2>3. Sequential!FilesOK(before.files)
    BY <1>1, <2>2
  <2>4. LevelsOf(before) \in Seq(Nat)
    BY <2>2, LevelsOfSeq
  <2>5. ASSUME c.op = "Insert" PROVE Sequential!FilesOK(FilesOf(c, before))
    <3>1. c.key \in Key /\ c.entry \in Sequential!Entry
      BY <2>2, <2>5 DEF Abstract!Calls, Sequential!Entry
    <3>2. Sequential!FilesOK(Sequential!FlushedFiles(Sequential!Written(c.key, c.entry)))
      BY <3>1, Sequential!FlushedType, SequentialAssumptions
    <3>3. Atomic!FlushedFiles(Atomic!Written(c.key, c.entry)) = FilesOf(c, before)
      BY <2>2, SeenOperators
    <3> QED
      BY <3>2, <3>3, SequentialOperators
  <2>6. ASSUME c.op = "Insert", NEW level \in 1 .. Len(LevelsOf(before)),
               NEW sst \in Sequential!SSTable
        PROVE  Sequential!FilesOK(WithOutput(c, before, level, sst))
    <3>1. level \in 0 .. Len(LevelsOf(before))
      BY <2>4
    <3>2. Output(before, level) \in Sequential!Path
      BY <2>4, <3>1, NextIsFree DEF Output, Sequential!Path
    <3>3. WithOutput(c, before, level, sst)
            = Sequential!Stored(FilesOf(c, before), Output(before, level), sst)
      BY DEF WithOutput, Sequential!Stored, Tree!Stored
    <3> QED
      BY <2>5, <2>6, <3>2, <3>3, Sequential!StoredType, SequentialAssumptions
  <2>61. ASSUME c.op = "Insert", NEW level \in 1 .. Len(LevelsOf(before)),
                NEW sst \in Sequential!SSTable, NEW fs \in MergedFiles(c, before, level, sst)
         PROVE  Sequential!FilesOK(fs)
    BY <2>5, <2>6, <2>61 DEF MergedFiles
  <2>7. ASSUME c.op = "Insert", NEW level, NEW sst, IsMerge(c, before, level, sst)
        PROVE  level \in 1 .. Len(LevelsOf(before)) /\ sst \in Sequential!SSTable
    <3>1. level \in 1 .. Len(LevelsOf(before)) /\ level \in 0 .. Len(LevelsOf(before))
      BY <2>4, <2>7 DEF IsMerge
    <3>2. sst \in Sequential!MergedTables(LevelsOf(before), FilesOf(c, before), level)
      BY <2>7, SameMerges, SequentialMerges DEF IsMerge
    <3>3. Sequential!MergedTables(LevelsOf(before), FilesOf(c, before), level)
            \subseteq Sequential!SSTable
      BY <2>4, <2>5, <2>7, <3>1, Sequential!MergedType, SequentialAssumptions
    <3> QED
      BY <3>1, <3>2, <3>3
  <2>8. \A fs, paths : Sequential!FilesOK(fs) => Sequential!FilesOK(Tree!Unlinked(fs, paths))
    BY DEF Sequential!FilesOK, Tree!Unlinked
  <2>9. CASE pc[t] \in {"Insert", "Find", "FindRange", "search", "range", "flush"}
             \/ (pc[t] = "unlock" /\ c.op # "Insert")
    BY <2>2, <2>3, <2>9 DEF Progress, AtFlush
  <2>10. CASE pc[t] \in {"count", "merge"}
    BY <2>2, <2>5, <2>10 DEF Progress, AtCount, AtMerge, Fills, Flushes
  <2>11. CASE pc[t] = "reset"
    <3>1. c.op = "Insert"
      BY <2>2, <2>11 DEF Progress, AtReset, Fills, Flushes
    <3>2. PICK level, sst : IsMerge(c, before, level, sst)
                            /\ files = WithOutput(c, before, level, sst)
      BY <2>2, <2>11 DEF Progress, AtReset
    <3> QED
      BY <2>6, <2>7, <3>1, <3>2
  <2>12. CASE pc[t] = "unlink"
    <3>1. c.op = "Insert"
      BY <2>2, <2>12 DEF Progress, AtUnlink, Fills, Flushes
    <3>2. PICK level, sst, gone, fs :
            /\ IsMerge(c, before, level, sst)
            /\ fs \in MergedFiles(c, before, level, sst)
            /\ files = Tree!Unlinked(fs, gone)
      BY <2>2, <2>12 DEF Progress, AtUnlink
    <3> QED
      BY <2>61, <2>7, <2>8, <3>1, <3>2
  <2>13. CASE pc[t] = "unlock" /\ c.op = "Insert"
    <3>1. Outcome(c, before, Snapshot)
      BY <2>2, <2>13 DEF Progress
    <3>2. CASE Buffered(c, before, Snapshot) \/ FlushThrew(c, before, Snapshot)
      BY <2>2, <2>3, <3>2 DEF Buffered, FlushThrew
    <3>3. CASE FlushedNothing(c, before, Snapshot) \/ Flushed(c, before, Snapshot)
      BY <2>2, <2>5, <2>13, <3>3 DEF FlushedNothing, Flushed
    <3>4. CASE Compacted(c, before, Snapshot)
      <4>1. PICK level, sst, fs :
              /\ IsMerge(c, before, level, sst)
              /\ fs \in MergedFiles(c, before, level, sst)
              /\ files = Tree!Unlinked(fs, Tree!ConsumedPaths(level))
        BY <2>2, <3>4 DEF Compacted
      <4> QED
        BY <2>61, <2>7, <2>8, <2>13, <4>1
    <3>5. CASE CompactionThrew(c, before, Snapshot)
      <4>1. PICK level \in 1 .. Len(LevelsOf(before)) :
              files \in MergedFiles(c, before, level, Tree!ZeroBytes)
        BY <2>2, <3>5 DEF CompactionThrew
      <4>2. Tree!ZeroBytes \in Sequential!SSTable
        BY Sequential!TableTypes, SequentialAssumptions, SequentialComponents
      <4> QED
        BY <2>61, <2>13, <4>1, <4>2
    <3> QED
      BY <3>1, <3>2, <3>3, <3>4, <3>5 DEF Outcome
  <2> QED
    BY <2>1, <2>9, <2>10, <2>11, <2>12, <2>13 DEF Within
<1> QED
  BY <1>2, <1>3 DEF ThreadInv, ThreadsTyped

----------------------------------------------------------------------------
(* The invariant. *)

SavedTables == Tree!Components(tree_data.levels)

(* A session that was loaded from a saved tree that was whole, and new     *)
(* ones, count no table that cannot be read.                               *)
LiveReadable == open /\ ~broken => Sequential!ComponentsReadable

(* Before the lock and after the unlock; a merge that has come to its      *)
(* unlinking has something to unlink.                                      *)
Keeps(t) ==
  /\ pc[t] = "unlock" => Tree!Components(before.levels) \subseteq Tree!Components(levels)
  /\ pc[t] = "unlink" => Leftover(t) # {}

(* The saved tables are counted as long as none of them is unlinked.       *)
SavedCounted ==
  open /\ safe => SavedTables \subseteq Tree!Components(Seen.levels) /\ \A t \in Thread : Keeps(t)

CrashInv ==
  /\ ThreadInv
  /\ Sequential!TypeOK
  /\ safe \in BOOLEAN /\ broken \in BOOLEAN
  /\ SavedReadable
  /\ LiveReadable
  /\ SavedCounted

LEMMA CrashInvInit == CrashInit => CrashInv
<1> SUFFICES ASSUME CrashInit PROVE CrashInv
  OBVIOUS
<1>1. ThreadInv /\ safe = FALSE /\ broken = FALSE
  BY ThreadInit DEF CrashInit
<1>2. Sequential!Init
  BY SameOperators, SequentialOperators
  DEF CrashInit, Init, Tree!Init, Sequential!Init, Seen, Snapshot
<1>3. open = FALSE
  BY DEF CrashInit, Init, Tree!Init
<1>4. Sequential!TypeOK
  <2>1. open \in BOOLEAN
    BY <1>3, Zenon
  <2> QED
    BY <1>2, <2>1, Sequential!TableTypes, SequentialAssumptions
    DEF Sequential!Init, Sequential!TypeOK
<1>5. safe \in BOOLEAN /\ broken \in BOOLEAN
  BY <1>1, Zenon
<1> QED
  BY <1>1, <1>3, <1>4, <1>5 DEF CrashInv, SavedReadable, LiveReadable, SavedCounted

----------------------------------------------------------------------------
(* What a step does to the saved tables. *)

SavedUntouched ==
  \A p \in SavedTables : p \in DOMAIN files => p \in DOMAIN files' /\ files'[p] = files[p]

LEMMA StoredElsewhere ==
  ASSUME NEW p, p \notin SavedTables, NEW sst, files' = Tree!Stored(files, p, sst)
  PROVE  SavedUntouched
BY DEF SavedUntouched, Tree!Stored

(* The next table at any level is none of the saved ones, until a merge    *)
(* has reset the counts.                                                   *)
LEMMA NextIsUnsaved ==
  ASSUME ThreadInv, SavedCounted, open, safe,
         NEW t \in Thread, pc[t] \in Within \ {"unlink", "unlock"},
         NEW level \in 0 .. Len(levels)
  PROVE  Tree!LastComponent(levels, level) \notin SavedTables
<1>1. levels \in Seq(Nat) /\ Tree!Components(before.levels) \subseteq Tree!Components(levels)
  BY PlaceKeeps
<1>2. SavedTables \subseteq Tree!Components(before.levels)
  BY Inner DEF SavedCounted
<1> QED
  BY <1>1, <1>2, NextIsFree

(* The steps of a thread, up to the first table that it unlinks.           *)
Harmless(t) ==
  (Step(t) /\ ~Unlink(t)) \/ Throw(t) \/ Return(t) \/ \E c \in Abstract!Calls : Call(t, c)

LEMMA HarmlessLeavesSaved ==
  ASSUME ThreadInv, SavedCounted, open, safe, NEW t \in Thread, Harmless(t)
  PROVE  SavedUntouched /\ tree_data' = tree_data /\ open' = open
<1>1. tree_data' = tree_data /\ open' = open
  BY DEF Harmless, Step, WriteStep, ReadStep, Throw, Lock, Unlock, Return, Call, tree,
         WriteMemtable, FlushThrows, Flush, CountNothing, Count, Merge, MergeUnwritten, MergeThrows, Reset,
         UnlinkedAll, FindInMemtable, SearchOn, SearchHit, SearchMiss, BeginRange,
         RangeTable, RangeNextLevel, RangeMemtable, LookupThrows
<1>2. CASE Flush(t)
  <2>1. pc[t] \in Within \ {"unlink", "unlock"} /\ files' = Tree!FlushedFiles(memtable)
    BY <1>2 DEF Flush, Within
  <2>2. levels \in Seq(Nat)
    BY <2>1, PlaceKeeps
  <2>3. 0 \in 0 .. Len(levels)
    BY <2>2
  <2> QED
    BY <1>1, <2>1, <2>3, NextIsUnsaved, StoredElsewhere DEF Tree!FlushedFiles
<1>3. CASE Merge(t) \/ MergeThrows(t)
  <2>1. pc[t] \in Within \ {"unlink", "unlock"}
    BY <1>3 DEF Merge, MergeThrows, Within
  <2>2. levels \in Seq(Nat)
    BY <2>1, PlaceKeeps
  <2>3. PICK level \in 1 .. Len(levels) :
          \/ files' = files
          \/ \E sst : files' = Tree!Stored(files, Tree!LastComponent(levels, level), sst)
    BY <1>3 DEF Merge, MergeThrows, Tree!AfterThrow
  <2>4. level \in 0 .. Len(levels)
    BY <2>2
  <2>5. files' = files => SavedUntouched
    BY DEF SavedUntouched
  <2> QED
    BY <1>1, <2>1, <2>3, <2>4, <2>5, NextIsUnsaved, StoredElsewhere
<1>4. CASE ~ (Flush(t) \/ Merge(t) \/ MergeThrows(t))
  <2>1. files' = files
    BY <1>4
    DEF Harmless, Step, WriteStep, ReadStep, Throw, Lock, Unlock, Return, Call, tree,
        WriteMemtable, FlushThrows, CountNothing, Count, MergeUnwritten, Reset,
        UnlinkedAll, FindInMemtable, SearchOn, SearchHit, SearchMiss, BeginRange,
        RangeTable, RangeNextLevel, RangeMemtable, LookupThrows
  <2> QED
    BY <1>1, <2>1 DEF SavedUntouched
<1> QED
  BY <1>2, <1>3, <1>4

LEMMA CrashLeavesSaved ==
  ASSUME ThreadInv, SavedCounted, safe, Crash
  PROVE  SavedUntouched
<1>1. open
  BY DEF Crash
<1>2. CASE files' = files
  BY <1>2 DEF SavedUntouched
<1>3. ASSUME NEW p \in TornPaths, files' = Tree!Stored(files, p, Tree!ZeroBytes)
      PROVE  SavedUntouched
  <2>1. CASE \E t \in Thread : pc[t] = "flush" /\ p = Tree!LastComponent(levels, 0)
    <3>1. PICK t \in Thread : pc[t] = "flush" /\ p = Tree!LastComponent(levels, 0)
      BY <2>1
    <3>2. pc[t] \in Within \ {"unlink", "unlock"}
      BY <3>1 DEF Within
    <3>3. levels \in Seq(Nat)
      BY <3>2, PlaceKeeps
    <3>4. 0 \in 0 .. Len(levels)
      BY <3>3
    <3> QED
      BY <1>1, <1>3, <3>1, <3>2, <3>4, NextIsUnsaved, StoredElsewhere
  <2>2. CASE \E t \in Thread, level \in 1 .. Len(levels) :
               pc[t] = "merge" /\ p = Tree!LastComponent(levels, level)
    <3>1. PICK t \in Thread, level \in 1 .. Len(levels) :
            pc[t] = "merge" /\ p = Tree!LastComponent(levels, level)
      BY <2>2
    <3>2. pc[t] \in Within \ {"unlink", "unlock"}
      BY <3>1 DEF Within
    <3>3. levels \in Seq(Nat)
      BY <3>2, PlaceKeeps
    <3>4. level \in 0 .. Len(levels)
      BY <3>3
    <3> QED
      BY <1>1, <1>3, <3>1, <3>2, <3>4, NextIsUnsaved, StoredElsewhere
  <2> QED
    BY <2>1, <2>2 DEF TornPaths
<1> QED
  BY <1>2, <1>3 DEF Crash

----------------------------------------------------------------------------
(* The counts that the holder found, at the ends of an operation. *)

(* The last table of level 0 is an input of every merge.                   *)
LEMMA LastIsInput ==
  ASSUME NEW c, NEW b, NEW level, NEW sst,
         b.levels \in Seq(Nat), Fills(c, b), IsMerge(c, b, level, sst)
  PROVE  <<0, sstable_scaling_factor - 1>> \in DOMAIN FilesOf(c, b)
<1> DEFINE last == <<0, sstable_scaling_factor - 1>>
<1>1. /\ LevelsOf(b) \in Seq(Nat) /\ Len(LevelsOf(b)) >= 1
      /\ LevelsOf(b)[1] = sstable_scaling_factor
      /\ level \in 1 .. Len(LevelsOf(b))
  BY LevelsOfSeq DEF Fills, IsMerge
<1>2. LevelsOf(b)[1] \in Nat \ {0}
  <2>1. Tree!Grown(b.levels, 0) \in Seq(Nat) /\ Len(Tree!Grown(b.levels, 0)) >= 1
    <3>1. \A lv \in Seq(Nat) : Len(Tree!Grown(lv, 0)) >= 1
      BY GrownSeq DEF Tree!Grown
    <3> QED
      BY <3>1, LevelsOfSeq
  <2>2. \A lv \in Seq(Nat) : Len(lv) >= 1 => [lv EXCEPT ![1] = @ + 1][1] \in Nat \ {0}
    OBVIOUS
  <2> QED
    BY <2>1, <2>2 DEF LevelsOf
<1>3. last \in Tree!Components(LevelsOf(b))
  <2>1. 0 \in Nat /\ sstable_scaling_factor - 1 \in Nat /\ 0 < Len(LevelsOf(b))
        /\ sstable_scaling_factor - 1 < LevelsOf(b)[0 + 1]
    BY <1>1, <1>2
  <2> QED
    BY <1>1, <2>1, ComponentPairs
<1>4. last \in Tree!Inputs(LevelsOf(b), level)
  BY <1>1, <1>3 DEF Tree!Inputs
<1> QED
  BY <1>4 DEF IsMerge

LEMMA MergeLeaves ==
  ASSUME ThreadInv, NEW t \in Thread, Reset(t) \/ MergeUnwritten(t)
  PROVE  (Leftover(t) # {})'
<1> DEFINE last == <<0, sstable_scaling_factor - 1>>
           c == call[t]
<1>1. last \in DOMAIN files
  <2>1. CASE Reset(t)
    <3>1. pc[t] = "reset" /\ pc[t] \in Within
      BY <2>1 DEF Reset, Within
    <3>2. AtReset(c, before, Snapshot, at[t], created[t]) /\ before.levels \in Seq(Nat)
      BY <3>1, Inner DEF Progress
    <3>3. PICK level, sst :
            IsMerge(c, before, level, sst) /\ files = WithOutput(c, before, level, sst)
      BY <3>2 DEF AtReset, Snapshot
    <3>4. last \in DOMAIN FilesOf(c, before)
      BY <3>2, <3>3, LastIsInput DEF AtReset
    <3> QED
      BY <3>3, <3>4 DEF WithOutput, Tree!Stored
  <2>2. CASE MergeUnwritten(t)
    <3>1. pc[t] = "merge" /\ pc[t] \in Within
      BY <2>2 DEF MergeUnwritten, Within
    <3>2. AtMerge(c, before, Snapshot) /\ before.levels \in Seq(Nat)
      BY <3>1, Inner DEF Progress
    <3>3. levels = LevelsOf(before) /\ files = FilesOf(c, before) /\ Fills(c, before)
      BY <3>2 DEF AtMerge, Snapshot
    <3>4. PICK level, sst : IsMerge(c, before, level, sst)
      BY <2>2, <3>3 DEF MergeUnwritten, IsMerge
    <3> QED
      BY <3>2, <3>3, <3>4, LastIsInput
  <2> QED
    BY <2>1, <2>2
<1>2. files' = files
  BY DEF Reset, MergeUnwritten
<1> QED
  BY <1>1, <1>2 DEF Leftover, Tree!ConsumedPaths

LEMMA InsideKeeps ==
  ASSUME ThreadInv, NEW t \in Thread, Keeps(t),
         \/ WriteStep(t) /\ ~Unlink(t)
         \/ ReadStep(t) \/ Throw(t)
  PROVE  Keeps(t)' /\ pc[t] \in Within
<1>0. before' = before /\ pc \in [Thread -> Outside \cup Within]
  BY DEF WriteStep, ReadStep, Throw, tree, ThreadInv, ThreadsTyped,
         WriteMemtable, FlushThrows, Flush, CountNothing, Count, Merge, MergeUnwritten, MergeThrows, Reset,
         UnlinkedAll, FindInMemtable, SearchOn, SearchHit, SearchMiss, BeginRange,
         RangeTable, RangeNextLevel, RangeMemtable, LookupThrows
<1>1. CASE WriteMemtable(t)
  <2>1. pc[t] \in Within \ {"unlink", "unlock"} /\ levels' = levels
        /\ pc'[t] \in {"flush", "unlock"}
    BY <1>0, <1>1 DEF WriteMemtable, Goto, Within
  <2> QED
    BY <1>0, <2>1, PlaceKeeps DEF Keeps
<1>2. CASE ReadStep(t) \/ LookupThrows(t)
  <2>1. pc[t] \in Within \ {"unlink", "unlock"} /\ levels' = levels
        /\ pc'[t] \in {"search", "range", "unlock"}
    BY <1>0, <1>2
    DEF ReadStep, tree, Goto, Within,
        FindInMemtable, SearchOn, SearchHit, SearchMiss, BeginRange,
        RangeTable, RangeNextLevel, RangeMemtable, LookupThrows
  <2> QED
    BY <1>0, <2>1, PlaceKeeps DEF Keeps
<1>3. CASE FlushThrows(t)
  <2>1. pc[t] \in Within \ {"unlink", "unlock"} /\ levels' = Tree!Grown(levels, 0)
        /\ pc'[t] = "unlock"
    BY <1>0, <1>3 DEF FlushThrows, Goto, Within
  <2>2. levels \in Seq(Nat) /\ Tree!Components(before.levels) \subseteq Tree!Components(levels)
    BY <2>1, PlaceKeeps
  <2>3. 0 \in 0 .. Len(levels)
    BY <2>2
  <2> QED
    BY <1>0, <2>1, <2>2, <2>3, NextIsFree DEF Keeps
<1>4. CASE Flush(t) \/ Merge(t)
  <2>1. pc[t] \in Within /\ pc'[t] \in {"count", "reset"}
    BY <1>0, <1>4 DEF Flush, Merge, Goto, Within
  <2> QED
    BY <2>1 DEF Keeps
<1>5. CASE CountNothing(t)
  <2>1. pc[t] \in Within /\ pc'[t] = "unlock" /\ levels' = before.levels
    BY <1>0, <1>5, CountNothingRestores DEF CountNothing, Goto, Within
  <2> QED
    BY <1>0, <2>1 DEF Keeps
<1>6. CASE Count(t)
  <2>1. pc[t] \in Within \ {"unlink", "unlock"} /\ levels' = [levels EXCEPT ![1] = @ + 1]
        /\ pc[t] = "count" /\ pc'[t] \in {"merge", "unlock"}
    BY <1>0, <1>6 DEF Count, Goto, Within
  <2>2. levels \in Seq(Nat) /\ Tree!Components(before.levels) \subseteq Tree!Components(levels)
    BY <2>1, PlaceKeeps
  <2>3. Len(levels) >= 1
    <3>1. \A lv \in Seq(Nat) : Len(Tree!Grown(lv, 0)) >= 1
      BY GrownSeq DEF Tree!Grown
    <3> QED
      BY <2>1, <3>1, Inner DEF Progress, AtCount, Snapshot
  <2> QED
    BY <1>0, <2>1, <2>2, <2>3, CountingKeeps DEF Keeps
<1>7. CASE MergeThrows(t)
  <2>1. pc[t] \in Within \ {"unlink", "unlock"} /\ pc'[t] = "unlock"
    BY <1>0, <1>7 DEF MergeThrows, Goto, Within
  <2>2. levels \in Seq(Nat) /\ Tree!Components(before.levels) \subseteq Tree!Components(levels)
    BY <2>1, PlaceKeeps
  <2>3. PICK level \in 1 .. Len(levels) : levels' = Tree!Grown(levels, level)
    BY <1>7 DEF MergeThrows, MergeInto
  <2>4. level \in 0 .. Len(levels)
    BY <2>2
  <2> QED
    BY <1>0, <2>1, <2>2, <2>3, <2>4, NextIsFree DEF Keeps
<1>8. CASE Reset(t) \/ MergeUnwritten(t)
  <2>1. pc[t] \in Within /\ pc'[t] = "unlink"
    BY <1>0, <1>8 DEF Reset, MergeUnwritten, Goto, Within
  <2> QED
    BY <1>8, <2>1, MergeLeaves DEF Keeps
<1>9. CASE UnlinkedAll(t)
  BY <1>9 DEF UnlinkedAll, Keeps
<1> QED
  BY <1>1, <1>2, <1>3, <1>4, <1>5, <1>6, <1>7, <1>8, <1>9 DEF WriteStep, Throw

----------------------------------------------------------------------------
(* Every step keeps the invariant. *)

LEMMA ProceedIsNext ==
  ASSUME "compaction" \notin Faults, ThreadInv, broken \in BOOLEAN, NEW t \in Thread, Proceed(t)
  PROVE  /\ Next /\ open /\ UNCHANGED <<tree_data, open, broken>>
         /\ safe' = (safe /\ ~Unlink(t))
         /\ Unlink(t) \/ Harmless(t)
<1>1. Next /\ broken' = broken /\ safe' = (safe /\ ~Unlink(t)) /\ (Unlink(t) \/ Harmless(t))
  <2>1. ~MergeUnwritten(t)
    BY DEF MergeUnwritten
  <2>2. broken' = broken
    BY <2>1 DEF Proceed, CrashInv
  <2> QED
    BY <2>2 DEF Proceed, Next, Harmless
<1>2. UNCHANGED <<tree_data, open>>
  BY <1>1
  DEF Harmless, Step, WriteStep, ReadStep, Throw, Lock, Unlock, Return, Call, tree,
      WriteMemtable, FlushThrows, Flush, CountNothing, Count, Merge, MergeUnwritten, MergeThrows, Reset,
      Unlink, UnlinkedAll, FindInMemtable, SearchOn, SearchHit, SearchMiss, BeginRange,
      RangeTable, RangeNextLevel, RangeMemtable, LookupThrows
<1>3. pc[t] # "idle" \/ open
  BY DEF Proceed, Step, WriteStep, ReadStep, Throw, Lock, Unlock, Return, Call,
         WriteMemtable, FlushThrows, Flush, CountNothing, Count, Merge, MergeUnwritten, MergeThrows, Reset,
         Unlink, UnlinkedAll, FindInMemtable, SearchOn, SearchHit, SearchMiss, BeginRange,
         RangeTable, RangeNextLevel, RangeMemtable, LookupThrows
<1> QED
  BY <1>1, <1>2, <1>3 DEF ThreadInv, ThreadsTyped

(* Only a write that unlocks changes the tree that is seen.                *)
LEMMA SeenStays ==
  ASSUME ThreadInv, NEW t \in Thread, Unlink(t) \/ Harmless(t),
         ~ (Unlock(t) /\ call[t].op = "Insert")
  PROVE  UNCHANGED Atomic!vars
<1>1. CASE Unlock(t)
  <2>1. /\ pc[t] = "unlock" /\ pc[t] \in Within /\ mtx_' = nullopt
        /\ UNCHANGED <<memtable, levels, files, tree_data, open>>
    BY <1>1 DEF Unlock, tree, Within
  <2>2. Seen = before /\ Snapshot = before
    BY <1>1, <2>1, Inner DEF Progress
  <2>3. Seen' = Snapshot
    BY <2>1 DEF Seen, Snapshot
  <2> QED
    BY <2>1, <2>2, <2>3 DEF Atomic!vars
<1>2. CASE Lock(t) \/ Return(t) \/ \E c \in Abstract!Calls : Call(t, c)
  BY <1>2, LockKeeps, ReturnKeeps, CallKeeps
<1>3. CASE WriteStep(t) \/ ReadStep(t) \/ Throw(t)
  BY <1>3, WriteMemtableKeeps, FlushKeeps, CountNothingKeeps, CountKeeps, MergeKeeps,
     MergeUnwrittenKeeps, ResetKeeps, UnlinkKeeps, UnlinkedAllKeeps, FlushThrowsKeeps, MergeThrowsKeeps, LookupKeeps
  DEF WriteStep, Throw
<1> QED
  BY <1>1, <1>2, <1>3 DEF Harmless, Step, WriteStep

LEMMA SavedReadableKept ==
  ASSUME SavedReadable, SavedUntouched, tree_data' = tree_data, safe' => safe
  PROVE  SavedReadable'
BY DEF SavedReadable, SavedUntouched, SavedTables

(* The other threads wait for the mutex or are outside.                    *)
LEMMA KeepsStep ==
  ASSUME ThreadInv, ThreadInv', \A u \in Thread : Keeps(u), NEW t \in Thread, Harmless(t)
  PROVE  \A u \in Thread : Keeps(u)'
<1>1. CASE WriteStep(t) \/ ReadStep(t) \/ Throw(t)
  <2>1. Keeps(t)' /\ pc[t] \in Within
    BY <1>1, InsideKeeps DEF Harmless, Step, Unlink, WriteStep, ReadStep, Throw,
       Lock, Unlock, Return, Call, FlushThrows, MergeThrows, LookupThrows
  <2>2. mtx_ = t /\ mtx_' = mtx_
    BY <1>1, <2>1, Inner
    DEF WriteStep, ReadStep, Throw, tree,
        WriteMemtable, FlushThrows, Flush, CountNothing, Count, Merge, MergeUnwritten, MergeThrows, Reset,
        Unlink, UnlinkedAll, FindInMemtable, SearchOn, SearchHit, SearchMiss, BeginRange,
        RangeTable, RangeNextLevel, RangeMemtable, LookupThrows
  <2>3. \A u \in Thread : pc'[u] \in Within => u = t
    BY <2>2 DEF ThreadInv, Mutex
  <2> QED
    BY <2>1, <2>3 DEF Keeps, Within
<1>2. CASE Lock(t)
  <2>1. mtx_' = t /\ pc'[t] = call[t].op /\ call[t].op \in {"Insert", "Find", "FindRange"}
    BY <1>2 DEF Lock, Acquire, Goto, ThreadInv, ThreadsTyped, Abstract!Calls
  <2>2. \A u \in Thread : pc'[u] \in Within => u = t
    BY <2>1 DEF ThreadInv, Mutex
  <2> QED
    BY <2>1, <2>2 DEF Keeps, Within
<1>3. CASE Unlock(t)
  <2>1. \A u \in Thread : pc'[u] \notin Within
    BY <1>3, ThreadAssumption DEF Unlock, ThreadInv, Mutex
  <2> QED
    BY <2>1 DEF Keeps, Within
<1>4. CASE Return(t) \/ \E c \in Abstract!Calls : Call(t, c)
  <2>1. /\ pc'[t] \in {"idle", "lock"} /\ pc[t] \in {"idle", "returned"}
        /\ \A u \in Thread \ {t} : pc'[u] = pc[u] /\ at'[u] = at[u]
        /\ UNCHANGED <<levels, files, before>>
    BY <1>4 DEF Return, Call, Goto, tree, ThreadInv, ThreadsTyped
  <2>2. pc'[t] \notin {"unlock", "unlink"}
    BY <2>1
  <2> QED
    BY <2>1, <2>2 DEF Keeps, Leftover
<1> QED
  BY <1>1, <1>2, <1>3, <1>4 DEF Harmless, Step

LEMMA ProceedKeeps ==
  ASSUME "compaction" \notin Faults, CrashInv, NEW t \in Thread, Proceed(t)
  PROVE  CrashInv'
<1>1. /\ Next /\ open /\ UNCHANGED <<tree_data, open, broken>>
      /\ safe' = (safe /\ ~Unlink(t)) /\ (Unlink(t) \/ Harmless(t))
  BY ProceedIsNext DEF CrashInv
<1>2. ThreadInv' /\ [Atomic!Next]_(Atomic!vars)
  BY <1>1, ThreadStep DEF CrashInv
<1>3. Sequential!TypeOK'
  BY <1>2, SequentialStep, Sequential!TypeStep, SequentialAssumptions DEF CrashInv
<1>4. /\ safe' \in BOOLEAN /\ broken' \in BOOLEAN
      /\ safe' => safe /\ Harmless(t)
  <2>1. safe' \in BOOLEAN
    BY <1>1, Zenon
  <2>2. broken' \in BOOLEAN
    BY <1>1 DEF CrashInv
  <2> QED
    BY <1>1, <2>1, <2>2
<1>5. SavedReadable'
  <2>1. CASE ~safe'
    BY <2>1 DEF SavedReadable
  <2>2. CASE safe'
    BY <1>1, <1>4, <2>2, HarmlessLeavesSaved, SavedReadableKept DEF CrashInv
  <2> QED
    BY <2>1, <2>2
<1>6. LiveReadable'
  <2> SUFFICES ASSUME ~broken PROVE Sequential!ComponentsReadable'
    BY <1>1 DEF LiveReadable
  <2>1. Sequential!ComponentsReadable
    BY <1>1 DEF CrashInv, LiveReadable
  <2>2. CASE Unlock(t) /\ call[t].op = "Insert"
    BY <2>1, <2>2, WriteTakesEffect DEF CrashInv, SeenInv, Sequential!WholeMerges
  <2>3. CASE ~ (Unlock(t) /\ call[t].op = "Insert")
    <3>1. UNCHANGED Atomic!vars
      BY <1>1, <2>3, SeenStays DEF CrashInv
    <3> QED
      BY <2>1, <3>1
      DEF Atomic!vars, Sequential!ComponentsReadable, Sequential!CurrentLevels,
          Sequential!Components, Sequential!EmptyTable
  <2> QED
    BY <2>2, <2>3
<1>7. SavedCounted'
  <2> SUFFICES ASSUME safe'
               PROVE  /\ SavedTables \subseteq Tree!Components(Seen'.levels)
                      /\ \A u \in Thread : Keeps(u)'
    <3>1. SavedTables' = SavedTables
      BY <1>1 DEF SavedTables
    <3> QED
      BY <3>1 DEF SavedCounted
  <2>1. safe /\ Harmless(t) /\ SavedTables \subseteq Tree!Components(Seen.levels)
        /\ \A u \in Thread : Keeps(u)
    BY <1>1, <1>4 DEF CrashInv, SavedCounted
  <2>2. \A u \in Thread : Keeps(u)'
    BY <1>2, <2>1, KeepsStep DEF CrashInv
  <2>3. CASE Unlock(t)
    <3>1. Seen = before /\ pc[t] = "unlock" /\ Seen'.levels = levels
      BY <2>3, Inner DEF Unlock, Within, tree, CrashInv, Seen, Snapshot
    <3> QED
      BY <2>1, <2>2, <3>1 DEF Keeps
  <2>4. CASE ~Unlock(t)
    <3>1. Seen'.levels = Seen.levels
      BY <2>1, <2>4, SeenStays DEF CrashInv, Atomic!vars
    <3> QED
      BY <2>1, <2>2, <3>1
  <2> QED
    BY <2>3, <2>4
<1> QED
  BY <1>2, <1>3, <1>4, <1>5, <1>6, <1>7 DEF CrashInv

(* Nobody is inside while an object is made or destroyed.                  *)
LEMMA AllIdle ==
  ASSUME ThreadInv, \A t \in Thread : pc[t] = "idle", UNCHANGED <<mtx_, pc, before>>
  PROVE  /\ mtx_ = nullopt /\ Seen = Snapshot /\ Seen' = Snapshot'
         /\ Seen.levels = levels /\ Seen'.levels = levels'
         /\ Seen.files = files /\ Seen'.files = files'
         /\ Seen.memtable = memtable /\ Seen'.memtable = memtable'
         /\ \A t \in Thread : Keeps(t)'
<1>1. mtx_ = nullopt
  BY DEF ThreadInv, ThreadsTyped, Mutex, Within
<1>2. \A t \in Thread : pc'[t] = "idle"
  OBVIOUS
<1> QED
  BY <1>1, <1>2 DEF Seen, Snapshot, Keeps

LEMMA SessionTypes ==
  ASSUME ThreadInv, Sequential!TypeOK, Session \/ DestroyUnsaved
  PROVE  ThreadInv' /\ Sequential!TypeOK'
<1>1. CASE Session
  BY <1>1, SessionKeeps, SequentialStep, Sequential!TypeStep, SequentialAssumptions
<1>2. CASE DestroyUnsaved
  <2>1. /\ \A t \in Thread : pc[t] = "idle"
        /\ UNCHANGED <<mtx_, pc, call, at, created, before>>
        /\ Tree!CloseUnsaved
    BY <1>2 DEF DestroyUnsaved
  <2>2. /\ mtx_ = nullopt /\ Seen'.levels = levels' /\ Seen'.files = files'
        /\ Seen'.memtable = memtable' /\ Seen.levels = levels /\ Seen.files = files
        /\ Seen.memtable = memtable
    BY <2>1, AllIdle
  <2>3. ThreadsTyped' /\ Mutex' /\ HolderInv'
    BY <2>1, <2>2, CallsStay, ThreadAssumption DEF ThreadInv, ThreadsTyped, Mutex, HolderInv
  <2>4. CountsTyped'
    BY <2>1, <2>2 DEF Tree!CloseUnsaved, Tree!Destroyed, ThreadInv, CountsTyped
  <2>5. Atomic!CloseUnsaved
    BY <2>1, <2>2, SameOperators
    DEF Tree!CloseUnsaved, Tree!Destroyed, Atomic!CloseUnsaved, Atomic!Destroyed
  <2>6. [Sequential!Next]_(Sequential!vars)
    BY <2>5, SequentialStep DEF Atomic!Next
  <2> QED
    BY <2>3, <2>4, <2>6, Sequential!TypeStep, SequentialAssumptions DEF ThreadInv
<1> QED
  BY <1>1, <1>2

LEMMA SessionKeepsCrashInv ==
  ASSUME CrashInv, NewTree \/ LoadTree \/ SaveTree \/ DestroyUnsaved
  PROVE  CrashInv'
<1>1. ThreadInv' /\ Sequential!TypeOK'
  BY SessionTypes DEF CrashInv, NewTree, LoadTree, SaveTree
<1>2. /\ mtx_ = nullopt
      /\ Seen.levels = levels /\ Seen'.levels = levels'
      /\ Seen.files = files /\ Seen'.files = files'
      /\ \A t \in Thread : Keeps(t)'
  BY AllIdle DEF CrashInv, NewTree, LoadTree, SaveTree, DestroyUnsaved, Session
<1>3. CASE NewTree
  <2>1. /\ safe' = FALSE /\ broken' = FALSE /\ levels' = <<>>
    BY <1>3 DEF NewTree, Tree!Create
  <2>2. safe' \in BOOLEAN /\ broken' \in BOOLEAN
    BY <2>1, Zenon
  <2>3. Sequential!ComponentsReadable'
    <3>1. open' = TRUE /\ Seen'.levels = <<>>
      BY <1>2, <1>3, <2>1 DEF NewTree, Tree!Create
    <3> QED
      BY <3>1 DEF Sequential!ComponentsReadable, Sequential!CurrentLevels, Sequential!Components
  <2> QED
    BY <1>1, <2>1, <2>2, <2>3 DEF CrashInv, SavedReadable, LiveReadable, SavedCounted
<1>4. CASE LoadTree
  <2>1. /\ open' = TRUE /\ levels' = tree_data.levels /\ files' = files /\ tree_data' = tree_data
        /\ safe' = safe /\ broken' = ~safe
    BY <1>4 DEF LoadTree, Tree!Load
  <2>2. safe' \in BOOLEAN /\ broken' \in BOOLEAN
    <3>1. broken' \in BOOLEAN
      BY <2>1, Zenon
    <3> QED
      BY <2>1, <3>1 DEF CrashInv
  <2>3. SavedReadable'
    BY <2>1 DEF CrashInv, SavedReadable
  <2>4. LiveReadable'
    <3> SUFFICES ASSUME safe PROVE Sequential!ComponentsReadable'
      BY <2>1 DEF LiveReadable
    <3>1. \A p \in Sequential!Components(tree_data.levels) :
            p \in DOMAIN files /\ files[p].kv # Sequential!EmptyTable
      BY SequentialComponents DEF CrashInv, SavedReadable
    <3>2. Seen'.levels = tree_data.levels /\ Seen'.files = files
      BY <1>2, <2>1
    <3> QED
      BY <2>1, <3>1, <3>2
      DEF Sequential!ComponentsReadable, Sequential!CurrentLevels, Sequential!Components,
          Sequential!EmptyTable
  <2>5. SavedCounted'
    BY <1>2, <2>1 DEF SavedCounted, SavedTables
  <2> QED
    BY <1>1, <2>2, <2>3, <2>4, <2>5 DEF CrashInv
<1>5. CASE SaveTree
  <2>1. /\ open /\ open' = FALSE /\ tree_data' = [memtable |-> memtable, levels |-> levels]
        /\ files' = files /\ safe' = ~broken /\ broken' = FALSE
    BY <1>5 DEF SaveTree, Tree!Close, Tree!Destroyed
  <2>2. safe' \in BOOLEAN /\ broken' \in BOOLEAN
    BY <2>1, Zenon
  <2>3. SavedReadable'
    <3> SUFFICES ASSUME ~broken
                 PROVE  /\ tree_data' # nullopt
                        /\ \A p \in Tree!Components(levels) :
                             p \in DOMAIN files /\ files[p].kv # Tree!EmptyTable
      <4>1. safe' => ~broken
        BY <2>1
      <4>2. tree_data'.levels = levels
        BY <2>1
      <4> QED
        BY <2>1, <4>1, <4>2 DEF SavedReadable, Tree!EmptyTable, Tree!Components
    <3>1. Sequential!ComponentsReadable
      BY <2>1 DEF CrashInv, LiveReadable
    <3>2. \A p \in Sequential!Components(levels) :
            p \in DOMAIN files /\ files[p].kv # Sequential!EmptyTable
      BY <1>2, <2>1, <3>1 DEF Sequential!ComponentsReadable, Sequential!CurrentLevels
    <3>3. tree_data' \in Sequential!SavedTree
      <4>1. memtable \in Sequential!Table /\ levels \in Seq(Nat)
        BY <1>2, AllIdle, <1>5 DEF CrashInv, Sequential!TypeOK, SaveTree, Session
      <4> QED
        BY <2>1, <4>1 DEF Sequential!SavedTree
    <3>4. tree_data' # nullopt
      BY <3>3, SequentialAssumptions DEF Sequential!SavedTreeAssumption
    <3> QED
      BY <3>2, <3>4, SequentialComponents
  <2> QED
    BY <1>1, <2>1, <2>2, <2>3 DEF CrashInv, LiveReadable, SavedCounted
<1>6. CASE DestroyUnsaved
  <2>1. /\ open' = FALSE /\ tree_data' = tree_data /\ files' = files
        /\ safe' = safe /\ broken' = FALSE
    BY <1>6 DEF DestroyUnsaved, Tree!CloseUnsaved, Tree!Destroyed
  <2>2. safe' \in BOOLEAN /\ broken' \in BOOLEAN
    <3>1. broken' \in BOOLEAN
      BY <2>1, Zenon
    <3> QED
      BY <2>1, <3>1 DEF CrashInv
  <2>3. SavedReadable'
    BY <2>1 DEF CrashInv, SavedReadable
  <2> QED
    BY <1>1, <2>1, <2>2, <2>3 DEF CrashInv, LiveReadable, SavedCounted
<1> QED
  BY <1>3, <1>4, <1>5, <1>6

LEMMA CrashKeepsCrashInv ==
  ASSUME CrashInv, Crash
  PROVE  CrashInv'
<1>1. /\ open /\ open' = FALSE /\ levels' = <<>> /\ memtable' = Tree!EmptyTable
      /\ mtx_' = nullopt
      /\ pc' = [t \in Thread |-> "idle"] /\ call' = [t \in Thread |-> nullopt]
      /\ at' = [t \in Thread |-> <<0, 0>>] /\ created' = [t \in Thread |-> FALSE]
      /\ tree_data' = tree_data /\ safe' = safe /\ broken' = FALSE
  BY DEF Crash
<1>2. Seen'.levels = levels' /\ Seen'.files = files' /\ Seen'.memtable = memtable'
  BY <1>1 DEF Seen, Snapshot
<1>3. ThreadInv'
  <2>1. ThreadsTyped' /\ Mutex' /\ HolderInv'
    BY <1>1, ThreadAssumption DEF ThreadsTyped, Mutex, HolderInv, Outside, Within
  <2>2. CountsTyped'
    BY <1>1, <1>2 DEF CrashInv, ThreadInv, CountsTyped
  <2> QED
    BY <2>1, <2>2 DEF ThreadInv
<1>4. Sequential!FilesOK(files')
  <2>1. Sequential!FilesOK(files)
    BY LiveFiles DEF CrashInv
  <2>2. ASSUME NEW p \in TornPaths, files' = Tree!Stored(files, p, Tree!ZeroBytes)
        PROVE  Sequential!FilesOK(files')
    <3>1. p \in Sequential!Path
      <4>1. CASE \E t \in Thread : pc[t] = "flush" /\ p = Tree!LastComponent(levels, 0)
        <5>1. \E t \in Thread : pc[t] \in Within \ {"unlink", "unlock"}
          BY <4>1 DEF Within
        <5>2. levels \in Seq(Nat)
          BY <5>1, PlaceKeeps DEF CrashInv
        <5>3. 0 \in 0 .. Len(levels)
          BY <5>2
        <5> QED
          BY <4>1, <5>2, <5>3, NextIsFree DEF Sequential!Path
      <4>2. CASE \E t \in Thread, level \in 1 .. Len(levels) :
                   pc[t] = "merge" /\ p = Tree!LastComponent(levels, level)
        <5>1. \E t \in Thread : pc[t] \in Within \ {"unlink", "unlock"}
          BY <4>2 DEF Within
        <5>2. levels \in Seq(Nat)
          BY <5>1, PlaceKeeps DEF CrashInv
        <5>3. \A level \in 1 .. Len(levels) : level \in 0 .. Len(levels)
          BY <5>2
        <5> QED
          BY <4>2, <5>2, <5>3, NextIsFree DEF Sequential!Path
      <4> QED
        BY <4>1, <4>2 DEF TornPaths
    <3>2. Tree!ZeroBytes \in Sequential!SSTable
      BY Sequential!TableTypes, SequentialAssumptions, SequentialComponents
    <3>3. files' = Sequential!Stored(files, p, Tree!ZeroBytes)
      BY <2>2 DEF Sequential!Stored, Tree!Stored
    <3> QED
      BY <2>1, <3>1, <3>2, <3>3, Sequential!StoredType, SequentialAssumptions
  <2>3. files' = files \/ \E p \in TornPaths : files' = Tree!Stored(files, p, Tree!ZeroBytes)
    BY DEF Crash
  <2> QED
    BY <2>1, <2>2, <2>3
<1>5. Sequential!TypeOK'
  <2>1. open' \in BOOLEAN
    BY <1>1, Zenon
  <2>2. memtable' \in Sequential!Table
    BY <1>1, Sequential!TableTypes, SequentialAssumptions, SequentialComponents
  <2>3. tree_data' \in Sequential!SavedTree \cup {nullopt}
    BY <1>1 DEF CrashInv, Sequential!TypeOK
  <2>4. \A p \in DOMAIN files' : files'[p] \in Sequential!SSTable
    BY <1>4 DEF Sequential!FilesOK
  <2>5. DOMAIN files' \subseteq Sequential!Path
    BY <1>4 DEF Sequential!FilesOK
  <2> QED
    BY <1>1, <1>2, <2>1, <2>2, <2>3, <2>4, <2>5
    DEF Sequential!TypeOK, Sequential!Table, Sequential!Entry, Sequential!Path,
        Sequential!SSTable, Sequential!SavedTree
<1>6. safe' \in BOOLEAN /\ broken' \in BOOLEAN
  <2>1. broken' \in BOOLEAN
    BY <1>1, Zenon
  <2> QED
    BY <1>1, <2>1 DEF CrashInv
<1>7. SavedReadable'
  <2>1. CASE safe
    BY <1>1, <2>1, CrashLeavesSaved, SavedReadableKept DEF CrashInv
  <2>2. CASE ~safe
    BY <1>1, <2>2 DEF SavedReadable
  <2> QED
    BY <2>1, <2>2
<1> QED
  BY <1>1, <1>3, <1>5, <1>6, <1>7 DEF CrashInv, LiveReadable, SavedCounted

LEMMA CrashInvStep ==
  ASSUME "compaction" \notin Faults, CrashInv, [CrashNext]_crashVars
  PROVE  CrashInv'
<1>1. CASE UNCHANGED crashVars
  <2>1. UNCHANGED vars /\ UNCHANGED <<safe, broken>>
    BY <1>1 DEF crashVars
  <2>2. ThreadInv' /\ [Atomic!Next]_(Atomic!vars)
    BY <2>1, ThreadStep DEF CrashInv
  <2>3. Sequential!TypeOK'
    BY <2>2, SequentialStep, Sequential!TypeStep, SequentialAssumptions DEF CrashInv
  <2>4. Seen' = Seen
    BY <2>1 DEF vars, Seen, Snapshot
  <2>5. SavedReadable' /\ LiveReadable'
    BY <2>1, <2>4
    DEF vars, CrashInv, SavedReadable, LiveReadable, Sequential!ComponentsReadable,
        Sequential!CurrentLevels
  <2>6. SavedCounted'
    BY <2>1, <2>4 DEF vars, CrashInv, SavedCounted, SavedTables, Keeps, Leftover
  <2> QED
    BY <2>1, <2>2, <2>3, <2>5, <2>6 DEF CrashInv
<1> QED
  BY <1>1, ProceedKeeps, SessionKeepsCrashInv, CrashKeepsCrashInv DEF CrashNext

LEMMA CrashInvAlways ==
  ASSUME "compaction" \notin Faults
  PROVE  CrashSpec => []CrashInv
<1>1. CrashInv /\ [CrashNext]_crashVars => CrashInv'
  BY CrashInvStep
<1> QED
  BY <1>1, CrashInvInit, PTL DEF CrashSpec

(* Whatever thread is where when the process dies, how often it dies, and  *)
(* what files it leaves: as long as no merge has unlinked its inputs, the  *)
(* tables that the saved file names are on disk and whole.                 *)
THEOREM SavedAlwaysReadable ==
  ASSUME "compaction" \notin Faults
  PROVE  CrashSpec => []SavedReadable
<1>1. CrashInv => SavedReadable
  BY DEF CrashInv
<1> QED
  BY <1>1, CrashInvAlways, PTL

----------------------------------------------------------------------------
(* Crashes as they are seen from outside. *)

LEMMA SameLookup ==
  \A mem, lv, fs, k : /\ Tree!Lookup(mem, lv, fs, k) = Sequential!Lookup(mem, lv, fs, k)
                      /\ Atomic!Lookup(mem, lv, fs, k) = Sequential!Lookup(mem, lv, fs, k)
BY DEF Atomic!Lookup, Tree!Lookup, Sequential!Lookup,
       Atomic!Visible, Tree!Visible, Sequential!Visible,
       Atomic!NewestEntry, Tree!NewestEntry, Sequential!NewestEntry,
       Atomic!Newest, Tree!Newest, Sequential!Newest,
       Atomic!Newer, Tree!Newer, Sequential!Newer,
       Atomic!Holding, Tree!Holding, Sequential!Holding,
       Atomic!Components, Tree!Components, Sequential!Components

ContentsIn(mem, lv, fs) == [k \in Key |-> Sequential!Lookup(mem, lv, fs, k)]

(* The map of an open session, and the saved one. *)
LEMMA ContentsAre ==
  /\ open => Atomic!Contents = ContentsIn(Seen.memtable, Seen.levels, Seen.files)
  /\ SavedContents = IF safe THEN ContentsIn(tree_data.memtable, tree_data.levels, files)
                     ELSE Durable!Nothing
  /\ Tree!EmptyTable = Durable!Nothing
BY SameLookup
DEF Atomic!Contents, Atomic!ContentsOf, SavedContents, Tree!ContentsOf, ContentsIn,
    Tree!EmptyTable, Durable!Nothing

LEMMA PromisedIs ==
  /\ open => Promised = IF broken THEN Durable!Nothing ELSE Atomic!Contents
  /\ ~safe => SavedContents = Durable!Nothing
BY ContentsAre DEF Promised

LEMMA NothingIn ==
  \A fs : ContentsIn(Tree!EmptyTable, <<>>, fs) = Durable!Nothing
<1>1. Sequential!Store!Nothing = Durable!Nothing
  BY DEF Sequential!Store!Nothing, Durable!Nothing
<1> QED
  BY <1>1, Sequential!NoContents, SequentialAssumptions, SequentialComponents DEF ContentsIn

(* The saved map is what it was as long as its tables are untouched.       *)
LEMMA SavedContentsStay ==
  ASSUME CrashInv, safe => SavedUntouched, tree_data' = tree_data, safe' = safe
  PROVE  SavedContents' = SavedContents
<1> DEFINE mem == tree_data.memtable
           lv  == tree_data.levels
<1>1. (SavedContents = IF safe THEN ContentsIn(mem, lv, files) ELSE Durable!Nothing)'
  BY ContentsAre, PTL
<1>2. CASE ~safe
  BY <1>1, <1>2, ContentsAre DEF Durable!Nothing
<1>3. CASE safe
  <2>1. lv \in Seq(Nat) /\ SavedUntouched
        /\ \A p \in Sequential!Components(lv) : p \in DOMAIN files
    BY <1>3, SequentialComponents
    DEF CrashInv, SavedReadable, Sequential!TypeOK, Sequential!SavedTree
  <2>2. \A p \in Sequential!Components(lv) :
          p \in DOMAIN files /\ p \in DOMAIN files' /\ files[p] = files'[p]
    BY <2>1, SequentialComponents DEF SavedUntouched, SavedTables
  <2> HIDE DEF lv, mem
  <2>3. \A k : Sequential!NewestEntry(files, Sequential!Components(lv), k)
                 = Sequential!NewestEntry(files', Sequential!Components(lv), k)
    BY <2>1, <2>2, Sequential!NewestEntrySame, SequentialAssumptions
  <2>4. ContentsIn(mem, lv, files') = ContentsIn(mem, lv, files)
    BY <2>3 DEF ContentsIn, Sequential!Lookup
  <2>5. mem' = mem /\ lv' = lv
    BY DEF mem, lv
  <2>6. SavedContents' = ContentsIn(mem, lv, files')
    BY <1>1, <1>3, <2>5 DEF ContentsIn
  <2>7. SavedContents = ContentsIn(mem, lv, files)
    BY <1>3, ContentsAre DEF mem, lv
  <2> QED
    BY <2>4, <2>6, <2>7
<1> QED
  BY <1>2, <1>3

LEMMA ProceedDurable ==
  ASSUME "compaction" \notin Faults, CrashInv, NEW t \in Thread, Proceed(t)
  PROVE  [Durable!Next]_(Durable!vars)
<1>1. /\ open /\ UNCHANGED <<tree_data, open, broken>>
      /\ safe' = (safe /\ ~Unlink(t)) /\ (Unlink(t) \/ Harmless(t))
  BY ProceedIsNext DEF CrashInv
<1>2. Promised = IF broken THEN Durable!Nothing ELSE Atomic!Contents
  BY <1>1, PromisedIs
<1>3. Promised' = IF broken THEN Durable!Nothing ELSE Atomic!Contents'
  <2>1. (open => Promised = IF broken THEN Durable!Nothing ELSE Atomic!Contents)'
    BY PromisedIs, PTL
  <2> QED
    BY <1>1, <2>1 DEF Durable!Nothing
<1>4. CASE Unlink(t)
  <2>1. safe' = FALSE
    BY <1>1, <1>4, Zenon
  <2>2. Promised' = Promised
    <3>1. ~Unlock(t)
      BY <1>4 DEF Unlink, Unlock
    <3>2. UNCHANGED Atomic!vars
      BY <1>1, <3>1, SeenStays DEF CrashInv
    <3> QED
      BY <1>2, <1>3, <3>2, SameContents
  <2>3. SavedContents' = Durable!Nothing
    <3>1. (~safe => SavedContents = Durable!Nothing)'
      BY PromisedIs, PTL
    <3> QED
      BY <2>1, <3>1 DEF Durable!Nothing
  <2>4. Durable!Discard
    BY <1>1, <2>1, <2>2, <2>3 DEF Durable!Discard
  <2> QED
    BY <2>4 DEF Durable!Next
<1>5. CASE ~Unlink(t)
  <2>1. Harmless(t)
    BY <1>1, <1>5
  <2>2. safe' = safe
    <3>1. safe \in BOOLEAN
      BY DEF CrashInv
    <3> QED
      BY <1>1, <1>5, <3>1, Zenon
  <2>3. safe => SavedUntouched
    BY <1>1, <2>1, HarmlessLeavesSaved DEF CrashInv
  <2>4. SavedContents' = SavedContents
    BY <1>1, <2>2, <2>3, SavedContentsStay
  <2>5. CASE Unlock(t) /\ call[t].op = "Insert" /\ ~broken
    <3> DEFINE k == call[t].key
               v == IF call[t].entry = Empty THEN nullopt ELSE call[t].entry
    <3>1. SeenInv
      BY <1>1, <2>5 DEF CrashInv, LiveReadable, SeenInv
    <3>2. k \in Key /\ v \in Value \cup {nullopt} /\ Atomic!Contents' = [Atomic!Contents EXCEPT ![k] = v]
      BY <2>5, <3>1, WriteTakesEffect DEF CrashInv, Sequential!WholeMerges
    <3>3. Durable!Write(k, v)
      BY <1>1, <1>2, <1>3, <2>2, <2>4, <2>5, <3>2 DEF Durable!Write
    <3> QED
      BY <3>2, <3>3 DEF Durable!Next
  <2>6. CASE ~ (Unlock(t) /\ call[t].op = "Insert" /\ ~broken)
    <3>1. Promised' = Promised
      <4>1. CASE broken
        BY <1>2, <1>3, <4>1
      <4>2. CASE ~broken
        BY <1>1, <1>2, <1>3, <2>6, <4>2, SeenStays, SameContents DEF CrashInv
      <4> QED
        BY <4>1, <4>2
    <3> QED
      BY <1>1, <2>2, <2>4, <3>1 DEF Durable!vars
  <2> QED
    BY <2>5, <2>6
<1> QED
  BY <1>4, <1>5

LEMMA SessionDurable ==
  ASSUME CrashInv, NewTree \/ LoadTree \/ SaveTree
  PROVE  Durable!Next
<1>1. /\ Seen = Snapshot /\ Seen' = Snapshot'
      /\ Seen.levels = levels /\ Seen'.levels = levels'
      /\ Seen.files = files /\ Seen'.files = files'
      /\ Seen.memtable = memtable /\ Seen'.memtable = memtable'
  BY AllIdle DEF CrashInv, NewTree, LoadTree, SaveTree, Session
<1>2. /\ open => Atomic!Contents = ContentsIn(memtable, levels, files)
      /\ SavedContents = IF safe THEN ContentsIn(tree_data.memtable, tree_data.levels, files)
                         ELSE Durable!Nothing
  BY <1>1, ContentsAre
<1>3. /\ open' => Atomic!Contents' = ContentsIn(memtable', levels', files')
      /\ SavedContents' = IF safe' THEN ContentsIn(tree_data'.memtable, tree_data'.levels, files')
                          ELSE Durable!Nothing
  <2>1. /\ (open => Atomic!Contents = ContentsIn(Seen.memtable, Seen.levels, Seen.files))'
        /\ (SavedContents = IF safe THEN ContentsIn(tree_data.memtable, tree_data.levels, files)
                            ELSE Durable!Nothing)'
    BY ContentsAre, PTL
  <2> QED
    BY <1>1, <2>1 DEF ContentsIn, Durable!Nothing
<1>4. /\ Promised = IF open THEN IF broken THEN Durable!Nothing ELSE Atomic!Contents
                    ELSE SavedContents
      /\ Promised' = IF open' THEN IF broken' THEN Durable!Nothing ELSE Atomic!Contents'
                     ELSE SavedContents'
  BY ContentsAre DEF Promised, Durable!Nothing, Tree!EmptyTable
<1>5. CASE NewTree
  <2>1. /\ ~open /\ open' = TRUE /\ safe' = FALSE /\ broken' = FALSE
        /\ memtable' = Tree!EmptyTable /\ levels' = <<>>
    BY <1>5 DEF NewTree, Tree!Create
  <2>2. Promised' = Durable!Nothing /\ SavedContents' = Durable!Nothing
    BY <1>3, <1>4, <2>1, NothingIn
  <2>3. Durable!Create
    BY <2>1, <2>2 DEF Durable!Create
  <2> QED
    BY <2>3 DEF Durable!Next
<1>6. CASE LoadTree
  <2>1. /\ ~open /\ open' = TRUE /\ broken' = ~safe
        /\ memtable' = tree_data.memtable /\ levels' = tree_data.levels
        /\ UNCHANGED <<files, tree_data, safe>>
    BY <1>6 DEF LoadTree, Tree!Load
  <2>2. Promised = SavedContents
    BY <1>4, <2>1
  <2>3. SavedContents' = SavedContents
    BY <1>2, <1>3, <2>1
  <2>4. Promised' = SavedContents
    <3>1. CASE safe
      <4>1. ~broken'
        BY <2>1, <3>1
      <4> QED
        BY <1>2, <1>3, <1>4, <2>1, <3>1, <4>1
    <3>2. CASE ~safe
      <4>1. broken'
        BY <2>1, <3>2
      <4> QED
        BY <1>2, <1>4, <2>1, <3>2, <4>1
    <3> QED
      BY <3>1, <3>2
  <2>5. Durable!Load
    BY <2>1, <2>2, <2>3, <2>4 DEF Durable!Load
  <2> QED
    BY <2>5 DEF Durable!Next
<1>7. CASE SaveTree
  <2>1. /\ open /\ open' = FALSE /\ safe' = ~broken /\ broken' = FALSE
        /\ tree_data' = [memtable |-> memtable, levels |-> levels] /\ files' = files
    BY <1>7 DEF SaveTree, Tree!Close, Tree!Destroyed
  <2>2. SavedContents' = Promised
    <3>1. CASE broken
      <4>1. ~safe'
        BY <2>1, <3>1
      <4> QED
        BY <1>3, <1>4, <2>1, <3>1, <4>1
    <3>2. CASE ~broken
      <4>1. safe' /\ tree_data'.memtable = memtable /\ tree_data'.levels = levels
        BY <2>1, <3>2
      <4> QED
        BY <1>2, <1>3, <1>4, <2>1, <3>2, <4>1
    <3> QED
      BY <3>1, <3>2
  <2>3. Promised' = Promised
    BY <1>4, <2>1, <2>2
  <2>4. Durable!Close
    BY <2>1, <2>2, <2>3 DEF Durable!Close
  <2> QED
    BY <2>4 DEF Durable!Next
<1> QED
  BY <1>5, <1>6, <1>7

LEMMA CrashDurable ==
  ASSUME CrashInv, Crash \/ DestroyUnsaved
  PROVE  Durable!Crash
<1>1. /\ open /\ open' = FALSE /\ broken' = FALSE /\ tree_data' = tree_data /\ safe' = safe
  BY DEF Crash, DestroyUnsaved, Tree!CloseUnsaved, Tree!Destroyed
<1>2. safe => SavedUntouched
  <2>1. CASE Crash
    BY <2>1, CrashLeavesSaved DEF CrashInv
  <2>2. CASE DestroyUnsaved
    BY <2>2 DEF DestroyUnsaved, Tree!CloseUnsaved, Tree!Destroyed, SavedUntouched
  <2> QED
    BY <2>1, <2>2
<1>3. SavedContents' = SavedContents
  BY <1>1, <1>2, SavedContentsStay
<1>4. Promised' = SavedContents'
  BY <1>1 DEF Promised
<1> QED
  BY <1>1, <1>3, <1>4 DEF Durable!Crash

LEMMA DurableStep ==
  ASSUME "compaction" \notin Faults, CrashInv, [CrashNext]_crashVars
  PROVE  [Durable!Next]_(Durable!vars)
<1>1. CASE UNCHANGED crashVars
  <2>1. UNCHANGED vars /\ UNCHANGED <<safe, broken>>
    BY <1>1 DEF crashVars
  <2>2. UNCHANGED Atomic!vars /\ UNCHANGED <<tree_data, files, open>>
    BY <2>1 DEF vars, Atomic!vars, Seen, Snapshot
  <2>3. UNCHANGED Atomic!Contents
    BY <2>2, SameContents
  <2>4. SavedContents' = SavedContents
    BY <2>1, <2>2, SavedContentsStay DEF SavedUntouched
  <2> QED
    BY <2>1, <2>2, <2>3, <2>4 DEF Durable!vars, Promised, Tree!EmptyTable
<1>2. CASE Crash \/ DestroyUnsaved
  BY <1>2, CrashDurable DEF Durable!Next
<1> QED
  BY <1>1, <1>2, SessionDurable, ProceedDurable DEF CrashNext

(* A process that dies between any two steps of its threads, or in the     *)
(* middle of a table, falls back to the map that was saved last, and what  *)
(* it left on disk never shows in a later session; until a merge removes   *)
(* its first input.  A merge whose output cannot be created is left to the *)
(* run crash.                                                              *)
THEOREM CrashesRestoreSaved ==
  ASSUME "compaction" \notin Faults
  PROVE  CrashSpec => CrashRestoresSaved
<1>1. CrashInit => Durable!Init
  <2> SUFFICES ASSUME CrashInit PROVE Durable!Init
    OBVIOUS
  <2>1. open = FALSE /\ safe = FALSE /\ broken = FALSE
    BY DEF CrashInit, Init, Tree!Init
  <2>2. SavedContents = Durable!Nothing /\ Promised = Durable!Nothing
    BY <2>1, ContentsAre DEF Promised
  <2> QED
    BY <2>1, <2>2 DEF Durable!Init
<1>2. CrashInv /\ [CrashNext]_crashVars => [Durable!Next]_(Durable!vars)
  BY DurableStep
<1> QED
  BY <1>1, <1>2, CrashInvAlways, PTL DEF CrashSpec, CrashRestoresSaved, Durable!Spec
============================================================================
