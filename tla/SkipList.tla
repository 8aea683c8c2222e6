------------------------------ MODULE SkipList ------------------------------
(***************************************************************************)
(* The skip list of the memtable                                           *)
(* (src/lsm_tree/memtable/skip_list/skip_list.cpp): nodes in a vector,     *)
(* linked by their numbers on every level below their height; number 0 is  *)
(* the head.  The height of a new node is random.  Keys are integers here, *)
(* compared as KVBuffer and SkipList::Compare compare the bytes of keys    *)
(* that cover no whole slice behind the one they begin in.                 *)
(***************************************************************************)
EXTENDS Integers, Sequences, FiniteSets, FiniteSetsExt

CONSTANTS
  Key, Value,
  Empty,              \* the empty value: a tombstone
  nullopt,            \* no entry; and a bound that is absent
  level_count_limit   \* level_count_limit_: the levels that are searched

ASSUME KeyAssumption == Key \subseteq Int
ASSUME SentinelAssumption == Empty \notin Value /\ nullopt \notin Value \cup {Empty} \cup Key
ASSUME LevelAssumption == level_count_limit \in Nat \ {0}

VARIABLES
  nodes,     \* nodes_[1], nodes_[2], ...: key, value and height
  next,      \* next[n][level]: the next arrays, of the head too
  kv_count   \* kv_count_

vars == <<nodes, next, kv_count>>

kNil == -1
Level == 0 .. level_count_limit
Entry == Value \cup {Empty}

(* What RandomLevel may return: one level more than is searched. *)
Heights == 1 .. level_count_limit + 1
Node == [key : Key, value : Entry, height : 1 .. level_count_limit + 1]

NilNode == [level \in Level |-> kNil]

----------------------------------------------------------------------------
(* Searching. *)

(* Compare(next, key) > 0. *)
GoesOn(n, level, key) == next[n][level] # kNil /\ key > nodes[next[n][level]].key

(* The node where the search for key leaves a level it enters at node n. *)
Leaves(n, level, key) ==
  LET Walk[m \in 0 .. Len(nodes)] ==
        IF GoesOn(m, level, key) THEN Walk[next[m][level]] ELSE m
  IN  Walk[n]

(* update: the predecessors of key, from the top level down; the level     *)
(* above the searched ones keeps the head.                                 *)
Update(key) ==
  LET From[level \in Level] ==
        IF level = level_count_limit THEN 0 ELSE Leaves(From[level + 1], level, key)
  IN  From

(* The search stops on the first level where the next node has the key. *)
HitLevels(key) ==
  LET update == Update(key)
  IN  {level \in 0 .. level_count_limit - 1 :
         LET n == next[update[level]][level] IN n # kNil /\ nodes[n].key = key}
Found(key) == kv_count # 0 /\ HitLevels(key) # {}
NodeOf(key) == LET level == Max(HitLevels(key)) IN next[Update(key)[level]][level]

(* MUTANT: a tombstone is answered like a missing key. *)
FindLive(key) ==
  IF Found(key) /\ nodes[NodeOf(key)].value # Empty THEN nodes[NodeOf(key)].value ELSE nullopt

Find(key) == IF Found(key) THEN nodes[NodeOf(key)].value ELSE nullopt

(* MUTANT: an excluded bound that is not in the list skips its successor. *)
FindNodeSkipping(key, including) ==
  LET n == next[Update(key)[0]][0]
  IN  IF including \/ n = kNil THEN n ELSE next[n][0]

(* The first node from key on, or behind it. *)
FindNode(key, including) ==
  IF ~Found(key) THEN next[Update(key)[0]][0]
  ELSE IF including THEN NodeOf(key)
  ELSE next[NodeOf(key)][0]

(* The nodes from n on along level 0. *)
Chain(n) ==
  LET From[m \in 0 .. Len(nodes)] ==
        IF next[m][0] = kNil THEN <<m>> ELSE <<m>> \o From[next[m][0]]
  IN  IF n = kNil THEN <<>> ELSE From[n]

KeyRange == [lower : Key \cup {nullopt}, including_lower : BOOLEAN,
             upper : Key \cup {nullopt}, including_upper : BOOLEAN]

BelowUpper(key, range) ==
  \/ range.upper = nullopt
  \/ IF range.including_upper THEN key <= range.upper ELSE key < range.upper

(* FindRange visits the chain up to the first key above the range, and     *)
(* sets or erases the keys it meets in what older tables accumulated.      *)
VisitedInRange(range) ==
  LET start == IF range.lower # nullopt THEN FindNode(range.lower, range.including_lower)
               ELSE next[0][0]
      chain == Chain(start)
  IN  {chain[i] : i \in {j \in DOMAIN chain :
                           \A m \in 1 .. j : BelowUpper(nodes[chain[m]].key, range)}}

FindRange(range, accumulated) ==
  LET visited == IF kv_count = 0 THEN {} ELSE VisitedInRange(range)
  IN  [k \in Key |->
         IF \E n \in visited : nodes[n].key = k
         THEN LET value == nodes[CHOOSE n \in visited : nodes[n].key = k].value
              IN  IF value = Empty THEN nullopt ELSE value
         ELSE accumulated[k]]

(* MUTANT: tombstones are written although they are to be skipped. *)
MakeDataBlockInFdUnskipped(skip_deleted) ==
  LET chain == Chain(next[0][0])
  IN  [i \in DOMAIN chain |-> <<nodes[chain[i]].key, nodes[chain[i]].value>>]

(* The key-value pairs of a flush, in the order they are written. *)
MakeDataBlockInFd(skip_deleted) ==
  LET chain == Chain(next[0][0])
      Written[i \in 0 .. Len(chain)] ==
        IF i = 0 THEN <<>>
        ELSE IF nodes[chain[i]].value = Empty /\ skip_deleted THEN Written[i - 1]
        ELSE Append(Written[i - 1], <<nodes[chain[i]].key, nodes[chain[i]].value>>)
  IN  Written[Len(chain)]

----------------------------------------------------------------------------
(* The operations. *)

Init ==
  /\ nodes = <<>>
  /\ next = [n \in {0} |-> NilNode]
  /\ kv_count = 0

(* MUTANT: every level is spliced behind the predecessor on level 0. *)
SplicedAtBottom(update, height, new) ==
  [n \in 0 .. new |-> [level \in Level |->
     IF level >= height THEN IF n = new THEN kNil ELSE next[n][level]
     ELSE IF n = new THEN next[update[0]][level]
     ELSE IF n = update[0] THEN new
     ELSE next[n][level]]]

(* The new node, behind its predecessors on the levels below its height. *)
Spliced(update, height, new) ==
  [n \in 0 .. new |-> [level \in Level |->
     IF level >= height THEN IF n = new THEN kNil ELSE next[n][level]
     ELSE IF n = new THEN next[update[level]][level]
     ELSE IF n = update[level] THEN new
     ELSE next[n][level]]]

(* The first node of an empty list goes behind the head on all its levels, *)
(* which is where Update points when every next is kNil.                   *)
InsertNew(key, value, height) ==
  /\ ~Found(key)
  /\ nodes' = Append(nodes, [key |-> key, value |-> value, height |-> height])
  /\ next' = Spliced(Update(key), height, Len(nodes) + 1)
  /\ kv_count' = kv_count + 1

(* A tombstone only sets value_size, another value is written anew. *)
InsertExisting(key, value) ==
  /\ Found(key)
  /\ nodes' = [nodes EXCEPT ![NodeOf(key)].value = value]
  /\ UNCHANGED <<next, kv_count>>

Clear ==
  /\ nodes' = <<>>
  /\ next' = [n \in {0} |-> NilNode]
  /\ kv_count' = 0

Next ==
  \/ Clear
  \/ \E key \in Key, value \in Entry :
       \/ InsertExisting(key, value)
       \/ \E height \in Heights : InsertNew(key, value, height)

Spec == Init /\ [][Next]_vars

----------------------------------------------------------------------------
(* Properties. *)

(* Nodes hold a key, an entry and a possible height; links lead to nodes. *)
TypeOK ==
  /\ nodes \in Seq(Node)
  /\ next \in [0 .. Len(nodes) -> [Level -> (1 .. Len(nodes)) \cup {kNil}]]
  /\ kv_count \in Nat

(* On every level that is searched, each node as high as that level, and   *)
(* the head, is linked to the node with the next greater key of that       *)
(* height: each level is a sorted sublist of the one below, level 0 is     *)
(* the whole list and holds kv_count_ nodes with different keys.           *)
OnLevel(level) == {n \in 1 .. Len(nodes) : nodes[n].height > level}
Greater(n, level) == {m \in OnLevel(level) : n = 0 \/ nodes[m].key > nodes[n].key}
LevelsSorted ==
  /\ \A level \in 0 .. level_count_limit - 1 : \A n \in OnLevel(level) \cup {0} :
       LET m == next[n][level]
       IN  IF Greater(n, level) = {} THEN m = kNil
           ELSE m \in Greater(n, level) /\ \A g \in Greater(n, level) : nodes[m].key <= nodes[g].key
  /\ kv_count = Cardinality({nodes[n].key : n \in 1 .. Len(nodes)})
  /\ kv_count = Len(nodes)

(* Whatever heights the nodes drew and in whatever order keys came, what   *)
(* Find answers changes as a map's answers do: an insert changes its key's *)
(* answer alone, an erased key is a found tombstone, Clear forgets all.    *)
Contents == [k \in Key |-> Find(k)]
Map == INSTANCE EntryMap WITH table <- Contents
ImplementsEntryMap == Map!Spec

InRange(k, range) ==
  /\ \/ range.lower = nullopt
     \/ IF range.including_lower THEN k >= range.lower ELSE k > range.lower
  /\ BelowUpper(k, range)

(* FindRange visits exactly the keys of the range, for bounds that are     *)
(* present or absent, included or not, in the list or between its nodes;   *)
(* tombstones erase what older tables contributed.                         *)
FindRangeIsMap ==
  LET contents == Contents
  IN  \A range \in KeyRange, old \in Value \cup {nullopt} :
        FindRange(range, [k \in Key |-> old]) =
          [k \in Key |-> IF InRange(k, range) /\ contents[k] # nullopt
                         THEN IF contents[k] = Empty THEN nullopt ELSE contents[k]
                         ELSE old]

(* A flush writes every entry once, in strictly increasing key order, the  *)
(* order the binary search and the merge of the tables rely on; with       *)
(* skip_deleted no tombstone and every other entry.                        *)
DataBlockSorted ==
  \A skip_deleted \in BOOLEAN :
    LET block == MakeDataBlockInFd(skip_deleted)
        contents == Contents
    IN  /\ \A i, j \in DOMAIN block : i < j => block[i][1] < block[j][1]
        /\ {block[i] : i \in DOMAIN block} =
             {<<k, contents[k]>> : k \in {c \in Key : /\ contents[c] # nullopt
                                                      /\ contents[c] = Empty => ~skip_deleted}}
=============================================================================
