--------------------------- MODULE SkipList_proofs ---------------------------
(***************************************************************************)
(* The skip list keeps its levels sorted, implements the memtable's map,   *)
(* and its ranges and data blocks are those of that map: for every set of  *)
(* integer keys, every number of levels and all heights the nodes draw.    *)
(***************************************************************************)
EXTENDS SkipList, LeastNaturals, FiniteSetTheorems, TLAPS

----------------------------------------------------------------------------
(* The invariant.  LevelsSorted says where the links of a level lead; that *)
(* is inductive with different keys in different nodes, and no links on    *)
(* the levels a node does not reach, which a search must not stray to.     *)

Distinct == \A n, m \in 1 .. Len(nodes) : nodes[n].key = nodes[m].key => n = m

IsSuccessor(m, n, level) ==
  IF Greater(n, level) = {} THEN m = kNil
  ELSE m \in Greater(n, level) /\ \A g \in Greater(n, level) : nodes[m].key <= nodes[g].key

Linked ==
  \A level \in 0 .. level_count_limit - 1 : \A n \in OnLevel(level) \cup {0} :
    IsSuccessor(next[n][level], n, level)

Unlinked ==
  \A level \in 0 .. level_count_limit - 1 : \A n \in 1 .. Len(nodes) :
    n \notin OnLevel(level) => next[n][level] = kNil

(* No key is beyond some bound: there is a node with the greatest key. *)
Bounded == \E b \in Int : \A n \in 1 .. Len(nodes) : nodes[n].key <= b

ListInv == TypeOK /\ Distinct /\ Linked /\ Unlinked /\ Bounded /\ kv_count = Len(nodes)

LEMMA NodeFacts ==
  ASSUME TypeOK
  PROVE  /\ Len(nodes) \in Nat
         /\ \A n \in 1 .. Len(nodes) :
              /\ nodes[n] \in Node
              /\ nodes[n].key \in Int /\ nodes[n].key \in Key /\ nodes[n].value \in Entry
              /\ nodes[n].height \in Nat /\ nodes[n].height >= 1
              /\ n \in Nat
<1>1. nodes \in Seq(Node) /\ Len(nodes) \in Nat
  BY DEF TypeOK
<1>2. ASSUME NEW n \in 1 .. Len(nodes)
      PROVE  /\ nodes[n] \in Node
             /\ nodes[n].key \in Int /\ nodes[n].key \in Key /\ nodes[n].value \in Entry
             /\ nodes[n].height \in Nat /\ nodes[n].height >= 1
             /\ n \in Nat
  <2>1. nodes[n] \in Node /\ n \in Nat
    BY <1>1
  <2>2. /\ nodes[n].key \in Key /\ nodes[n].value \in Entry
        /\ nodes[n].height \in 1 .. level_count_limit + 1
    BY <2>1 DEF Node
  <2>3. nodes[n].key \in Int
    BY <2>2, KeyAssumption
  <2>4. nodes[n].height \in Nat /\ nodes[n].height >= 1
    BY <2>2, LevelAssumption
  <2> QED
    BY <2>1, <2>2, <2>3, <2>4
<1> QED
  BY <1>1, <1>2

----------------------------------------------------------------------------
(* The search on one level. *)

Below(n, key) == n = 0 \/ nodes[n].key < key

(* The greatest node of a level below key, or the head. *)
IsPred(n, level, key) ==
  /\ n \in OnLevel(level) \cup {0}
  /\ Below(n, key)
  /\ \A m \in OnLevel(level) : nodes[m].key < key => n # 0 /\ nodes[m].key <= nodes[n].key

LEMMA PredExists ==
  ASSUME TypeOK, NEW level, NEW key \in Int
  PROVE  \E n : IsPred(n, level, key)
<1> DEFINE S == {m \in OnLevel(level) : nodes[m].key < key}
           T == {key - nodes[m].key : m \in S}
<1>1. \A m \in OnLevel(level) : nodes[m].key \in Int /\ m \in 1 .. Len(nodes) /\ m # 0
  BY NodeFacts DEF OnLevel
<1>2. CASE S = {}
  <2>1. IsPred(0, level, key)
    BY <1>2 DEF IsPred, Below
  <2> QED
    BY <2>1
<1>3. CASE S # {}
  <2>1. T \subseteq Nat /\ T # {}
    <3>1. ASSUME NEW m \in S PROVE key - nodes[m].key \in Nat
      <4>1. nodes[m].key \in Int /\ nodes[m].key < key
        BY <1>1
      <4> QED
        BY <4>1
    <3> HIDE DEF S
    <3> QED
      BY <3>1, <1>3
  <2>2. PICK d \in T : \A e \in T : d <= e
    <3> HIDE DEF T
    <3> QED
      BY <2>1, LeastNat
  <2>3. PICK n \in S : d = key - nodes[n].key
    OBVIOUS
  <2>4. ASSUME NEW m \in S PROVE nodes[m].key <= nodes[n].key
    <3>1. key - nodes[m].key \in T
      OBVIOUS
    <3>2. key - nodes[n].key <= key - nodes[m].key
      BY <2>2, <2>3, <3>1
    <3>3. nodes[m].key \in Int /\ nodes[n].key \in Int
      BY <1>1
    <3> HIDE DEF S, T
    <3> QED
      BY <3>2, <3>3
  <2>5. IsPred(n, level, key)
    BY <1>1, <2>3, <2>4 DEF IsPred, Below
  <2> QED
    BY <2>5
<1> QED
  BY <1>2, <1>3

LEMMA PredUnique ==
  ASSUME TypeOK, Distinct, NEW level, NEW key, NEW n, NEW m,
         IsPred(n, level, key), IsPred(m, level, key)
  PROVE  n = m
<1>1. \A i \in OnLevel(level) : nodes[i].key \in Int /\ i \in 1 .. Len(nodes) /\ i # 0
  BY NodeFacts DEF OnLevel
<1>2. CASE n = 0 \/ m = 0
  BY <1>1, <1>2 DEF IsPred, Below
<1>3. CASE n # 0 /\ m # 0
  <2>1. n \in OnLevel(level) /\ m \in OnLevel(level)
    BY <1>3 DEF IsPred
  <2>2. nodes[n].key <= nodes[m].key /\ nodes[m].key <= nodes[n].key
    BY <1>3, <2>1 DEF IsPred, Below
  <2> QED
    BY <1>1, <2>1, <2>2 DEF Distinct
<1> QED
  BY <1>2, <1>3

WalkEquation(level, key, w) ==
  w = [m \in 0 .. Len(nodes) |-> IF GoesOn(m, level, key) THEN w[next[m][level]] ELSE m]

LEMMA LeavesIs ==
  ASSUME NEW n, NEW level, NEW key
  PROVE  Leaves(n, level, key) = (CHOOSE w : WalkEquation(level, key, w))[n]
BY DEF Leaves, WalkEquation

(* Where a step of the walk leads. *)
LEMMA WalkStep ==
  ASSUME TypeOK, Distinct, Linked, Unlinked, NEW level \in 0 .. level_count_limit - 1,
         NEW key \in Int, NEW m \in 0 .. Len(nodes)
  PROVE  /\ m \in OnLevel(level) \cup {0} /\ Below(m, key) /\ GoesOn(m, level, key) =>
              LET s == next[m][level]
              IN  s \in OnLevel(level) /\ nodes[s].key < key /\ (m # 0 => nodes[m].key < nodes[s].key)
         /\ m \in OnLevel(level) \cup {0} /\ Below(m, key) /\ ~GoesOn(m, level, key) =>
              IsPred(m, level, key)
         /\ ~(m \in OnLevel(level) \cup {0} /\ Below(m, key)) => ~GoesOn(m, level, key)
<1> DEFINE s == next[m][level]
<1>1. \A i \in 1 .. Len(nodes) : nodes[i].key \in Int /\ i # 0 /\ i # kNil
  BY NodeFacts DEF kNil
<1>2. OnLevel(level) \subseteq 1 .. Len(nodes)
  BY DEF OnLevel
<1>3. CASE m \notin OnLevel(level) \cup {0}
  <2>1. m \in 1 .. Len(nodes)
    BY <1>3, NodeFacts
  <2>2. s = kNil
    BY <1>3, <2>1 DEF Unlinked
  <2> QED
    BY <1>3, <2>2 DEF GoesOn
<1>4. CASE m \in OnLevel(level) \cup {0}
  <2>1. IsSuccessor(s, m, level)
    BY <1>4 DEF Linked
  <2>2. CASE s = kNil
    <3>1. Greater(m, level) = {}
      BY <1>1, <1>2, <2>1, <2>2 DEF IsSuccessor, Greater
    <3>2. \A g \in OnLevel(level) : m # 0 /\ nodes[g].key <= nodes[m].key
      BY <1>1, <1>2, <1>4, <3>1 DEF Greater
    <3> QED
      BY <1>4, <2>2, <3>2 DEF GoesOn, IsPred
  <2>3. CASE s # kNil
    <3>1. s \in Greater(m, level) /\ \A g \in Greater(m, level) : nodes[s].key <= nodes[g].key
      BY <2>1, <2>3 DEF IsSuccessor
    <3>2. s \in OnLevel(level) /\ (m # 0 => nodes[m].key < nodes[s].key)
      BY <1>1, <1>2, <1>4, <3>1 DEF Greater
    <3>3. GoesOn(m, level, key) <=> nodes[s].key < key
      BY <1>1, <1>2, <2>3, <3>2 DEF GoesOn
    <3>4. ASSUME Below(m, key), ~ (nodes[s].key < key) PROVE IsPred(m, level, key)
      <4>1. ASSUME NEW g \in OnLevel(level), nodes[g].key < key
            PROVE  m # 0 /\ nodes[g].key <= nodes[m].key
        <5>1. nodes[g].key \in Int /\ nodes[s].key \in Int
          BY <1>1, <1>2, <3>2
        <5>2. g \notin Greater(m, level)
          BY <3>1, <3>4, <4>1, <5>1
        <5>3. m # 0 /\ ~ (nodes[g].key > nodes[m].key)
          BY <5>2 DEF Greater
        <5>4. nodes[m].key \in Int
          BY <1>1, <1>2, <1>4, <5>3
        <5> QED
          BY <5>1, <5>3, <5>4
      <4> QED
        BY <1>4, <3>4, <4>1 DEF IsPred
    <3>5. ASSUME ~Below(m, key) PROVE ~ (nodes[s].key < key)
      <4>1. m # 0 /\ ~ (nodes[m].key < key)
        BY <3>5 DEF Below
      <4>2. nodes[m].key \in Int /\ nodes[s].key \in Int
        BY <1>1, <1>2, <1>4, <3>2, <4>1
      <4> QED
        BY <3>2, <4>1, <4>2
    <3> QED
      BY <1>4, <3>2, <3>3, <3>4, <3>5
  <2> QED
    BY <2>2, <2>3
<1> QED
  BY <1>3, <1>4

(* Every walk that starts on the level and below the key ends at its       *)
(* predecessor.                                                            *)
LEMMA LeavesPred ==
  ASSUME TypeOK, Distinct, Linked, Unlinked, NEW level \in 0 .. level_count_limit - 1,
         NEW key \in Int, NEW n \in OnLevel(level) \cup {0}, Below(n, key)
  PROVE  IsPred(Leaves(n, level, key), level, key)
<1> DEFINE On(m) == m \in OnLevel(level) \cup {0} /\ Below(m, key)
           N == 0 .. Len(nodes)
<1>0. OnLevel(level) \subseteq 1 .. Len(nodes) /\ 0 \in N /\ 1 .. Len(nodes) \subseteq N
  BY NodeFacts DEF OnLevel
<1>1. PICK p : IsPred(p, level, key)
  BY PredExists
<1>2. ASSUME NEW m \in N
      PROVE  /\ On(m) /\ GoesOn(m, level, key) => next[m][level] \in N /\ On(next[m][level])
             /\ On(m) /\ ~GoesOn(m, level, key) => m = p
             /\ ~On(m) => ~GoesOn(m, level, key)
  <2>1. On(m) /\ GoesOn(m, level, key) => next[m][level] \in N /\ On(next[m][level])
    BY <1>0, WalkStep DEF Below
  <2>2. On(m) /\ ~GoesOn(m, level, key) => m = p
    BY <1>1, WalkStep, PredUnique
  <2>3. ~On(m) => ~GoesOn(m, level, key)
    BY WalkStep
  <2> QED
    BY <2>1, <2>2, <2>3
<1>3. WalkEquation(level, key, [m \in N |-> IF On(m) THEN p ELSE m])
  <2> DEFINE W == [m \in N |-> IF On(m) THEN p ELSE m]
  <2>1. ASSUME NEW m \in N
        PROVE  W[m] = IF GoesOn(m, level, key) THEN W[next[m][level]] ELSE m
    <3> HIDE DEF On, N
    <3>1. CASE On(m) /\ GoesOn(m, level, key)
      BY <1>2, <3>1
    <3>2. CASE On(m) /\ ~GoesOn(m, level, key)
      BY <1>2, <3>2
    <3>3. CASE ~On(m)
      BY <1>2, <3>3
    <3> QED
      BY <3>1, <3>2, <3>3
  <2> QED
    BY <2>1 DEF WalkEquation
<1>4. PICK w : w = CHOOSE x : WalkEquation(level, key, x)
  OBVIOUS
<1>5. WalkEquation(level, key, w)
  BY <1>3, <1>4
<1>6. \A m \in N : w[m] = IF GoesOn(m, level, key) THEN w[next[m][level]] ELSE m
  BY <1>5 DEF WalkEquation
<1>7. ASSUME NEW m \in OnLevel(level), Below(m, key) PROVE w[m] = p
  <2> DEFINE T == {d \in Nat : \E i \in OnLevel(level) :
                     Below(i, key) /\ d = key - nodes[i].key /\ w[i] # p}
  <2>1. ASSUME NEW i \in OnLevel(level), Below(i, key)
        PROVE  key - nodes[i].key \in Nat /\ nodes[i].key \in Int /\ i # 0
    <3>1. nodes[i].key \in Int /\ i # 0
      BY <1>0, NodeFacts
    <3>2. nodes[i].key < key
      BY <2>1, <3>1 DEF Below
    <3> QED
      BY <3>1, <3>2
  <2>2. CASE T # {}
    <3>1. PICK d \in T : \A e \in T : d <= e
      <4>1. T \subseteq Nat
        OBVIOUS
      <4> HIDE DEF T
      <4> QED
        BY <2>2, <4>1, LeastNat
    <3>2. PICK i \in OnLevel(level) : Below(i, key) /\ d = key - nodes[i].key /\ w[i] # p
      OBVIOUS
    <3>3. GoesOn(i, level, key) /\ w[i] = w[next[i][level]]
      BY <1>0, <1>2, <1>6, <3>2
    <3> DEFINE j == next[i][level]
    <3>4. j \in OnLevel(level) /\ nodes[j].key < key /\ nodes[i].key < nodes[j].key
      BY <1>0, <2>1, <3>2, <3>3, WalkStep
    <3>5. Below(j, key)
      BY <3>4 DEF Below
    <3>6. key - nodes[j].key \in T
      BY <2>1, <3>2, <3>3, <3>4, <3>5
    <3>7. key - nodes[i].key <= key - nodes[j].key
      <4> HIDE DEF T, j
      <4> QED
        BY <3>1, <3>2, <3>6
    <3>8. nodes[i].key \in Int /\ nodes[j].key \in Int
      BY <2>1, <3>2, <3>4, <3>5
    <3> HIDE DEF T, j
    <3> QED
      BY <3>4, <3>7, <3>8
  <2>3. CASE T = {}
    BY <1>7, <2>1, <2>3
  <2> QED
    BY <2>2, <2>3
<1>8. w[n] = p
  <2>1. CASE n # 0
    BY <1>7, <2>1
  <2>2. CASE n = 0 /\ ~GoesOn(n, level, key)
    BY <1>0, <1>2, <1>6, <2>2
  <2>3. CASE n = 0 /\ GoesOn(n, level, key)
    <3>1. /\ next[n][level] \in OnLevel(level) /\ Below(next[n][level], key)
      BY <1>0, <2>3, WalkStep DEF Below
    <3> QED
      BY <1>0, <1>6, <1>7, <2>3, <3>1
  <2> QED
    BY <2>1, <2>2, <2>3
<1> QED
  BY <1>1, <1>4, <1>8, LeavesIs

UpdateEquation(key, u) ==
  u = [level \in Level |->
         IF level = level_count_limit THEN 0 ELSE Leaves(u[level + 1], level, key)]

(* update holds the predecessors of the key on all searched levels, and    *)
(* the head above them.                                                    *)
LEMMA UpdateIs ==
  ASSUME TypeOK, Distinct, Linked, Unlinked, NEW key \in Int
  PROVE  /\ Update(key)[level_count_limit] = 0
         /\ \A level \in 0 .. level_count_limit - 1 : IsPred(Update(key)[level], level, key)
<1> DEFINE L == level_count_limit
           P(level) == IF level = L THEN 0 ELSE CHOOSE n : IsPred(n, level, key)
           U == [level \in Level |-> P(level)]
<1>0. L \in Nat /\ L \in Level /\ Level = 0 .. L
  BY LevelAssumption DEF Level
<1>1. ASSUME NEW level \in Level, level # L
      PROVE  level \in 0 .. L - 1 /\ level + 1 \in Level /\ level \in Nat
  BY <1>0, <1>1
<1>2. ASSUME NEW level \in Level, level # L
      PROVE  IsPred(P(level), level, key)
  BY <1>2, PredExists
<1>3. ASSUME NEW level \in Level, level # L, NEW n,
             IF level + 1 = L THEN n = 0 ELSE IsPred(n, level + 1, key)
      PROVE  IsPred(Leaves(n, level, key), level, key)
  <2>1. n \in OnLevel(level) \cup {0} /\ Below(n, key)
    <3>1. CASE n = 0
      BY <3>1 DEF Below
    <3>2. CASE n # 0
      <4>1. n \in OnLevel(level + 1) /\ Below(n, key)
        BY <1>3, <3>2 DEF IsPred
      <4>2. n \in 1 .. Len(nodes) /\ nodes[n].height \in Nat /\ nodes[n].height > level + 1
        BY <4>1, NodeFacts DEF OnLevel
      <4>3. nodes[n].height > level
        BY <1>1, <1>3, <4>2
      <4> QED
        BY <4>1, <4>2, <4>3 DEF OnLevel
    <3> QED
      BY <3>1, <3>2
  <2> QED
    BY <1>1, <1>3, <2>1, LeavesPred
<1>4. UpdateEquation(key, U)
  <2>1. ASSUME NEW level \in Level, level # L
        PROVE  P(level) = Leaves(U[level + 1], level, key)
    <3>1. U[level + 1] = P(level + 1) /\ level + 1 \in Level
      BY <1>1, <2>1
    <3>2. IF level + 1 = L THEN P(level + 1) = 0 ELSE IsPred(P(level + 1), level + 1, key)
      BY <1>2, <3>1
    <3> HIDE DEF P, U
    <3>3. IsPred(Leaves(P(level + 1), level, key), level, key)
      BY <1>3, <2>1, <3>2
    <3> QED
      BY <1>2, <2>1, <3>1, <3>3, PredUnique
  <2>2. P(L) = 0
    OBVIOUS
  <2> HIDE DEF P
  <2> QED
    BY <2>1, <2>2 DEF UpdateEquation
<1>5. Update(key) = CHOOSE u : UpdateEquation(key, u)
  BY DEF Update, UpdateEquation
<1> HIDE DEF U, P
<1>6. UpdateEquation(key, Update(key))
  BY <1>4, <1>5
<1> DEFINE u == Update(key)
<1> HIDE DEF u
<1>7. /\ u[L] = 0
      /\ \A level \in Level : level # L => u[level] = Leaves(u[level + 1], level, key)
  BY <1>0, <1>6 DEF u, UpdateEquation
<1>8. \A level \in Level : level # L => IsPred(u[level], level, key)
  <2> DEFINE T == {d \in 1 .. L : ~IsPred(u[L - d], L - d, key)}
  <2>1. CASE T # {}
    <3>1. PICK d \in T : \A e \in T : d <= e
      <4>1. T \subseteq Nat
        OBVIOUS
      <4> HIDE DEF T
      <4> QED
        BY <2>1, <4>1, LeastNat
    <3>2. d \in 1 .. L /\ ~IsPred(u[L - d], L - d, key)
      OBVIOUS
    <3> DEFINE level == L - d
    <3>3. level \in Level /\ level # L /\ level + 1 = L - (d - 1)
      BY <1>0, <3>2
    <3>4. IF level + 1 = L THEN u[level + 1] = 0 ELSE IsPred(u[level + 1], level + 1, key)
      <4>1. CASE d = 1
        BY <1>0, <1>7, <4>1
      <4>2. CASE d # 1
        <5>1. d - 1 \in 1 .. L /\ ~ (d <= d - 1) /\ level + 1 # L
          BY <1>0, <3>2, <4>2
        <5>2. d - 1 \notin T
          <6> HIDE DEF T
          <6> QED
            BY <3>1, <5>1
        <5>3. IsPred(u[L - (d - 1)], L - (d - 1), key)
          BY <5>1, <5>2
        <5> HIDE DEF level
        <5> QED
          BY <3>3, <5>1, <5>3
      <4> QED
        BY <4>1, <4>2
    <3>5. IsPred(Leaves(u[level + 1], level, key), level, key)
      <4> HIDE DEF level
      <4> QED
        BY <1>3, <3>3, <3>4
    <3>6. IsPred(u[level], level, key)
      <4> HIDE DEF level
      <4> QED
        BY <1>7, <3>3, <3>5
    <3> QED
      BY <3>2, <3>6
  <2>2. CASE T = {}
    <3>1. \A d \in 1 .. L : IsPred(u[L - d], L - d, key)
      BY <2>2
    <3>2. ASSUME NEW level \in Level, level # L PROVE IsPred(u[level], level, key)
      <4>1. L - level \in 1 .. L /\ L - (L - level) = level
        BY <1>0, <3>2
      <4>2. IsPred(u[L - (L - level)], L - (L - level), key)
        BY <3>1, <4>1
      <4> QED
        BY <4>1, <4>2
    <3> QED
      BY <3>2
  <2> QED
    BY <2>1, <2>2
<1>9. \A level \in 0 .. L - 1 : level \in Level /\ level # L
  BY <1>0
<1> QED
  BY <1>7, <1>8, <1>9 DEF u

(* Behind the predecessor of a key is the first node not below it.         *)
LEMMA AfterPred ==
  ASSUME TypeOK, Distinct, Linked, NEW level \in 0 .. level_count_limit - 1,
         NEW key \in Int, NEW p, IsPred(p, level, key)
  PROVE  LET s == next[p][level]
         IN  /\ s = kNil => \A m \in OnLevel(level) : nodes[m].key < key
             /\ s # kNil => /\ s \in OnLevel(level) /\ nodes[s].key >= key
                            /\ \A m \in OnLevel(level) :
                                 nodes[m].key >= key => nodes[s].key <= nodes[m].key
             /\ s \in Greater(p, level) \/ s = kNil
<1> DEFINE s == next[p][level]
<1>1. \A i \in OnLevel(level) : nodes[i].key \in Int /\ i # 0 /\ i # kNil
  BY NodeFacts DEF kNil, OnLevel
<1>2. p \in OnLevel(level) \cup {0} /\ (p = 0 \/ nodes[p].key < key)
  BY DEF IsPred, Below
<1>3. IsSuccessor(s, p, level)
  BY <1>2 DEF Linked
<1>4. ASSUME NEW m \in OnLevel(level)
      PROVE  m \in Greater(p, level) <=> nodes[m].key >= key
  <2>1. m \in Greater(p, level) <=> p = 0 \/ nodes[m].key > nodes[p].key
    BY DEF Greater
  <2>2. nodes[m].key < key => p # 0 /\ nodes[m].key <= nodes[p].key
    BY DEF IsPred
  <2>3. p # 0 => nodes[p].key \in Int
    BY <1>1, <1>2
  <2> QED
    BY <1>1, <1>2, <2>1, <2>2, <2>3
<1>5. Greater(p, level) \subseteq OnLevel(level)
  BY DEF Greater
<1>6. CASE s = kNil
  <2>1. Greater(p, level) = {}
    BY <1>1, <1>3, <1>5, <1>6 DEF IsSuccessor
  <2> QED
    BY <1>1, <1>4, <1>6, <2>1
<1>7. CASE s # kNil
  <2>1. s \in Greater(p, level) /\ \A g \in Greater(p, level) : nodes[s].key <= nodes[g].key
    BY <1>3, <1>7 DEF IsSuccessor
  <2> QED
    BY <1>4, <1>5, <1>7, <2>1
<1> QED
  BY <1>6, <1>7

----------------------------------------------------------------------------
(* What the list answers. *)

HasKey(key) == \E n \in 1 .. Len(nodes) : nodes[n].key = key

LEMMA OnBottom ==
  ASSUME TypeOK
  PROVE  OnLevel(0) = 1 .. Len(nodes) /\ 0 \in 0 .. level_count_limit - 1
<1>1. \A n \in 1 .. Len(nodes) : nodes[n].height > 0
  BY NodeFacts
<1> QED
  BY <1>1, LevelAssumption DEF OnLevel

(* A search finds the one node that has the key, on whatever level it      *)
(* meets it first.                                                         *)
LEMMA FoundIs ==
  ASSUME ListInv, NEW key \in Int
  PROVE  /\ Found(key) <=> HasKey(key)
         /\ Found(key) => NodeOf(key) \in 1 .. Len(nodes) /\ nodes[NodeOf(key)].key = key
<1> USE DEF ListInv
<1> DEFINE L == level_count_limit
           u == Update(key)
           N == 1 .. Len(nodes)
           H == HitLevels(key)
<1>1. \A level \in 0 .. L - 1 : IsPred(u[level], level, key)
  BY UpdateIs
<1>2. H = {level \in 0 .. L - 1 : LET n == next[u[level]][level] IN n # kNil /\ nodes[n].key = key}
  BY DEF HitLevels
<1> HIDE DEF H, u
<1>3. \A level \in H : next[u[level]][level] \in N /\ nodes[next[u[level]][level]].key = key
  <2> TAKE level \in H
  <2>1. level \in 0 .. L - 1 /\ next[u[level]][level] # kNil
        /\ nodes[next[u[level]][level]].key = key
    BY <1>2
  <2>2. next[u[level]][level] \in OnLevel(level)
    BY <1>1, <2>1, AfterPred
  <2> QED
    BY <2>1, <2>2 DEF OnLevel
<1>4. HasKey(key) => 0 \in H
  <2> SUFFICES ASSUME HasKey(key) PROVE 0 \in H
    OBVIOUS
  <2>1. PICK n \in N : nodes[n].key = key
    BY DEF HasKey
  <2>2. n \in OnLevel(0) /\ 0 \in 0 .. L - 1
    BY OnBottom
  <2> DEFINE s == next[u[0]][0]
  <2>3. IsPred(u[0], 0, key)
    BY <1>1, <2>2
  <2>4. /\ s = kNil => nodes[n].key < key
        /\ s # kNil => s \in OnLevel(0) /\ nodes[s].key >= key
                       /\ (nodes[n].key >= key => nodes[s].key <= nodes[n].key)
    BY <2>2, <2>3, AfterPred
  <2>5. s # kNil => nodes[s].key \in Int
    BY <2>4, NodeFacts, OnBottom
  <2>6. s # kNil /\ nodes[s].key = key
    <3> HIDE DEF s
    <3> QED
      BY <2>1, <2>4, <2>5
  <2> QED
    BY <1>2, <2>2, <2>6
<1>5. HasKey(key) => kv_count # 0
  BY NodeFacts DEF HasKey
<1>6. Found(key) <=> HasKey(key)
  BY <1>3, <1>4, <1>5 DEF Found, HasKey, H
<1>7. Found(key) => Max(H) \in H
  <2> SUFFICES ASSUME Found(key) PROVE Max(H) \in H
    OBVIOUS
  <2>1. H # {} /\ H \subseteq Nat /\ L \in Nat /\ \A n \in H : n <= L
    BY <1>2, LevelAssumption DEF Found, H
  <2>2. \E m \in H : \A n \in H : n <= m
    BY <2>1, GreatestNat
  <2>3. \E m \in H : \A n \in H : m >= n
    BY <2>1, <2>2
  <2> QED
    BY <2>3 DEF Max
<1>8. NodeOf(key) = next[u[Max(H)]][Max(H)]
  BY DEF NodeOf, u, H
<1> QED
  BY <1>3, <1>6, <1>7, <1>8

(* Find answers the entry of the node that has the key. *)
LEMMA FindIs ==
  ASSUME ListInv, NEW key \in Int
  PROVE  /\ \A n \in 1 .. Len(nodes) : nodes[n].key = key => Find(key) = nodes[n].value
         /\ ~HasKey(key) => Find(key) = nullopt
<1>1. ASSUME NEW n \in 1 .. Len(nodes), nodes[n].key = key
      PROVE  Find(key) = nodes[n].value
  <2>1. HasKey(key)
    BY <1>1 DEF HasKey
  <2>2. Found(key) /\ NodeOf(key) \in 1 .. Len(nodes) /\ nodes[NodeOf(key)].key = key
    BY <2>1, FoundIs
  <2>3. NodeOf(key) = n
    BY <1>1, <2>2 DEF ListInv, Distinct
  <2> QED
    BY <2>2, <2>3 DEF Find
<1>2. ~HasKey(key) => Find(key) = nullopt
  BY FoundIs DEF Find
<1> QED
  BY <1>1, <1>2

----------------------------------------------------------------------------
(* Every operation keeps the levels sorted. *)

(* The nodes and links after a new node is spliced in. *)
LEMMA InsertNewState ==
  ASSUME ListInv, NEW key \in Key, NEW value \in Entry, NEW height \in Heights,
         InsertNew(key, value, height)
  PROVE  LET new == Len(nodes) + 1
         IN  /\ TypeOK'
             /\ Len(nodes') = new /\ new \in Nat
             /\ \A n \in 1 .. Len(nodes) : nodes'[n] = nodes[n] /\ n # new
             /\ nodes'[new].key = key /\ nodes'[new].value = value /\ nodes'[new].height = height
             /\ \A level \in 0 .. level_count_limit - 1 :
                  LET p == Update(key)[level]
                  IN  /\ \A n \in 0 .. Len(nodes) :
                           next'[n][level] = IF level < height /\ n = p THEN new ELSE next[n][level]
                      /\ next'[new][level] = IF level < height THEN next[p][level] ELSE kNil
<1> USE DEF ListInv
<1> DEFINE N == Len(nodes)
           new == N + 1
           u == Update(key)
<1>1. N \in Nat /\ new \in Nat /\ key \in Int /\ nodes \in Seq(Node)
  BY NodeFacts, KeyAssumption DEF TypeOK
<1>2. [key |-> key, value |-> value, height |-> height] \in Node
  BY DEF Node, Heights
<1>3. nodes' \in Seq(Node) /\ Len(nodes') = new
  BY <1>1, <1>2 DEF InsertNew
<1>4. \A n \in 1 .. N : nodes'[n] = nodes[n] /\ n # new
  BY <1>1 DEF InsertNew
<1>5. nodes'[new] = [key |-> key, value |-> value, height |-> height]
  BY <1>1 DEF InsertNew
<1>6. /\ u[level_count_limit] = 0
      /\ \A level \in 0 .. level_count_limit - 1 : IsPred(u[level], level, key)
  BY <1>1, UpdateIs
<1> HIDE DEF u
<1>7. next' = [n \in 0 .. new |-> [level \in Level |->
                 IF level >= height THEN IF n = new THEN kNil ELSE next[n][level]
                 ELSE IF n = new THEN next[u[level]][level]
                 ELSE IF n = u[level] THEN new
                 ELSE next[n][level]]]
  BY DEF InsertNew, Spliced, u
<1>8. ASSUME NEW level \in Level PROVE u[level] \in 0 .. N
  <2>1. level_count_limit \in Nat
    BY LevelAssumption
  <2>2. CASE level = level_count_limit
    BY <1>1, <1>6, <2>2
  <2>3. CASE level # level_count_limit
    <3>1. level \in 0 .. level_count_limit - 1
      BY <2>1, <2>3 DEF Level
    <3>2. u[level] \in OnLevel(level) \cup {0}
      BY <1>6, <3>1 DEF IsPred
    <3> QED
      BY <1>1, <3>2 DEF OnLevel
  <2> QED
    BY <2>2, <2>3
<1>9. next' \in [0 .. new -> [Level -> (1 .. new) \cup {kNil}]]
  <2>1. next \in [0 .. N -> [Level -> (1 .. N) \cup {kNil}]]
    BY DEF TypeOK
  <2>2. ASSUME NEW n \in 0 .. new, NEW level \in Level
        PROVE  next'[n][level] \in (1 .. new) \cup {kNil}
    <3>1. n = new \/ n \in 0 .. N
      BY <1>1
    <3>2. \A m \in 0 .. N : next[m][level] \in (1 .. new) \cup {kNil}
      <4> TAKE m \in 0 .. N
      <4>1. next[m][level] \in (1 .. N) \cup {kNil}
        BY <2>1
      <4> QED
        BY <1>1, <4>1
    <3>3. new \in 1 .. new
      BY <1>1
    <3> HIDE DEF new, N
    <3> QED
      BY <1>7, <1>8, <3>1, <3>2, <3>3
  <2>3. DOMAIN next' = 0 .. new /\ \A n \in 0 .. new : DOMAIN next'[n] = Level
    BY <1>7
  <2>4. next' = [n \in 0 .. new |-> [level \in Level |-> next'[n][level]]]
    <3> HIDE DEF new
    <3> QED
      BY <1>7
  <2> HIDE DEF new, N
  <2> QED
    BY <2>2, <2>4
<1>10. kv_count' \in Nat
  BY <1>1 DEF InsertNew
<1>11. TypeOK'
  BY <1>3, <1>9, <1>10 DEF TypeOK
<1>12. ASSUME NEW level \in 0 .. level_count_limit - 1
       PROVE  /\ \A n \in 0 .. N :
                   next'[n][level] = IF level < height /\ n = u[level] THEN new ELSE next[n][level]
              /\ next'[new][level] = IF level < height THEN next[u[level]][level] ELSE kNil
  <2>1. level \in Level /\ level \in Int /\ height \in Int
    BY LevelAssumption DEF Level, Heights
  <2>2. level >= height <=> ~(level < height)
    BY <2>1
  <2>3. \A n \in 0 .. N : n \in 0 .. new /\ n # new
    BY <1>1
  <2>4. new \in 0 .. new
    BY <1>1
  <2> HIDE DEF new, N
  <2> QED
    BY <1>7, <2>1, <2>2, <2>3, <2>4
<1> QED
  BY <1>1, <1>3, <1>4, <1>5, <1>11, <1>12 DEF u

LEMMA InsertNewKeeps ==
  ASSUME ListInv, NEW key \in Key, NEW value \in Entry, NEW height \in Heights,
         InsertNew(key, value, height)
  PROVE  ListInv'
<1> USE DEF ListInv
<1> DEFINE N == Len(nodes)
           new == N + 1
           L == level_count_limit
           u == Update(key)
<1>1. N \in Nat /\ new \in Nat /\ key \in Int /\ height \in Nat /\ new # 0 /\ new # kNil
  BY NodeFacts, KeyAssumption, LevelAssumption DEF Heights, kNil
<1>2. /\ TypeOK' /\ Len(nodes') = new
      /\ \A n \in 1 .. N : nodes'[n] = nodes[n] /\ n # new
      /\ nodes'[new].key = key /\ nodes'[new].height = height
  BY InsertNewState
<1>3. \A level \in 0 .. L - 1 :
        /\ \A n \in 0 .. N :
             next'[n][level] = IF level < height /\ n = u[level] THEN new ELSE next[n][level]
        /\ next'[new][level] = IF level < height THEN next[u[level]][level] ELSE kNil
  BY InsertNewState
<1>4. \A level \in 0 .. L - 1 : IsPred(u[level], level, key)
  BY <1>1, UpdateIs
<1>5. \A n \in 1 .. N : nodes[n].key # key
  BY <1>1, FoundIs DEF InsertNew, HasKey
<1> HIDE DEF u
<1>6. 1 .. new = (1 .. N) \cup {new} /\ new \notin 1 .. N
  BY <1>1
<1>7. \A n \in 1 .. N : nodes[n].key \in Int /\ n # 0 /\ n # kNil /\ n \in 0 .. N
  BY NodeFacts DEF kNil
<1>8. Distinct'
  BY <1>2, <1>5, <1>6 DEF Distinct
<1>9. Bounded'
  <2>1. PICK b \in Int : \A n \in 1 .. N : nodes[n].key <= b
    BY DEF Bounded
  <2>2. PICK c \in Int : c >= b /\ c >= key
    <3>1. CASE b >= key
      BY <3>1
    <3>2. CASE ~(b >= key)
      BY <1>1, <3>2
    <3> QED
      BY <3>1, <3>2
  <2>3. \A n \in 1 .. N : nodes[n].key <= c
    BY <1>7, <2>1, <2>2
  <2>4. \A n \in 1 .. new : nodes'[n].key <= c
    <3> HIDE DEF new, N
    <3> QED
      BY <1>2, <1>6, <2>2, <2>3
  <2> QED
    BY <1>2, <2>4 DEF Bounded
<1>10. kv_count' = Len(nodes')
  BY <1>2 DEF InsertNew
<1>11. ASSUME NEW level \in 0 .. L - 1
       PROVE  /\ OnLevel(level)' = IF level < height THEN OnLevel(level) \cup {new} ELSE OnLevel(level)
              /\ OnLevel(level) \subseteq 1 .. N
  <2>1. level \in Int
    OBVIOUS
  <2>2. OnLevel(level)' = {n \in 1 .. new : nodes'[n].height > level}
    BY <1>2 DEF OnLevel
  <2>3. nodes'[new].height > level <=> level < height
    BY <1>1, <1>2, <2>1
  <2> HIDE DEF new, N
  <2> QED
    BY <1>2, <1>6, <2>2, <2>3 DEF OnLevel, N
<1>12. Unlinked'
  <2> SUFFICES ASSUME NEW level \in 0 .. L - 1, NEW n \in 1 .. new, n \notin OnLevel(level)'
               PROVE  next'[n][level] = kNil
    BY <1>2 DEF Unlinked
  <2>1. CASE n = new
    BY <1>3, <1>11, <2>1
  <2>2. CASE n # new
    <3>1. n \in 1 .. N /\ n \notin OnLevel(level)
      BY <1>6, <1>11, <2>2
    <3>2. next[n][level] = kNil
      BY <3>1 DEF Unlinked
    <3>3. level < height => n # u[level]
      BY <1>4, <1>7, <3>1 DEF IsPred
    <3> QED
      BY <1>3, <1>7, <3>1, <3>2, <3>3
  <2> QED
    BY <2>1, <2>2
<1>13. Linked'
  <2> SUFFICES ASSUME NEW level \in 0 .. L - 1, NEW n \in OnLevel(level)' \cup {0}
               PROVE  IsSuccessor(next[n][level], n, level)'
    BY DEF Linked
  <2> DEFINE p == u[level]
             G(i) == Greater(i, level)
             Key1(i) == nodes'[i].key
  <2>0. /\ OnLevel(level) \subseteq 1 .. N /\ new \notin OnLevel(level)
        /\ \A i \in OnLevel(level) : Key1(i) = nodes[i].key /\ nodes[i].key \in Int /\ i # 0
        /\ Key1(new) = key
    BY <1>2, <1>6, <1>7, <1>11
  <2>1. \A i : Greater(i, level)' = {m \in OnLevel(level)' : i = 0 \/ Key1(m) > Key1(i)}
    BY DEF Greater
  <2>2. CASE ~(level < height)
    <3>1. OnLevel(level)' = OnLevel(level) /\ n \in OnLevel(level) \cup {0} /\ n \in 0 .. N
      BY <1>1, <1>7, <1>11, <2>2
    <3>2. Greater(n, level)' = Greater(n, level)
      BY <2>0, <2>1, <3>1 DEF Greater
    <3>3. next'[n][level] = next[n][level]
      BY <1>3, <2>2, <3>1
    <3>4. IsSuccessor(next[n][level], n, level)
      BY <3>1 DEF Linked
    <3>5. Greater(n, level) \subseteq OnLevel(level)
      BY DEF Greater
    <3> QED
      BY <2>0, <3>2, <3>3, <3>4, <3>5 DEF IsSuccessor
  <2>3. CASE level < height
    <3>1. OnLevel(level)' = OnLevel(level) \cup {new}
      BY <1>11, <2>3
    <3>2. IsPred(p, level, key)
      BY <1>4
    <3> DEFINE s == next[p][level]
    <3>3. /\ s = kNil => \A m \in OnLevel(level) : nodes[m].key < key
          /\ s # kNil => /\ s \in OnLevel(level) /\ nodes[s].key >= key
                         /\ \A m \in OnLevel(level) :
                              nodes[m].key >= key => nodes[s].key <= nodes[m].key
      BY <1>1, <3>2, AfterPred
    <3>4. /\ p \in OnLevel(level) \cup {0} /\ (p = 0 \/ nodes[p].key < key)
          /\ \A m \in OnLevel(level) : nodes[m].key < key => p # 0 /\ nodes[m].key <= nodes[p].key
      BY <3>2 DEF IsPred, Below
    <3>5. \A i \in OnLevel(level) : nodes[i].key # key
      BY <1>5, <2>0
    <3> HIDE DEF s, p
    <3>6. CASE n = new
      <4>1. next'[n][level] = s
        BY <1>3, <2>3, <3>6 DEF s, p
      <4>2. \A m : m \in Greater(n, level)' <=> m \in OnLevel(level) /\ nodes[m].key > key
        BY <1>1, <2>0, <2>1, <3>1, <3>6
      <4>3. CASE s = kNil
        <5>1. Greater(n, level)' = {}
          BY <1>1, <2>0, <3>3, <4>2, <4>3
        <5> QED
          BY <4>1, <4>3, <5>1 DEF IsSuccessor
      <4>4. CASE s # kNil
        <5>1. s \in Greater(n, level)'
          BY <1>1, <2>0, <3>3, <3>5, <4>2, <4>4
        <5>2. \A m \in Greater(n, level)' : Key1(s) <= Key1(m)
          BY <1>1, <2>0, <3>3, <4>2, <4>4
        <5> QED
          BY <4>1, <5>1, <5>2 DEF IsSuccessor
      <4> QED
        BY <4>3, <4>4
    <3>7. CASE n = p
      <4>1. n \in OnLevel(level) \cup {0} /\ n \in 0 .. N
        BY <1>1, <1>7, <2>0, <3>4, <3>7
      <4>2. next'[n][level] = new
        BY <1>3, <2>3, <3>7, <4>1 DEF p
      <4>3. new \in Greater(n, level)'
        BY <1>1, <2>0, <2>1, <3>1, <3>4, <3>7
      <4>4. ASSUME NEW m \in Greater(n, level)' PROVE Key1(new) <= Key1(m)
        <5>1. m \in OnLevel(level) \cup {new} /\ (n = 0 \/ Key1(m) > Key1(n))
          BY <2>1, <3>1
        <5>2. CASE m = new
          BY <1>1, <2>0, <5>2
        <5>3. CASE m # new
          <6>1. m \in OnLevel(level) /\ Key1(m) = nodes[m].key /\ nodes[m].key \in Int
            BY <2>0, <5>1, <5>3
          <6>2. n = 0 \/ (nodes[m].key > nodes[n].key /\ nodes[n].key \in Int)
            BY <2>0, <4>1, <5>1, <6>1
          <6>3. ~ (nodes[m].key < key)
            BY <3>4, <3>7, <6>1, <6>2
          <6> QED
            BY <1>1, <2>0, <6>1, <6>3
        <5> QED
          BY <5>2, <5>3
      <4> QED
        BY <4>2, <4>3, <4>4 DEF IsSuccessor
    <3>8. CASE n # new /\ n # p
      <4>1. n \in OnLevel(level) \cup {0} /\ n \in 0 .. N
        BY <1>1, <1>7, <2>0, <3>1, <3>8
      <4>2. next'[n][level] = next[n][level]
        BY <1>3, <3>8, <4>1 DEF p
      <4>3. IsSuccessor(next[n][level], n, level)
        BY <4>1 DEF Linked
      <4>4. \A m : m \in Greater(n, level)' <=>
                     m \in Greater(n, level) \/ (m = new /\ (n = 0 \/ key > nodes[n].key))
        BY <2>0, <2>1, <3>1, <4>1 DEF Greater
      <4>5. Greater(n, level) \subseteq OnLevel(level)
        BY DEF Greater
      <4>6. CASE n = 0 \/ key > nodes[n].key
        <5>1. p \in Greater(n, level)
          <6>1. CASE n = 0
            BY <3>4, <3>8, <6>1 DEF Greater
          <6>2. CASE n # 0
            <7>1. n \in OnLevel(level) /\ nodes[n].key \in Int /\ nodes[n].key < key
              BY <1>1, <2>0, <4>1, <4>6, <6>2
            <7>2. p \in OnLevel(level) /\ nodes[n].key <= nodes[p].key /\ nodes[p].key \in Int
              BY <2>0, <3>4, <7>1
            <7>3. nodes[n].key # nodes[p].key
              BY <2>0, <3>8, <7>1, <7>2 DEF Distinct
            <7> QED
              BY <7>1, <7>2, <7>3 DEF Greater
          <6> QED
            BY <6>1, <6>2
        <5> DEFINE t == next[n][level]
        <5>2. t \in Greater(n, level) /\ \A g \in Greater(n, level) : nodes[t].key <= nodes[g].key
          BY <4>3, <5>1 DEF IsSuccessor
        <5> HIDE DEF t
        <5>3. nodes[t].key <= key
          <6>1. p \in OnLevel(level) /\ nodes[t].key <= nodes[p].key /\ nodes[p].key < key
            BY <2>0, <3>4, <4>5, <5>1, <5>2
          <6>2. nodes[p].key \in Int /\ nodes[t].key \in Int
            BY <2>0, <4>5, <5>2, <6>1
          <6> QED
            BY <1>1, <6>1, <6>2
        <5>4. \A m \in Greater(n, level)' : Key1(t) <= Key1(m)
          BY <2>0, <4>4, <4>5, <5>2, <5>3
        <5> QED
          BY <4>2, <4>4, <5>2, <5>4 DEF IsSuccessor, t
      <4>7. CASE ~(n = 0 \/ key > nodes[n].key)
        <5>1. Greater(n, level)' = Greater(n, level)
          BY <4>4, <4>7
        <5> QED
          BY <2>0, <4>2, <4>3, <4>5, <5>1 DEF IsSuccessor
      <4> QED
        BY <4>6, <4>7
    <3> QED
      BY <3>6, <3>7, <3>8
  <2> QED
    BY <2>2, <2>3
<1> QED
  BY <1>2, <1>8, <1>9, <1>10, <1>12, <1>13

LEMMA ContentsAre ==
  ListInv => \A key \in Key :
               /\ \A n \in 1 .. Len(nodes) : nodes[n].key = key => Contents[key] = nodes[n].value
               /\ ~HasKey(key) => Contents[key] = nullopt
BY FindIs, KeyAssumption DEF Contents

LEMMA ContentsAreNext ==
  ASSUME ListInv'
  PROVE  \A key \in Key :
           /\ \A n \in 1 .. Len(nodes') : nodes'[n].key = key => Contents'[key] = nodes'[n].value
           /\ ~HasKey(key)' => Contents'[key] = nullopt
<1>1. (ListInv => \A key \in Key :
               /\ \A n \in 1 .. Len(nodes) : nodes[n].key = key => Contents[key] = nodes[n].value
               /\ ~HasKey(key) => Contents[key] = nullopt)'
  BY ContentsAre, PTL
<1> QED
  BY <1>1

LEMMA InsertExistingKeeps ==
  ASSUME ListInv, NEW key \in Key, NEW value \in Entry, InsertExisting(key, value)
  PROVE  /\ ListInv'
         /\ Len(nodes') = Len(nodes)
         /\ \A n \in 1 .. Len(nodes) : /\ nodes'[n].key = nodes[n].key
                                       /\ nodes[n].key = key => nodes'[n].value = value
                                       /\ nodes[n].key # key => nodes'[n].value = nodes[n].value
<1> USE DEF ListInv
<1> DEFINE N == Len(nodes)
           i == NodeOf(key)
<1>1. key \in Int /\ nodes \in Seq(Node) /\ N \in Nat
  BY KeyAssumption, NodeFacts DEF TypeOK
<1>2. i \in 1 .. N /\ nodes[i].key = key
  BY <1>1, FoundIs DEF InsertExisting
<1> HIDE DEF i
<1>3. nodes' = [nodes EXCEPT ![i].value = value] /\ UNCHANGED <<next, kv_count>>
  BY DEF InsertExisting, i
<1>4. nodes' = [nodes EXCEPT ![i] = [nodes[i] EXCEPT !.value = value]]
  BY <1>3
<1>5. nodes[i] \in Node
  BY <1>1, <1>2
<1>6. [nodes[i] EXCEPT !.value = value] \in Node
  BY <1>5 DEF Node
<1>7. nodes' \in Seq(Node) /\ Len(nodes') = N /\ DOMAIN nodes' = 1 .. N
  BY <1>1, <1>2, <1>4, <1>6
<1>8. ASSUME NEW n \in 1 .. N
      PROVE  /\ nodes'[n].key = nodes[n].key /\ nodes'[n].height = nodes[n].height
             /\ n = i => nodes'[n].value = value
             /\ n # i => nodes'[n].value = nodes[n].value
  <2>1. CASE n = i
    <3>1. nodes'[n] = [nodes[i] EXCEPT !.value = value]
      BY <1>1, <1>2, <1>4, <2>1
    <3> QED
      BY <1>5, <2>1, <3>1 DEF Node
  <2>2. CASE n # i
    <3>1. nodes'[n] = nodes[n]
      BY <1>1, <1>4, <2>2
    <3> QED
      BY <2>2, <3>1
  <2> QED
    BY <2>1, <2>2
<1>9. \A n \in 1 .. N : nodes[n].key = key => n = i
  BY <1>2 DEF Distinct
<1>10. TypeOK'
  BY <1>3, <1>7 DEF TypeOK
<1>11. Distinct' /\ Bounded'
  BY <1>7, <1>8 DEF Distinct, Bounded
<1>12. \A level : OnLevel(level)' = OnLevel(level) /\ OnLevel(level) \subseteq 1 .. N
  BY <1>7, <1>8 DEF OnLevel
<1>13. \A level : \A n \in OnLevel(level) \cup {0} :
         Greater(n, level)' = Greater(n, level) /\ Greater(n, level) \subseteq OnLevel(level)
  BY <1>8, <1>12 DEF Greater
<1>14. Unlinked'
  BY <1>3, <1>7, <1>12 DEF Unlinked
<1>15. Linked'
  <2> SUFFICES ASSUME NEW level \in 0 .. level_count_limit - 1, NEW n \in OnLevel(level) \cup {0}
               PROVE  IsSuccessor(next[n][level], n, level)'
    BY <1>12 DEF Linked
  <2>1. IsSuccessor(next[n][level], n, level)
    BY DEF Linked
  <2>2. next'[n][level] = next[n][level]
    BY <1>3
  <2>3. \A g \in Greater(n, level) : g \in 1 .. N
    BY <1>12, <1>13
  <2> QED
    BY <1>8, <1>13, <2>1, <2>2, <2>3 DEF IsSuccessor
<1> QED
  BY <1>2, <1>3, <1>7, <1>8, <1>9, <1>10, <1>11, <1>14, <1>15

LEMMA EmptyListInv ==
  /\ Init => ListInv
  /\ Clear => ListInv' /\ nodes' = <<>>
<1>1. ASSUME Init PROVE ListInv
  <2>1. nodes = <<>> /\ Len(nodes) = 0 /\ nodes \in Seq(Node) /\ 1 .. 0 = {} /\ 0 .. 0 = {0}
    BY <1>1 DEF Init
  <2>2. next = [n \in {0} |-> NilNode] /\ NilNode \in [Level -> (1 .. 0) \cup {kNil}]
    BY <1>1 DEF Init, NilNode
  <2>3. TypeOK
    BY <1>1, <2>1, <2>2 DEF Init, TypeOK
  <2>4. \A level : OnLevel(level) = {} /\ Greater(0, level) = {}
    BY <2>1 DEF OnLevel, Greater
  <2>5. \A level \in 0 .. level_count_limit - 1 : next[0][level] = kNil
    BY <2>2, LevelAssumption DEF NilNode, Level
  <2>6. Linked
    BY <2>4, <2>5 DEF Linked, IsSuccessor
  <2>7. Distinct /\ Unlinked /\ Bounded
    BY <2>1 DEF Distinct, Unlinked, Bounded
  <2> QED
    BY <1>1, <2>1, <2>3, <2>6, <2>7 DEF ListInv, Init
<1>2. (Init => ListInv)'
  BY <1>1, PTL
<1>3. Clear <=> Init'
  BY DEF Clear, Init
<1> QED
  BY <1>1, <1>2, <1>3 DEF Clear

LEMMA InvariantKept ==
  ASSUME ListInv, [Next]_vars
  PROVE  ListInv'
<1>1. CASE Clear
  BY <1>1, EmptyListInv
<1>2. ASSUME NEW key \in Key, NEW value \in Entry, InsertExisting(key, value) PROVE ListInv'
  BY <1>2, InsertExistingKeeps
<1>3. ASSUME NEW key \in Key, NEW value \in Entry, NEW height \in Heights,
             InsertNew(key, value, height)
      PROVE  ListInv'
  BY <1>3, InsertNewKeeps
<1>4. CASE UNCHANGED vars
  BY <1>4 DEF vars, ListInv, TypeOK, Distinct, Linked, Unlinked, Bounded, IsSuccessor, Greater, OnLevel
<1> QED
  BY <1>1, <1>2, <1>3, <1>4 DEF Next

(* The invariant holds after every insert, erase and Clear.                *)
THEOREM ListInvAlways == Spec => []ListInv
<1>1. Init => ListInv
  BY EmptyListInv
<1>2. ListInv /\ [Next]_vars => ListInv'
  BY InvariantKept
<1> QED
  BY <1>1, <1>2, PTL DEF Spec

(* Nodes keep their types and links lead to nodes, whatever is inserted.   *)
THEOREM ListTypeCorrect == Spec => []TypeOK
<1>1. ListInv => TypeOK
  BY DEF ListInv
<1> QED
  BY <1>1, ListInvAlways, PTL

(* As many keys as nodes. *)
LEMMA KeysCounted ==
  ASSUME TypeOK, Distinct
  PROVE  Cardinality({nodes[n].key : n \in 1 .. Len(nodes)}) = Len(nodes)
<1> DEFINE N == Len(nodes)
           T == {nodes[n].key : n \in 1 .. N}
           f == [n \in 1 .. N |-> nodes[n].key]
<1>1. N \in Nat /\ IsFiniteSet(1 .. N) /\ Cardinality(1 .. N) = N
  <2>1. N \in Nat
    BY NodeFacts
  <2> HIDE DEF N
  <2>2. IsFiniteSet(1 .. N) /\ Cardinality(1 .. N) = IF 1 > N THEN 0 ELSE N - 1 + 1
    BY <2>1, FS_Interval
  <2> QED
    BY <2>1, <2>2
<1>2. f \in Bijection(1 .. N, T)
  <2>1. f \in [1 .. N -> T]
    OBVIOUS
  <2>2. \A a, b \in 1 .. N : f[a] = f[b] => a = b
    BY DEF Distinct
  <2>3. \A t \in T : \E a \in 1 .. N : f[a] = t
    OBVIOUS
  <2> HIDE DEF f, T, N
  <2> QED
    BY <2>1, <2>2, <2>3 DEF Bijection, Injection, IsInjective, Surjection
<1>3. Cardinality(T) = Cardinality(1 .. N)
  <2> HIDE DEF f, T, N
  <2> QED
    BY <1>1, <1>2, FS_Bijection DEF ExistsBijection
<1> QED
  BY <1>1, <1>3

(* Every level stays the sorted list of the nodes that reach it, in        *)
(* whatever order keys are inserted and whatever heights they draw.        *)
THEOREM LevelsAlwaysSorted == Spec => []LevelsSorted
<1>1. ListInv => LevelsSorted
  BY KeysCounted DEF ListInv, LevelsSorted, Linked, IsSuccessor
<1> QED
  BY <1>1, ListInvAlways, PTL

----------------------------------------------------------------------------
(* The list is a map of entries. *)

LEMMA InsertNewShows ==
  ASSUME ListInv, NEW key \in Key, NEW value \in Entry, NEW height \in Heights,
         InsertNew(key, value, height)
  PROVE  Contents' = [Contents EXCEPT ![key] = value]
<1> DEFINE new == Len(nodes) + 1
<1>1. ListInv' /\ key \in Int
  BY InsertNewKeeps, KeyAssumption
<1>2. /\ Len(nodes') = new /\ new \in Nat
      /\ \A n \in 1 .. Len(nodes) : nodes'[n] = nodes[n] /\ n # new
      /\ nodes'[new].key = key /\ nodes'[new].value = value
  BY InsertNewState
<1>3. new \in 1 .. new /\ 1 .. new = (1 .. Len(nodes)) \cup {new}
  BY <1>1, <1>2, NodeFacts DEF ListInv
<1>4. ASSUME NEW k \in Key
      PROVE  Contents'[k] = IF k = key THEN value ELSE Contents[k]
  <2>1. CASE k = key
    BY <1>1, <1>2, <1>3, <2>1, ContentsAreNext
  <2>2. CASE k # key /\ HasKey(k)
    <3>1. PICK n \in 1 .. Len(nodes) : nodes[n].key = k
      BY <2>2 DEF HasKey
    <3>2. n \in 1 .. Len(nodes') /\ nodes'[n] = nodes[n]
      BY <1>2, <1>3, <3>1
    <3>3. Contents[k] = nodes[n].value
      BY <3>1, ContentsAre
    <3>4. Contents'[k] = nodes'[n].value
      BY <1>1, <3>1, <3>2, ContentsAreNext
    <3> QED
      BY <2>2, <3>2, <3>3, <3>4
  <2>3. CASE k # key /\ ~HasKey(k)
    <3>1. ~HasKey(k)'
      BY <1>2, <1>3, <2>3 DEF HasKey
    <3> QED
      BY <1>1, <2>3, <3>1, ContentsAre, ContentsAreNext
  <2> QED
    BY <2>1, <2>2, <2>3
<1>5. Contents' = [k \in Key |-> Contents'[k]] /\ Contents = [k \in Key |-> Contents[k]]
  BY DEF Contents
<1> QED
  BY <1>4, <1>5

LEMMA InsertExistingShows ==
  ASSUME ListInv, NEW key \in Key, NEW value \in Entry, InsertExisting(key, value)
  PROVE  Contents' = [Contents EXCEPT ![key] = value]
<1>1. /\ ListInv' /\ Len(nodes') = Len(nodes)
      /\ \A n \in 1 .. Len(nodes) : /\ nodes'[n].key = nodes[n].key
                                    /\ nodes[n].key = key => nodes'[n].value = value
                                    /\ nodes[n].key # key => nodes'[n].value = nodes[n].value
  BY InsertExistingKeeps
<1>2. HasKey(key)
  BY KeyAssumption, FoundIs DEF InsertExisting
<1>3. ASSUME NEW k \in Key
      PROVE  Contents'[k] = IF k = key THEN value ELSE Contents[k]
  <2>1. CASE HasKey(k)
    <3>1. PICK n \in 1 .. Len(nodes) : nodes[n].key = k
      BY <2>1 DEF HasKey
    <3>2. Contents[k] = nodes[n].value
      BY <3>1, ContentsAre
    <3>3. Contents'[k] = nodes'[n].value
      BY <1>1, <3>1, ContentsAreNext
    <3> QED
      BY <1>1, <3>1, <3>2, <3>3
  <2>2. CASE ~HasKey(k)
    <3>1. ~HasKey(k)'
      BY <1>1, <2>2 DEF HasKey
    <3> QED
      BY <1>1, <1>2, <2>2, <3>1, ContentsAre, ContentsAreNext
  <2> QED
    BY <2>1, <2>2
<1>4. Contents' = [k \in Key |-> Contents'[k]] /\ Contents = [k \in Key |-> Contents[k]]
  BY DEF Contents
<1> QED
  BY <1>3, <1>4

LEMMA EmptyShows ==
  (ListInv /\ nodes = <<>>) => Contents = Map!NoEntries
<1> SUFFICES ASSUME ListInv, nodes = <<>> PROVE Contents = Map!NoEntries
  OBVIOUS
<1>1. \A k \in Key : ~HasKey(k)
  BY DEF HasKey
<1>2. \A k \in Key : Contents[k] = nullopt
  BY <1>1, ContentsAre
<1>3. Contents = [k \in Key |-> Contents[k]]
  BY DEF Contents
<1> QED
  BY <1>2, <1>3 DEF Map!NoEntries

(* The skip list implements the map that LSMTree takes its memtable for:   *)
(* an insert or an erase changes the answer for its own key only, Clear    *)
(* forgets all.                                                            *)
THEOREM ListImplementsMap == Spec => ImplementsEntryMap
<1>1. Init => Map!Init
  BY EmptyListInv, EmptyShows DEF Init, Map!Init
<1>2. ASSUME ListInv, [Next]_vars PROVE [Map!Next]_Contents
  <2>1. CASE Clear
    <3>1. ListInv' /\ nodes' = <<>>
      BY <2>1, EmptyListInv
    <3>2. (ListInv /\ nodes = <<>> => Contents = Map!NoEntries)'
      BY EmptyShows, PTL
    <3>3. Contents' = Map!NoEntries
      BY <3>1, <3>2 DEF Map!NoEntries
    <3> QED
      BY <3>3 DEF Map!Next, Map!Clear
  <2>2. ASSUME NEW key \in Key, NEW value \in Entry, InsertExisting(key, value)
        PROVE  Map!Next
    BY <1>2, <2>2, InsertExistingShows DEF Map!Next, Map!Insert, Entry
  <2>3. ASSUME NEW key \in Key, NEW value \in Entry, NEW height \in Heights,
               InsertNew(key, value, height)
        PROVE  Map!Next
    BY <1>2, <2>3, InsertNewShows DEF Map!Next, Map!Insert, Entry
  <2>4. CASE UNCHANGED vars
    <3>1. UNCHANGED Contents
      BY <2>4 DEF vars, Contents, Find, Found, NodeOf, HitLevels, Update, Leaves, GoesOn
    <3> QED
      BY <3>1
  <2> QED
    BY <1>2, <2>1, <2>2, <2>3, <2>4 DEF Next
<1> QED
  BY <1>1, <1>2, ListInvAlways, PTL DEF Spec, ImplementsEntryMap, Map!Spec

----------------------------------------------------------------------------
(* The nodes along level 0. *)

(* The sequence of the nodes from n to the end of the list.                *)
Path(n, s) ==
  /\ s \in Seq(0 .. Len(nodes)) /\ Len(s) >= 1 /\ s[1] = n
  /\ \A i \in 1 .. Len(s) - 1 : next[s[i]][0] = s[i + 1] /\ s[i + 1] # kNil
  /\ next[s[Len(s)]][0] = kNil

ChainEquation(f) ==
  f = [m \in 0 .. Len(nodes) |->
         IF next[m][0] = kNil THEN <<m>> ELSE <<m>> \o f[next[m][0]]]

LEMMA ChainIs ==
  ASSUME NEW n
  PROVE  Chain(n) = IF n = kNil THEN <<>> ELSE (CHOOSE f : ChainEquation(f))[n]
BY DEF Chain, ChainEquation

(* A link leads to a node with a greater key, and none is in between.      *)
LEMMA NextOnBottom ==
  ASSUME ListInv, NEW m \in 0 .. Len(nodes)
  PROVE  LET s == next[m][0]
         IN  /\ s # kNil => /\ s \in 1 .. Len(nodes)
                            /\ m # 0 => nodes[m].key < nodes[s].key
                            /\ \A g \in 1 .. Len(nodes) :
                                 m = 0 \/ nodes[g].key > nodes[m].key =>
                                   nodes[s].key <= nodes[g].key
             /\ s = kNil => \A g \in 1 .. Len(nodes) : m # 0 /\ nodes[g].key <= nodes[m].key
<1> DEFINE s == next[m][0]
<1> USE DEF ListInv
<1>1. OnLevel(0) = 1 .. Len(nodes) /\ 0 \in 0 .. level_count_limit - 1
  BY OnBottom
<1>2. m \in OnLevel(0) \cup {0} /\ \A g \in 1 .. Len(nodes) : nodes[g].key \in Int /\ g # kNil
  BY <1>1, NodeFacts DEF kNil
<1>3. IsSuccessor(s, m, 0)
  BY <1>1, <1>2 DEF Linked
<1>4. \A g : g \in Greater(m, 0) <=> g \in 1 .. Len(nodes) /\ (m = 0 \/ nodes[g].key > nodes[m].key)
  BY <1>1 DEF Greater
<1>5. m # 0 => m \in 1 .. Len(nodes)
  BY <1>1, <1>2
<1>6. CASE Greater(m, 0) = {}
  <2>1. s = kNil
    BY <1>3, <1>6 DEF IsSuccessor
  <2>2. \A g \in 1 .. Len(nodes) : m # 0 /\ nodes[g].key <= nodes[m].key
    BY <1>2, <1>4, <1>5, <1>6
  <2> QED
    BY <2>1, <2>2
<1>7. CASE Greater(m, 0) # {}
  <2>1. s \in Greater(m, 0) /\ \A g \in Greater(m, 0) : nodes[s].key <= nodes[g].key
    BY <1>3, <1>7 DEF IsSuccessor
  <2>2. s \in 1 .. Len(nodes) /\ s # kNil
    BY <1>2, <1>4, <2>1
  <2> HIDE DEF s
  <2>3. m # 0 => nodes[m].key < nodes[s].key
    BY <1>2, <1>4, <1>5, <2>1, <2>2
  <2> QED
    BY <1>4, <2>1, <2>2, <2>3 DEF s
<1> QED
  BY <1>6, <1>7

(* What a path joins: m and the path of the node behind it.                *)
LEMMA PathJoin ==
  ASSUME ListInv, NEW m \in 0 .. Len(nodes)
  PROVE  /\ next[m][0] = kNil => Path(m, <<m>>)
         /\ \A s : next[m][0] # kNil /\ Path(next[m][0], s) => Path(m, <<m>> \o s)
<1> DEFINE N == 0 .. Len(nodes)
<1>1. ASSUME next[m][0] = kNil PROVE Path(m, <<m>>)
  <2>1. <<m>> \in Seq(N) /\ Len(<<m>>) = 1 /\ <<m>>[1] = m
    OBVIOUS
  <2> QED
    BY <1>1, <2>1 DEF Path
<1>2. ASSUME NEW s, next[m][0] # kNil, Path(next[m][0], s) PROVE Path(m, <<m>> \o s)
  <2> DEFINE t == <<m>> \o s
             n == next[m][0]
  <2>1. s \in Seq(N) /\ Len(s) \in Nat /\ Len(s) >= 1 /\ s[1] = n
        /\ \A i \in 1 .. Len(s) - 1 : next[s[i]][0] = s[i + 1] /\ s[i + 1] # kNil
        /\ next[s[Len(s)]][0] = kNil
    BY <1>2 DEF Path
  <2>2. t \in Seq(N) /\ Len(t) = Len(s) + 1 /\ t[1] = m
    BY <2>1
  <2>3. \A i \in 1 .. Len(s) : t[i + 1] = s[i]
    BY <2>1
  <2> HIDE DEF t, N, n
  <2>4. ASSUME NEW i \in 1 .. Len(t) - 1 PROVE next[t[i]][0] = t[i + 1] /\ t[i + 1] # kNil
    <3>1. CASE i = 1
      <4>1. t[2] = n
        BY <2>1, <2>3
      <4> QED
        BY <1>2, <2>2, <3>1, <4>1 DEF n
    <3>2. CASE i # 1
      <4>1. i - 1 \in 1 .. Len(s) - 1 /\ i - 1 \in 1 .. Len(s) /\ i \in 1 .. Len(s)
            /\ (i - 1) + 1 = i
        BY <2>1, <2>2, <3>2
      <4>2. t[i] = s[i - 1] /\ t[i + 1] = s[i]
        BY <2>3, <4>1
      <4> QED
        BY <2>1, <4>1, <4>2
    <3> QED
      BY <3>1, <3>2
  <2>5. next[t[Len(t)]][0] = kNil
    <3>1. Len(s) \in 1 .. Len(s)
      BY <2>1
    <3>2. t[Len(s) + 1] = s[Len(s)]
      BY <2>3, <3>1
    <3>3. t[Len(t)] = s[Len(s)]
      BY <2>2, <3>2
    <3>4. next[s[Len(s)]][0] = kNil
      BY <1>2 DEF Path
    <3> QED
      BY <3>3, <3>4
  <2>6. Path(m, t)
    BY <2>1, <2>2, <2>4, <2>5 DEF Path, N
  <2> QED
    BY <2>6 DEF t
<1> QED
  BY <1>1, <1>2

LEMMA PathUnique ==
  ASSUME NEW m, NEW s, NEW t, Path(m, s), Path(m, t), Len(s) <= Len(t)
  PROVE  s = t
<1>1. /\ s \in Seq(0 .. Len(nodes)) /\ t \in Seq(0 .. Len(nodes))
      /\ Len(s) \in Nat /\ Len(t) \in Nat /\ Len(s) >= 1 /\ s[1] = t[1]
  BY DEF Path
<1> DEFINE T == {i \in 1 .. Len(s) : s[i] # t[i]}
<1>2. T = {}
  <2> SUFFICES ASSUME T # {} PROVE FALSE
    OBVIOUS
  <2>1. PICK i \in T : \A j \in T : i <= j
    <3>1. T \subseteq Nat
      OBVIOUS
    <3> HIDE DEF T
    <3> QED
      BY <3>1, LeastNat
  <2>2. i \in 1 .. Len(s) /\ s[i] # t[i] /\ i # 1
    BY <1>1
  <2>3. i - 1 \in 1 .. Len(s) - 1 /\ i - 1 \in 1 .. Len(t) - 1 /\ i - 1 \in 1 .. Len(s)
        /\ (i - 1) + 1 = i /\ ~(i <= i - 1)
    BY <1>1, <2>2
  <2>4. s[i - 1] = t[i - 1]
    <3>1. i - 1 \notin T
      <4> HIDE DEF T
      <4> QED
        BY <2>1, <2>3
    <3> QED
      BY <2>3, <3>1
  <2>5. next[s[i - 1]][0] = s[i] /\ next[t[i - 1]][0] = t[i]
    BY <2>3 DEF Path
  <2> QED
    BY <2>2, <2>4, <2>5
<1>3. CASE Len(s) < Len(t)
  <2>1. Len(s) \in 1 .. Len(t) - 1 /\ Len(s) \in 1 .. Len(s)
    BY <1>1, <1>3
  <2>2. next[t[Len(s)]][0] = t[Len(s) + 1] /\ t[Len(s) + 1] # kNil
    BY <2>1 DEF Path
  <2>3. s[Len(s)] = t[Len(s)]
    BY <1>2, <2>1
  <2> QED
    BY <2>2, <2>3 DEF Path
<1>4. CASE Len(s) = Len(t)
  BY <1>1, <1>2, <1>4
<1> QED
  BY <1>1, <1>3, <1>4

(* From every node there is one path. *)
LEMMA PathExists ==
  ASSUME ListInv, NEW n \in 0 .. Len(nodes)
  PROVE  \E s : Path(n, s)
<1>1. PICK b \in Int : \A i \in 1 .. Len(nodes) : nodes[i].key <= b
  BY DEF ListInv, Bounded
<1>2. \A i \in 1 .. Len(nodes) : nodes[i].key \in Int /\ i \in 0 .. Len(nodes)
  BY NodeFacts DEF ListInv
<1>3. ASSUME NEW m \in 1 .. Len(nodes) PROVE \E s : Path(m, s)
  <2> DEFINE T == {d \in Nat : \E i \in 1 .. Len(nodes) :
                     d = b - nodes[i].key /\ ~ \E s : Path(i, s)}
  <2>1. \A i \in 1 .. Len(nodes) : b - nodes[i].key \in Nat
    BY <1>1, <1>2
  <2>2. CASE T # {}
    <3>1. PICK d \in T : \A e \in T : d <= e
      <4>1. T \subseteq Nat
        OBVIOUS
      <4> HIDE DEF T
      <4> QED
        BY <2>2, <4>1, LeastNat
    <3>2. PICK i \in 1 .. Len(nodes) : d = b - nodes[i].key /\ ~ \E s : Path(i, s)
      OBVIOUS
    <3>3. next[i][0] # kNil
      BY <1>2, <3>2, PathJoin
    <3> DEFINE j == next[i][0]
    <3>4. j \in 1 .. Len(nodes) /\ nodes[i].key < nodes[j].key
      BY <1>2, <3>2, <3>3, NextOnBottom
    <3>5. ~ \E s : Path(j, s)
      BY <1>2, <3>2, <3>3, PathJoin
    <3>6. b - nodes[j].key \in T
      BY <2>1, <3>4, <3>5
    <3>7. b - nodes[i].key <= b - nodes[j].key
      <4> HIDE DEF T, j
      <4> QED
        BY <3>1, <3>2, <3>6
    <3>8. nodes[i].key \in Int /\ nodes[j].key \in Int
      BY <1>2, <3>4
    <3> HIDE DEF T, j
    <3> QED
      BY <3>4, <3>7, <3>8
  <2>3. CASE T = {}
    BY <2>1, <2>3
  <2> QED
    BY <2>2, <2>3
<1>4. CASE n # 0
  <2>1. n \in 1 .. Len(nodes)
    BY <1>4
  <2> QED
    BY <1>3, <2>1
<1>5. CASE n = 0
  <2>1. CASE next[0][0] = kNil
    BY <1>5, <2>1, PathJoin
  <2>2. CASE next[0][0] # kNil
    <3>1. next[0][0] \in 1 .. Len(nodes)
      BY <1>5, <2>2, NextOnBottom
    <3> QED
      BY <1>3, <1>5, <2>2, <3>1, PathJoin
  <2> QED
    BY <2>1, <2>2
<1> QED
  BY <1>4, <1>5

(* Chain computes that path. *)
LEMMA ChainIsPath ==
  ASSUME ListInv, NEW n \in 1 .. Len(nodes)
  PROVE  Path(n, Chain(n))
<1> DEFINE N == 0 .. Len(nodes)
           f == [m \in N |-> CHOOSE s : Path(m, s)]
<1>1. \A m \in N : Path(m, f[m])
  BY PathExists
<1>2. \A m \in N : \A s : Path(m, s) => s = f[m]
  <2> SUFFICES ASSUME NEW m \in N, NEW s, Path(m, s) PROVE s = f[m]
    OBVIOUS
  <2>1. Path(m, f[m])
    BY <1>1
  <2> HIDE DEF f
  <2>2. Len(s) \in Nat /\ Len(f[m]) \in Nat
    BY <2>1 DEF Path
  <2>3. Len(s) <= Len(f[m]) \/ Len(f[m]) <= Len(s)
    BY <2>2
  <2> QED
    BY <2>1, <2>3, PathUnique
<1>3. ASSUME NEW m \in N
      PROVE  f[m] = IF next[m][0] = kNil THEN <<m>> ELSE <<m>> \o f[next[m][0]]
  <2> HIDE DEF f
  <2>1. CASE next[m][0] = kNil
    <3>1. Path(m, <<m>>)
      BY <2>1, PathJoin
    <3>2. <<m>> = f[m]
      BY <1>2, <3>1
    <3> QED
      BY <2>1, <3>2
  <2>2. CASE next[m][0] # kNil
    <3>1. next[m][0] \in N
      <4>1. next[m][0] \in 1 .. Len(nodes)
        BY <2>2, NextOnBottom
      <4> QED
        BY <4>1, NodeFacts DEF ListInv
    <3>2. Path(m, <<m>> \o f[next[m][0]])
      BY <1>1, <2>2, <3>1, PathJoin
    <3> QED
      BY <1>2, <2>2, <3>2
  <2> QED
    BY <2>1, <2>2
<1>4. ChainEquation(f)
  BY <1>3 DEF ChainEquation
<1> HIDE DEF f
<1>5. PICK g : g = CHOOSE h : ChainEquation(h)
  OBVIOUS
<1>6. ChainEquation(g)
  BY <1>4, <1>5
<1>7. \A m \in N : g[m] = IF next[m][0] = kNil THEN <<m>> ELSE <<m>> \o g[next[m][0]]
  BY <1>6 DEF ChainEquation
<1>8. PICK b \in Int : \A i \in 1 .. Len(nodes) : nodes[i].key <= b
  BY DEF ListInv, Bounded
<1>9. \A i \in 1 .. Len(nodes) : nodes[i].key \in Int /\ i \in N /\ i # kNil
  BY NodeFacts DEF ListInv, kNil
<1> DEFINE T == {d \in Nat : \E i \in 1 .. Len(nodes) : d = b - nodes[i].key /\ g[i] # f[i]}
<1>10. \A i \in 1 .. Len(nodes) : b - nodes[i].key \in Nat
  BY <1>8, <1>9
<1>11. T = {}
  <2> SUFFICES ASSUME T # {} PROVE FALSE
    OBVIOUS
  <2>1. PICK d \in T : \A e \in T : d <= e
    <3>1. T \subseteq Nat
      OBVIOUS
    <3> HIDE DEF T
    <3> QED
      BY <3>1, LeastNat
  <2>2. PICK i \in 1 .. Len(nodes) : d = b - nodes[i].key /\ g[i] # f[i]
    OBVIOUS
  <2>3. next[i][0] # kNil /\ g[next[i][0]] # f[next[i][0]]
    BY <1>3, <1>7, <1>9, <2>2
  <2> DEFINE j == next[i][0]
  <2>4. j \in 1 .. Len(nodes) /\ nodes[i].key < nodes[j].key
    BY <1>9, <2>2, <2>3, NextOnBottom
  <2>5. b - nodes[j].key \in T
    BY <1>10, <2>3, <2>4
  <2>6. b - nodes[i].key <= b - nodes[j].key
    <3> HIDE DEF T, j
    <3> QED
      BY <2>1, <2>2, <2>5
  <2>7. nodes[i].key \in Int /\ nodes[j].key \in Int
    BY <1>9, <2>4
  <2> HIDE DEF T, j
  <2> QED
    BY <2>4, <2>6, <2>7
<1>12. g[n] = f[n]
  BY <1>10, <1>11
<1>13. Chain(n) = g[n]
  BY <1>5, <1>9, ChainIs
<1> QED
  BY <1>1, <1>9, <1>12, <1>13

(* A path visits the nodes from its first one on, in the order of keys.    *)
LEMMA PathSorted ==
  ASSUME ListInv, NEW n \in 1 .. Len(nodes), NEW s, Path(n, s)
  PROVE  /\ s \in Seq(1 .. Len(nodes))
         /\ \A i, j \in 1 .. Len(s) : i < j => nodes[s[i]].key < nodes[s[j]].key
         /\ \A g \in 1 .. Len(nodes) :
              nodes[g].key >= nodes[n].key <=> \E i \in 1 .. Len(s) : s[i] = g
<1> DEFINE M == 1 .. Len(nodes)
           l == Len(s)
<1>1. s \in Seq(0 .. Len(nodes)) /\ l \in Nat /\ l >= 1 /\ s[1] = n
  BY DEF Path
<1>2. \A i \in 1 .. l - 1 : next[s[i]][0] = s[i + 1] /\ s[i + 1] # kNil
  BY DEF Path
<1>3. \A m \in M : nodes[m].key \in Int /\ m \in 0 .. Len(nodes) /\ m # 0
  BY NodeFacts DEF ListInv
<1>4. \A i \in 1 .. l : s[i] \in M
  <2> TAKE i \in 1 .. l
  <2>1. CASE i = 1
    BY <1>1, <2>1
  <2>2. CASE i # 1
    <3>1. i - 1 \in 1 .. l - 1 /\ (i - 1) + 1 = i /\ i - 1 \in 1 .. l
      BY <1>1, <2>2
    <3>2. s[i - 1] \in 0 .. Len(nodes)
      BY <1>1, <3>1
    <3>3. next[s[i - 1]][0] = s[(i - 1) + 1] /\ s[(i - 1) + 1] # kNil
      BY <1>2, <3>1
    <3> QED
      BY <3>1, <3>2, <3>3, NextOnBottom
  <2> QED
    BY <2>1, <2>2
<1>5. s \in Seq(M)
  BY <1>1, <1>4
<1>6. \A i \in 1 .. l - 1 :
        /\ i \in 1 .. l /\ i + 1 \in 1 .. l
        /\ nodes[s[i]].key < nodes[s[i + 1]].key
        /\ \A g \in M : nodes[g].key > nodes[s[i]].key => nodes[s[i + 1]].key <= nodes[g].key
  <2> TAKE i \in 1 .. l - 1
  <2>1. i \in 1 .. l /\ i + 1 \in 1 .. l
    BY <1>1
  <2>2. s[i] \in M /\ s[i] \in 0 .. Len(nodes) /\ s[i] # 0
    BY <1>3, <1>4, <2>1
  <2> QED
    BY <1>2, <2>1, <2>2, NextOnBottom
<1>7. \A g \in M : nodes[g].key <= nodes[s[l]].key
  <2>1. l \in 1 .. l
    BY <1>1
  <2>2. s[l] \in 0 .. Len(nodes) /\ s[l] # 0 /\ next[s[l]][0] = kNil
    BY <1>3, <1>4, <2>1 DEF Path
  <2> QED
    BY <2>2, NextOnBottom
<1>8. \A i, j \in 1 .. l : i < j => nodes[s[i]].key < nodes[s[j]].key
  <2> SUFFICES ASSUME NEW i \in 1 .. l, NEW k \in 1 .. l, i < k
               PROVE  nodes[s[i]].key < nodes[s[k]].key
    OBVIOUS
  <2> DEFINE T == {j \in 1 .. l : i < j /\ ~(nodes[s[i]].key < nodes[s[j]].key)}
  <2>1. CASE T # {}
    <3>1. PICK j \in T : \A e \in T : j <= e
      <4>1. T \subseteq Nat
        OBVIOUS
      <4> HIDE DEF T
      <4> QED
        BY <2>1, <4>1, LeastNat
    <3>2. j \in 1 .. l /\ i < j /\ ~(nodes[s[i]].key < nodes[s[j]].key)
      OBVIOUS
    <3>3. j - 1 \in 1 .. l - 1 /\ (j - 1) + 1 = j /\ (i = j - 1 \/ i < j - 1) /\ ~(j <= j - 1)
      BY <1>1, <3>2
    <3>4. nodes[s[j - 1]].key < nodes[s[j]].key
      BY <1>6, <3>3
    <3>5. i # j - 1 => nodes[s[i]].key < nodes[s[j - 1]].key
      <4>1. j - 1 \notin T
        <5> HIDE DEF T
        <5> QED
          BY <3>1, <3>3
      <4> QED
        BY <1>6, <3>3, <4>1
    <3>6. nodes[s[i]].key \in Int /\ nodes[s[j]].key \in Int /\ nodes[s[j - 1]].key \in Int
      BY <1>3, <1>4, <1>6, <3>2, <3>3
    <3> QED
      BY <3>2, <3>4, <3>5, <3>6
  <2>2. CASE T = {}
    BY <2>2
  <2> QED
    BY <2>1, <2>2
<1>9. ASSUME NEW i \in 1 .. l PROVE nodes[s[i]].key >= nodes[n].key
  <2>1. 1 \in 1 .. l /\ (i = 1 \/ 1 < i) /\ nodes[s[i]].key \in Int /\ nodes[n].key \in Int
    BY <1>1, <1>3, <1>4
  <2> QED
    BY <1>1, <1>8, <2>1
<1>10. ASSUME NEW g \in M, nodes[g].key >= nodes[n].key PROVE \E i \in 1 .. l : s[i] = g
  <2> DEFINE T == {i \in 1 .. l : nodes[s[i]].key <= nodes[g].key}
  <2>1. 1 \in T /\ T \subseteq Nat /\ \A i \in T : i <= l
    BY <1>1, <1>3, <1>10
  <2>2. PICK i \in T : \A j \in T : j <= i
    <3> HIDE DEF T
    <3> QED
      BY <1>1, <2>1, GreatestNat
  <2>3. i \in 1 .. l /\ nodes[s[i]].key <= nodes[g].key /\ s[i] \in M
    BY <1>4
  <2>4. nodes[s[i]].key \in Int /\ nodes[g].key \in Int
    BY <1>3, <2>3
  <2>5. CASE nodes[s[i]].key = nodes[g].key
    BY <2>3, <2>5 DEF ListInv, Distinct
  <2>6. CASE nodes[s[i]].key < nodes[g].key
    <3>1. i # l
      BY <1>3, <1>7, <2>4, <2>6
    <3>2. i \in 1 .. l - 1 /\ ~(i + 1 <= i)
      BY <1>1, <2>3, <3>1
    <3>3. i + 1 \in T
      BY <1>6, <2>6, <3>2
    <3> HIDE DEF T
    <3> QED
      BY <2>2, <3>2, <3>3
  <2> QED
    BY <2>3, <2>4, <2>5, <2>6
<1> QED
  BY <1>4, <1>5, <1>8, <1>9, <1>10

----------------------------------------------------------------------------
(* Ranges. *)

(* The first node from key on, or behind it. *)
LEMMA FindNodeIs ==
  ASSUME ListInv, NEW key \in Int, NEW including \in BOOLEAN
  PROVE  LET n == FindNode(key, including)
             From(m) == IF including THEN nodes[m].key >= key ELSE nodes[m].key > key
         IN  /\ n = kNil => \A m \in 1 .. Len(nodes) : ~From(m)
             /\ n # kNil => /\ n \in 1 .. Len(nodes) /\ From(n)
                            /\ \A m \in 1 .. Len(nodes) : From(m) => nodes[n].key <= nodes[m].key
<1> DEFINE N == 1 .. Len(nodes)
           From(m) == IF including THEN nodes[m].key >= key ELSE nodes[m].key > key
           n == FindNode(key, including)
<1>1. \A m \in N : nodes[m].key \in Int /\ m \in 0 .. Len(nodes) /\ m # kNil /\ m # 0
  BY NodeFacts DEF ListInv, kNil
<1>0. SUFFICES /\ n = kNil => \A m \in N : ~From(m)
               /\ n # kNil => n \in N /\ From(n) /\ \A m \in N : From(m) => nodes[n].key <= nodes[m].key
  OBVIOUS
<1> HIDE DEF n
<1>2. CASE ~Found(key)
  <2> DEFINE p == Update(key)[0]
  <2>1. n = next[p][0]
    BY <1>2 DEF n, FindNode
  <2>2. IsPred(p, 0, key) /\ OnLevel(0) = N /\ 0 \in 0 .. level_count_limit - 1
    BY UpdateIs, OnBottom DEF ListInv
  <2>3. \A m \in N : nodes[m].key # key
    BY <1>2, FoundIs DEF HasKey
  <2>4. \A m \in N : From(m) <=> nodes[m].key >= key
    BY <1>1, <2>3
  <2> HIDE DEF p, From
  <2>5. /\ next[p][0] = kNil => \A m \in N : nodes[m].key < key
        /\ next[p][0] # kNil => /\ next[p][0] \in N /\ nodes[next[p][0]].key >= key
                                /\ \A m \in N : nodes[m].key >= key =>
                                     nodes[next[p][0]].key <= nodes[m].key
    BY <2>2, AfterPred DEF ListInv
  <2>6. n = kNil => \A m \in N : ~From(m)
    BY <1>1, <2>1, <2>4, <2>5
  <2>7. n # kNil => n \in N /\ From(n) /\ \A m \in N : From(m) => nodes[n].key <= nodes[m].key
    BY <2>1, <2>4, <2>5
  <2> QED
    BY <2>6, <2>7
<1>3. CASE Found(key)
  <2> DEFINE i == NodeOf(key)
  <2>1. i \in N /\ nodes[i].key = key
    BY <1>3, FoundIs
  <2>2. CASE including
    <3>1. n = i
      BY <1>3, <2>2 DEF n, FindNode
    <3> HIDE DEF i
    <3> QED
      BY <1>1, <2>1, <2>2, <3>1
  <2>3. CASE ~including
    <3>1. n = next[i][0]
      BY <1>3, <2>3 DEF n, FindNode
    <3> HIDE DEF i
    <3>2. /\ n # kNil => /\ n \in N /\ nodes[i].key < nodes[n].key
                         /\ \A g \in N : nodes[g].key > nodes[i].key => nodes[n].key <= nodes[g].key
          /\ n = kNil => \A g \in N : nodes[g].key <= nodes[i].key
      BY <1>1, <2>1, <3>1, NextOnBottom
    <3> QED
      BY <1>1, <2>1, <2>3, <3>2
  <2> QED
    BY <2>2, <2>3
<1> QED
  BY <1>2, <1>3

(* FindRange visits the nodes whose keys are in the range. *)
LEMMA VisitedIs ==
  ASSUME ListInv, NEW range \in KeyRange
  PROVE  VisitedInRange(range) = {m \in 1 .. Len(nodes) : InRange(nodes[m].key, range)}
<1> DEFINE N == 1 .. Len(nodes)
           From(m) == \/ range.lower = nullopt
                      \/ IF range.including_lower THEN nodes[m].key >= range.lower
                         ELSE nodes[m].key > range.lower
           Upper(m) == BelowUpper(nodes[m].key, range)
           start == IF range.lower # nullopt THEN FindNode(range.lower, range.including_lower)
                    ELSE next[0][0]
           c == Chain(start)
<1>1. /\ \A m \in N : nodes[m].key \in Int /\ m \in 0 .. Len(nodes) /\ m # kNil /\ m # 0
      /\ 0 \in 0 .. Len(nodes)
  BY NodeFacts DEF ListInv, kNil
<1>2. /\ range.lower # nullopt => range.lower \in Int
      /\ range.upper # nullopt => range.upper \in Int
      /\ range.including_lower \in BOOLEAN
  BY KeyAssumption DEF KeyRange
<1>3. /\ start = kNil => \A m \in N : ~From(m)
      /\ start # kNil => /\ start \in N /\ From(start)
                         /\ \A m \in N : From(m) => nodes[start].key <= nodes[m].key
  <2>1. CASE range.lower = nullopt
    <3>1. start = next[0][0]
      BY <2>1
    <3>2. /\ start # kNil => start \in N /\ \A g \in N : nodes[start].key <= nodes[g].key
          /\ start = kNil => \A g \in N : FALSE
      BY <1>1, <3>1, NextOnBottom
    <3> QED
      BY <2>1, <3>2
  <2>2. CASE range.lower # nullopt
    <3> DEFINE n == FindNode(range.lower, range.including_lower)
    <3>1. start = n
      BY <2>2
    <3>2. \A m : From(m) <=> IF range.including_lower THEN nodes[m].key >= range.lower
                             ELSE nodes[m].key > range.lower
      BY <2>2
    <3> HIDE DEF start, From
    <3>3. range.lower \in Int
      BY <1>2, <2>2
    <3>4. /\ n = kNil => \A m \in N : ~From(m)
          /\ n # kNil => /\ n \in N /\ From(n)
                         /\ \A m \in N : From(m) => nodes[n].key <= nodes[m].key
      BY <1>2, <3>2, <3>3, FindNodeIs
    <3> QED
      BY <3>1, <3>4
  <2> QED
    BY <2>1, <2>2
<1>4. \A m \in N : InRange(nodes[m].key, range) <=> From(m) /\ Upper(m)
  BY DEF InRange
<1>5. \A m, g \in N : nodes[m].key <= nodes[g].key =>
        (From(m) => From(g)) /\ (Upper(g) => Upper(m))
  BY <1>1, <1>2 DEF BelowUpper
<1>6. VisitedInRange(range) =
        {c[i] : i \in {j \in DOMAIN c : \A m \in 1 .. j : Upper(c[m])}}
  BY DEF VisitedInRange
<1> HIDE DEF start, From, Upper
<1>7. CASE start = kNil
  <2>1. c = <<>>
    BY <1>7, ChainIs
  <2>2. DOMAIN c = {}
    BY <2>1
  <2> HIDE DEF c
  <2>3. VisitedInRange(range) = {}
    BY <1>6, <2>2
  <2> QED
    BY <1>3, <1>4, <1>7, <2>3
<1>8. CASE start # kNil
  <2>1. start \in N /\ From(start) /\ \A m \in N : From(m) => nodes[start].key <= nodes[m].key
    BY <1>3, <1>8
  <2>2. Path(start, c)
    BY <2>1, ChainIsPath
  <2> HIDE DEF c
  <2>3. /\ c \in Seq(N)
        /\ \A i, j \in 1 .. Len(c) : i < j => nodes[c[i]].key < nodes[c[j]].key
        /\ \A g \in N : nodes[g].key >= nodes[start].key <=> \E i \in 1 .. Len(c) : c[i] = g
    BY <2>1, <2>2, PathSorted
  <2>4. DOMAIN c = 1 .. Len(c) /\ Len(c) \in Nat /\ \A i \in 1 .. Len(c) : c[i] \in N
    BY <2>3
  <2>5. ASSUME NEW i \in 1 .. Len(c)
        PROVE  (\A m \in 1 .. i : Upper(c[m])) <=> Upper(c[i])
    <3>1. i \in 1 .. i
      OBVIOUS
    <3>2. ASSUME Upper(c[i]), NEW m \in 1 .. i PROVE Upper(c[m])
      <4>1. m \in 1 .. Len(c) /\ (m = i \/ m < i)
        BY <2>4
      <4>2. CASE m = i
        BY <3>2, <4>2
      <4>3. CASE m < i
        <5>1. c[m] \in N /\ c[i] \in N /\ nodes[c[m]].key < nodes[c[i]].key
          BY <2>3, <2>4, <4>1, <4>3
        <5>2. nodes[c[m]].key <= nodes[c[i]].key
          BY <1>1, <5>1
        <5> QED
          BY <1>5, <3>2, <5>1, <5>2
      <4> QED
        BY <4>1, <4>2, <4>3
    <3> QED
      BY <3>1, <3>2
  <2>6. \A g : g \in VisitedInRange(range) <=> \E i \in 1 .. Len(c) : c[i] = g /\ Upper(c[i])
    BY <1>6, <2>4, <2>5
  <2>7. ASSUME NEW g \in N
        PROVE  (\E i \in 1 .. Len(c) : c[i] = g) <=> From(g)
    <3>1. nodes[g].key \in Int /\ nodes[start].key \in Int
      BY <1>1, <2>1
    <3>2. From(g) <=> nodes[g].key >= nodes[start].key
      BY <1>5, <2>1, <3>1
    <3> QED
      BY <2>3, <3>2
  <2>8. VisitedInRange(range) \subseteq N
    BY <2>4, <2>6
  <2>9. \A g \in N : g \in VisitedInRange(range) <=> From(g) /\ Upper(g)
    BY <2>6, <2>7
  <2> QED
    BY <1>4, <2>8, <2>9
<1> QED
  BY <1>7, <1>8

LEMMA FindRangeOverlays ==
  ASSUME ListInv, NEW range \in KeyRange, NEW accumulated
  PROVE  FindRange(range, accumulated) =
           [k \in Key |-> IF InRange(k, range) /\ Contents[k] # nullopt
                          THEN IF Contents[k] = Empty THEN nullopt ELSE Contents[k]
                          ELSE accumulated[k]]
<1> DEFINE N == 1 .. Len(nodes)
           visited == IF kv_count = 0 THEN {} ELSE VisitedInRange(range)
           Shown(k) == IF \E n \in visited : nodes[n].key = k
                       THEN LET value == nodes[CHOOSE n \in visited : nodes[n].key = k].value
                            IN  IF value = Empty THEN nullopt ELSE value
                       ELSE accumulated[k]
<1>1. visited = {m \in N : InRange(nodes[m].key, range)}
  <2>1. CASE kv_count = 0
    <3>1. N = {}
      BY <2>1, NodeFacts DEF ListInv
    <3> QED
      BY <2>1, <3>1
  <2>2. CASE kv_count # 0
    BY <2>2, VisitedIs
  <2> QED
    BY <2>1, <2>2
<1>2. FindRange(range, accumulated) = [k \in Key |-> Shown(k)]
  BY DEF FindRange
<1> HIDE DEF visited
<1>3. ASSUME NEW k \in Key
      PROVE  Shown(k) = IF InRange(k, range) /\ Contents[k] # nullopt
                        THEN IF Contents[k] = Empty THEN nullopt ELSE Contents[k]
                        ELSE accumulated[k]
  <2>1. CASE \E n \in visited : nodes[n].key = k
    <3> DEFINE n == CHOOSE n \in visited : nodes[n].key = k
    <3>1. n \in visited /\ nodes[n].key = k
      BY <2>1
    <3>2. Shown(k) = IF nodes[n].value = Empty THEN nullopt ELSE nodes[n].value
      BY <2>1
    <3> HIDE DEF n, Shown
    <3>3. n \in N /\ InRange(k, range)
      BY <1>1, <3>1
    <3>4. Contents[k] = nodes[n].value
      BY <3>1, <3>3, ContentsAre
    <3>5. nodes[n].value # nullopt
      BY <3>3, NodeFacts, SentinelAssumption DEF ListInv, Entry
    <3> QED
      BY <3>2, <3>3, <3>4, <3>5
  <2>2. CASE ~ \E n \in visited : nodes[n].key = k
    <3>1. ~(InRange(k, range) /\ HasKey(k))
      BY <1>1, <2>2 DEF HasKey
    <3>2. ~(InRange(k, range) /\ Contents[k] # nullopt)
      BY <3>1, ContentsAre
    <3>3. Shown(k) = accumulated[k]
      BY <2>2
    <3> HIDE DEF Shown
    <3> QED
      BY <3>2, <3>3
  <2> QED
    BY <2>1, <2>2
<1> HIDE DEF Shown
<1> QED
  BY <1>2, <1>3

(* FindRange sets and erases exactly the keys of the range, for bounds of  *)
(* every kind, in the list or between its nodes.                           *)
THEOREM FindRangeAlwaysMap == Spec => []FindRangeIsMap
<1>1. ListInv => FindRangeIsMap
  <2> SUFFICES ASSUME ListInv, NEW range \in KeyRange, NEW old
               PROVE  FindRange(range, [k \in Key |-> old]) =
                        [k \in Key |-> IF InRange(k, range) /\ Contents[k] # nullopt
                                       THEN IF Contents[k] = Empty THEN nullopt ELSE Contents[k]
                                       ELSE old]
    BY DEF FindRangeIsMap
  <2> DEFINE acc == [k \in Key |-> old]
  <2>1. \A k \in Key : acc[k] = old
    OBVIOUS
  <2> HIDE DEF acc
  <2>2. FindRange(range, acc) =
          [k \in Key |-> IF InRange(k, range) /\ Contents[k] # nullopt
                         THEN IF Contents[k] = Empty THEN nullopt ELSE Contents[k]
                         ELSE acc[k]]
    BY FindRangeOverlays
  <2> QED
    BY <2>1, <2>2 DEF acc
<1> QED
  BY <1>1, ListInvAlways, PTL

----------------------------------------------------------------------------
(* The data block. *)

Pair(n) == <<nodes[n].key, nodes[n].value>>
Dropped(n, skip_deleted) == nodes[n].value = Empty /\ skip_deleted

WrittenEquation(chain, skip_deleted, w) ==
  w = [i \in 0 .. Len(chain) |->
         IF i = 0 THEN <<>>
         ELSE IF nodes[chain[i]].value = Empty /\ skip_deleted THEN w[i - 1]
         ELSE Append(w[i - 1], <<nodes[chain[i]].key, nodes[chain[i]].value>>)]

LEMMA BlockIs ==
  ASSUME NEW skip_deleted, NEW chain, chain = Chain(next[0][0])
  PROVE  MakeDataBlockInFd(skip_deleted) =
           (CHOOSE w : WrittenEquation(chain, skip_deleted, w))[Len(chain)]
BY DEF MakeDataBlockInFd, WrittenEquation

(* What is written of the first i nodes of the chain. *)
WrittenOf(chain, skip_deleted, i, b) ==
  /\ b \in Seq(Key \X Entry)
  /\ \A x, y \in 1 .. Len(b) : x < y => b[x][1] < b[y][1]
  /\ \A x \in 1 .. Len(b) : \E j \in 1 .. i : ~Dropped(chain[j], skip_deleted) /\ b[x] = Pair(chain[j])
  /\ \A j \in 1 .. i : ~Dropped(chain[j], skip_deleted) => \E x \in 1 .. Len(b) : b[x] = Pair(chain[j])

LEMMA WriteOne ==
  ASSUME ListInv, NEW chain \in Seq(1 .. Len(nodes)),
         \A x, y \in 1 .. Len(chain) : x < y => nodes[chain[x]].key < nodes[chain[y]].key,
         NEW skip_deleted, NEW i \in 1 .. Len(chain), NEW b,
         WrittenOf(chain, skip_deleted, i - 1, b)
  PROVE  WrittenOf(chain, skip_deleted, i,
                   IF Dropped(chain[i], skip_deleted) THEN b ELSE Append(b, Pair(chain[i])))
<1>1. /\ b \in Seq(Key \X Entry) /\ Len(b) \in Nat
      /\ \A x, y \in 1 .. Len(b) : x < y => b[x][1] < b[y][1]
      /\ \A x \in 1 .. Len(b) : \E j \in 1 .. i - 1 :
           ~Dropped(chain[j], skip_deleted) /\ b[x] = Pair(chain[j])
      /\ \A j \in 1 .. i - 1 : ~Dropped(chain[j], skip_deleted) =>
           \E x \in 1 .. Len(b) : b[x] = Pair(chain[j])
  <2>1. b \in Seq(Key \X Entry)
    BY DEF WrittenOf
  <2>2. Len(b) \in Nat
    BY <2>1
  <2> QED
    BY <2>1, <2>2, Zenon DEF WrittenOf
<1>2. i \in Nat /\ Len(chain) \in Nat /\ 1 .. i = (1 .. i - 1) \cup {i} /\ 1 .. i \subseteq 1 .. Len(chain)
  OBVIOUS
<1>3. CASE Dropped(chain[i], skip_deleted)
  BY <1>1, <1>2, <1>3 DEF WrittenOf
<1>4. CASE ~Dropped(chain[i], skip_deleted)
  <2> DEFINE p == Pair(chain[i])
             c == Append(b, p)
  <2>1. \A j \in 1 .. i : chain[j] \in 1 .. Len(nodes)
    BY <1>2
  <2>2. p \in Key \X Entry /\ p[1] = nodes[chain[i]].key
    BY <1>2, <2>1, NodeFacts DEF Pair, ListInv
  <2> HIDE DEF p
  <2>3. /\ c \in Seq(Key \X Entry) /\ Len(c) = Len(b) + 1 /\ c[Len(b) + 1] = p
        /\ \A x \in 1 .. Len(b) : c[x] = b[x]
        /\ 1 .. Len(c) = (1 .. Len(b)) \cup {Len(b) + 1}
    BY <1>1, <2>2
  <2> HIDE DEF c
  <2>4. ASSUME NEW x \in 1 .. Len(b) PROVE b[x][1] < p[1]
    <3>1. PICK j \in 1 .. i - 1 : b[x] = Pair(chain[j])
      BY <1>1
    <3>2. j \in 1 .. Len(chain) /\ j < i /\ b[x][1] = nodes[chain[j]].key
      BY <1>2, <3>1 DEF Pair
    <3> QED
      BY <2>2, <3>2
  <2>5. ASSUME NEW x \in 1 .. Len(c), NEW y \in 1 .. Len(c), x < y PROVE c[x][1] < c[y][1]
    <3>1. x \in 1 .. Len(b)
      BY <1>1, <2>3, <2>5
    <3>2. CASE y \in 1 .. Len(b)
      BY <1>1, <2>3, <2>5, <3>1, <3>2
    <3>3. CASE y = Len(b) + 1
      <4>1. c[x] = b[x] /\ c[y] = p
        BY <2>3, <3>1, <3>3
      <4> QED
        BY <2>4, <3>1, <4>1
    <3> QED
      BY <2>3, <3>2, <3>3
  <2>6. ASSUME NEW x \in 1 .. Len(c)
        PROVE  \E j \in 1 .. i : ~Dropped(chain[j], skip_deleted) /\ c[x] = Pair(chain[j])
    <3>1. CASE x \in 1 .. Len(b)
      BY <1>1, <1>2, <2>3, <3>1
    <3>2. CASE x = Len(b) + 1
      BY <1>2, <1>4, <2>3, <3>2 DEF p
    <3> QED
      BY <2>3, <3>1, <3>2
  <2>7. ASSUME NEW j \in 1 .. i, ~Dropped(chain[j], skip_deleted)
        PROVE  \E x \in 1 .. Len(c) : c[x] = Pair(chain[j])
    <3>1. CASE j = i
      BY <2>3, <3>1 DEF p
    <3>2. CASE j \in 1 .. i - 1
      BY <1>1, <2>3, <2>7, <3>2
    <3> QED
      BY <1>2, <3>1, <3>2
  <2>8. WrittenOf(chain, skip_deleted, i, c)
    BY <2>3, <2>5, <2>6, <2>7 DEF WrittenOf
  <2> QED
    BY <1>4, <2>8 DEF c, p
<1> QED
  BY <1>3, <1>4

(* The loop over the chain has written the first i nodes after i rounds.   *)
LEMMA WrittenSolved ==
  ASSUME NEW chain, Len(chain) \in Nat, NEW skip_deleted
  PROVE  \E w : WrittenEquation(chain, skip_deleted, w)
<1> DEFINE Step(i, b) == IF nodes[chain[i]].value = Empty /\ skip_deleted THEN b
                         ELSE Append(b, <<nodes[chain[i]].key, nodes[chain[i]].value>>)
           Upto(n, w) == w = [i \in 0 .. n |-> IF i = 0 THEN <<>> ELSE Step(i, w[i - 1])]
           T == {n \in Nat : ~ \E w : Upto(n, w)}
<1>1. T = {}
  <2> SUFFICES ASSUME T # {} PROVE FALSE
    OBVIOUS
  <2>1. PICK n \in T : \A m \in T : n <= m
    <3>1. T \subseteq Nat
      OBVIOUS
    <3> HIDE DEF T
    <3> QED
      BY <3>1, LeastNat
  <2>2. n \in Nat /\ ~ \E w : Upto(n, w)
    OBVIOUS
  <2> HIDE DEF Step
  <2>3. CASE n = 0
    <3>1. Upto(0, [i \in 0 .. 0 |-> <<>>])
      <4>1. \A i \in 0 .. 0 : i = 0
        OBVIOUS
      <4> QED
        BY <4>1
    <3> QED
      BY <2>2, <2>3, <3>1
  <2>4. CASE n # 0
    <3>1. n - 1 \in Nat /\ ~(n <= n - 1)
      BY <2>2, <2>4
    <3>2. PICK w : Upto(n - 1, w)
      <4>1. n - 1 \notin T
        <5> HIDE DEF T
        <5> QED
          BY <2>1, <3>1
      <4> QED
        BY <3>1, <4>1
    <3> DEFINE v == [i \in 0 .. n |-> IF i = n THEN Step(n, w[n - 1]) ELSE w[i]]
    <3>3. \A i \in 0 .. n - 1 : w[i] = IF i = 0 THEN <<>> ELSE Step(i, w[i - 1])
      BY <3>2
    <3>4. ASSUME NEW i \in 0 .. n
          PROVE  v[i] = IF i = 0 THEN <<>> ELSE Step(i, v[i - 1])
      <4>1. CASE i = 0
        <5>1. 0 \in 0 .. n - 1 /\ 0 # n /\ 0 \in 0 .. n
          BY <2>2, <2>4
        <5>2. v[0] = w[0]
          BY <5>1
        <5>3. w[0] = <<>>
          BY <3>3, <5>1
        <5> QED
          BY <4>1, <5>2, <5>3
      <4>2. CASE i # 0
        <5>1. i - 1 \in 0 .. n /\ i - 1 # n
          BY <2>2, <4>2
        <5>2. v[i - 1] = w[i - 1]
          BY <5>1
        <5>3. CASE i = n
          BY <4>2, <5>2, <5>3
        <5>4. CASE i # n
          <6>1. i \in 0 .. n - 1
            BY <2>2, <5>4
          <6>2. v[i] = w[i]
            BY <5>4
          <6> HIDE DEF v
          <6> QED
            BY <3>3, <4>2, <5>2, <6>1, <6>2
        <5> QED
          BY <5>3, <5>4
      <4> QED
        BY <4>1, <4>2
    <3>5. v = [i \in 0 .. n |-> v[i]]
      OBVIOUS
    <3>6. Upto(n, v)
      <4> HIDE DEF v
      <4> QED
        BY <3>4, <3>5
    <3> QED
      BY <2>2, <3>6
  <2> QED
    BY <2>3, <2>4
<1>2. PICK w : Upto(Len(chain), w)
  BY <1>1
<1>3. WrittenEquation(chain, skip_deleted, w)
  BY <1>2 DEF WrittenEquation
<1> QED
  BY <1>3

LEMMA BlockWritten ==
  ASSUME ListInv, NEW chain \in Seq(1 .. Len(nodes)),
         \A x, y \in 1 .. Len(chain) : x < y => nodes[chain[x]].key < nodes[chain[y]].key,
         NEW skip_deleted, NEW w, WrittenEquation(chain, skip_deleted, w)
  PROVE  WrittenOf(chain, skip_deleted, Len(chain), w[Len(chain)])
<1> DEFINE l == Len(chain)
           T == {i \in 0 .. l : ~WrittenOf(chain, skip_deleted, i, w[i])}
<1>1. l \in Nat
  OBVIOUS
<1>2. CASE T # {}
  <2>1. PICK i \in T : \A j \in T : i <= j
    <3>1. T \subseteq Nat
      OBVIOUS
    <3> HIDE DEF T
    <3> QED
      BY <1>2, <3>1, LeastNat
  <2>2. i \in 0 .. l /\ ~WrittenOf(chain, skip_deleted, i, w[i])
    OBVIOUS
  <2>3. CASE i = 0
    <3>1. w[0] = <<>>
      BY <2>2, <2>3 DEF WrittenEquation
    <3>2. <<>> \in Seq(Key \X Entry) /\ Len(<<>>) = 0 /\ 1 .. 0 = {}
      OBVIOUS
    <3>3. WrittenOf(chain, skip_deleted, 0, <<>>)
      BY <3>2 DEF WrittenOf
    <3> QED
      BY <2>2, <2>3, <3>1, <3>3
  <2>4. CASE i # 0
    <3>1. i \in 1 .. l /\ i - 1 \in 0 .. l /\ ~(i <= i - 1)
      BY <1>1, <2>2, <2>4
    <3>2. WrittenOf(chain, skip_deleted, i - 1, w[i - 1])
      <4>1. i - 1 \notin T
        <5> HIDE DEF T
        <5> QED
          BY <2>1, <3>1
      <4> QED
        BY <3>1, <4>1
    <3>3. w[i] = IF Dropped(chain[i], skip_deleted) THEN w[i - 1] ELSE Append(w[i - 1], Pair(chain[i]))
      BY <2>2, <2>4 DEF WrittenEquation, Dropped, Pair
    <3> QED
      BY <2>2, <3>1, <3>2, <3>3, WriteOne
  <2> QED
    BY <2>3, <2>4
<1>3. CASE T = {}
  BY <1>1, <1>3
<1> QED
  BY <1>2, <1>3

(* A flush writes the map's entries, each once and in the order of their   *)
(* keys; with skip_deleted all but the tombstones.                         *)
THEOREM DataBlockAlwaysSorted == Spec => []DataBlockSorted
<1>1. ListInv => DataBlockSorted
  <2> SUFFICES ASSUME ListInv, NEW skip_deleted \in BOOLEAN
               PROVE  LET block == MakeDataBlockInFd(skip_deleted)
                      IN  /\ \A i, j \in DOMAIN block : i < j => block[i][1] < block[j][1]
                          /\ {block[i] : i \in DOMAIN block} =
                               {<<k, Contents[k]>> : k \in {c \in Key :
                                  /\ Contents[c] # nullopt
                                  /\ Contents[c] = Empty => ~skip_deleted}}
    BY DEF DataBlockSorted
  <2> DEFINE Shown(k) == Contents[k] # nullopt /\ (Contents[k] = Empty => ~skip_deleted)
             s == next[0][0]
             N == 1 .. Len(nodes)
             c == Chain(s)
             block == MakeDataBlockInFd(skip_deleted)
  <2>1. 0 \in 0 .. Len(nodes) /\ \A m \in N : nodes[m].key \in Int /\ nodes[m].key \in Key
    BY NodeFacts DEF ListInv
  <2>2. /\ s # kNil => s \in N /\ \A g \in N : nodes[s].key <= nodes[g].key
        /\ s = kNil => \A g \in N : FALSE
    BY <2>1, NextOnBottom
  <2>3. /\ c \in Seq(N)
        /\ \A i, j \in 1 .. Len(c) : i < j => nodes[c[i]].key < nodes[c[j]].key
        /\ \A g \in N : \E i \in 1 .. Len(c) : c[i] = g
    <3>1. CASE s = kNil
      <4>1. c = <<>>
        BY <3>1, ChainIs
      <4> HIDE DEF c
      <4> QED
        BY <2>2, <3>1, <4>1
    <3>2. CASE s # kNil
      <4>1. s \in N /\ \A g \in N : nodes[s].key <= nodes[g].key
        BY <2>2, <3>2
      <4>2. Path(s, c)
        BY <4>1, ChainIsPath
      <4> HIDE DEF c
      <4>3. /\ c \in Seq(N)
            /\ \A i, j \in 1 .. Len(c) : i < j => nodes[c[i]].key < nodes[c[j]].key
            /\ \A g \in N : nodes[g].key >= nodes[s].key <=> \E i \in 1 .. Len(c) : c[i] = g
        BY <4>1, <4>2, PathSorted
      <4>4. \A g \in N : nodes[g].key >= nodes[s].key
        BY <2>1, <4>1
      <4> QED
        BY <4>3, <4>4
    <3> QED
      BY <3>1, <3>2
  <2>4. WrittenOf(c, skip_deleted, Len(c), block)
    <3>1. Len(c) \in Nat
      BY <2>3
    <3>2. PICK w : w = CHOOSE x : WrittenEquation(c, skip_deleted, x)
      OBVIOUS
    <3>3. block = w[Len(c)]
      BY <3>2, BlockIs
    <3> HIDE DEF c, block
    <3>4. WrittenEquation(c, skip_deleted, w)
      BY <3>1, <3>2, WrittenSolved
    <3> QED
      BY <2>3, <3>3, <3>4, BlockWritten
  <2> HIDE DEF s, c, block
  <2>5. DOMAIN block = 1 .. Len(block) /\ Len(c) \in Nat /\ \A i \in 1 .. Len(c) : c[i] \in N
    BY <2>3, <2>4 DEF WrittenOf
  <2>6. \A i, j \in DOMAIN block : i < j => block[i][1] < block[j][1]
    BY <2>4, <2>5 DEF WrittenOf
  <2>7. ASSUME NEW e
        PROVE  (\E i \in DOMAIN block : block[i] = e) <=>
                 \E n \in N : ~Dropped(n, skip_deleted) /\ e = Pair(n)
    <3>1. ASSUME NEW i \in DOMAIN block, block[i] = e
          PROVE  \E n \in N : ~Dropped(n, skip_deleted) /\ e = Pair(n)
      <4>1. PICK j \in 1 .. Len(c) : ~Dropped(c[j], skip_deleted) /\ block[i] = Pair(c[j])
        BY <2>4, <2>5 DEF WrittenOf
      <4> QED
        BY <2>5, <3>1, <4>1
    <3>2. ASSUME NEW n \in N, ~Dropped(n, skip_deleted), e = Pair(n)
          PROVE  \E i \in DOMAIN block : block[i] = e
      <4>1. PICK j \in 1 .. Len(c) : c[j] = n
        BY <2>3
      <4>2. PICK i \in 1 .. Len(block) : block[i] = Pair(c[j])
        BY <2>4, <3>2, <4>1 DEF WrittenOf
      <4> QED
        BY <2>5, <3>2, <4>1, <4>2
    <3> QED
      BY <3>1, <3>2
  <2>8. ASSUME NEW e
        PROVE  (\E n \in N : ~Dropped(n, skip_deleted) /\ e = Pair(n)) <=>
               \E k \in Key : Shown(k) /\ e = <<k, Contents[k]>>
    <3>1. ASSUME NEW n \in N, ~Dropped(n, skip_deleted), e = Pair(n)
          PROVE  \E k \in Key : Shown(k) /\ e = <<k, Contents[k]>>
      <4> DEFINE k == nodes[n].key
      <4>1. k \in Key /\ Contents[k] = nodes[n].value
        BY <2>1, ContentsAre
      <4>2. nodes[n].value # nullopt
        BY NodeFacts, SentinelAssumption DEF ListInv, Entry
      <4> QED
        BY <3>1, <4>1, <4>2 DEF Dropped, Pair
    <3>2. ASSUME NEW k \in Key, Shown(k), e = <<k, Contents[k]>>
          PROVE  \E n \in N : ~Dropped(n, skip_deleted) /\ e = Pair(n)
      <4>1. HasKey(k)
        BY <3>2, ContentsAre
      <4>2. PICK n \in N : nodes[n].key = k
        BY <4>1 DEF HasKey
      <4>3. Contents[k] = nodes[n].value
        BY <4>2, ContentsAre
      <4> QED
        BY <3>2, <4>2, <4>3 DEF Dropped, Pair
    <3> QED
      BY <3>1, <3>2
  <2> HIDE DEF Shown
  <2>9. {block[i] : i \in DOMAIN block} = {<<k, Contents[k]>> : k \in {x \in Key : Shown(x)}}
    <3> DEFINE A == {block[i] : i \in DOMAIN block}
               B == {<<k, Contents[k]>> : k \in {x \in Key : Shown(x)}}
    <3>1. \A e : e \in A <=> \E i \in DOMAIN block : block[i] = e
      OBVIOUS
    <3>2. \A e : e \in B <=> \E k \in Key : Shown(k) /\ e = <<k, Contents[k]>>
      OBVIOUS
    <3> HIDE DEF A, B
    <3>3. \A e : e \in A <=> e \in B
      BY <2>7, <2>8, <3>1, <3>2
    <3>4. A = B
      BY <3>3
    <3> QED
      BY <3>4, Zenon DEF A, B
  <2> QED
    BY <2>6, <2>9, Zenon DEF block, Shown
<1> QED
  BY <1>1, ListInvAlways, PTL
=============================================================================
