----------------------------- MODULE Merge_proofs -----------------------------
(***************************************************************************)
(* The loop of CompactLevelsUpTo computes MergedKV, for every set of       *)
(* integer keys, every scaling factor, every level and every tables of     *)
(* every length: what it opens, what it writes and how much of it.         *)
(***************************************************************************)
EXTENDS Merge, LeastNaturals, FiniteSetTheorems, TLAPS

----------------------------------------------------------------------------
(* The map of a sorted table. *)

Rows == Seq(Key \X Entry)

LEMMA RowTypes ==
  ASSUME NEW t \in Rows
  PROVE  /\ DOMAIN t = 1 .. Len(t) /\ Len(t) \in Nat
         /\ \A x \in 1 .. Len(t) : /\ t[x] = <<t[x][1], t[x][2]>>
                                   /\ t[x][1] \in Key /\ t[x][1] \in Int /\ t[x][2] \in Entry
<1>1. DOMAIN t = 1 .. Len(t) /\ Len(t) \in Nat /\ \A x \in 1 .. Len(t) : t[x] \in Key \X Entry
  BY DEF Rows
<1>2. ASSUME NEW x \in 1 .. Len(t)
      PROVE  /\ t[x] = <<t[x][1], t[x][2]>>
             /\ t[x][1] \in Key /\ t[x][1] \in Int /\ t[x][2] \in Entry
  <2>1. t[x] \in Key \X Entry
    BY <1>1
  <2>2. t[x] = <<t[x][1], t[x][2]>> /\ t[x][1] \in Key /\ t[x][2] \in Entry
    BY <2>1
  <2> QED
    BY <2>2, MergeAssumption
<1> QED
  BY <1>1, <1>2

LEMMA SortedKeys ==
  ASSUME NEW t \in Rows, Sorted(t)
  PROVE  \A x, y \in 1 .. Len(t) : /\ x < y => t[x][1] < t[y][1]
                                   /\ x <= y => t[x][1] <= t[y][1]
                                   /\ t[x][1] = t[y][1] => x = y
<1>1. \A x, y \in 1 .. Len(t) : x < y => t[x][1] < t[y][1]
  BY RowTypes DEF Sorted
<1> QED
  BY <1>1, RowTypes

LEMMA MapOfIs ==
  ASSUME NEW t \in Rows, Sorted(t)
  PROVE  /\ \A x \in 1 .. Len(t) : MapOf(t)[t[x][1]] = t[x][2]
         /\ \A k \in Key : (\A x \in 1 .. Len(t) : t[x][1] # k) => MapOf(t)[k] = nullopt
         /\ \A k \in Key : MapOf(t)[k] # nullopt <=> \E x \in 1 .. Len(t) : t[x][1] = k
<1>0. DOMAIN t = 1 .. Len(t)
  BY RowTypes
<1>1. ASSUME NEW x \in 1 .. Len(t)
      PROVE  MapOf(t)[t[x][1]] = t[x][2] /\ t[x][2] # nullopt
  <2> DEFINE k == t[x][1]
             c == CHOOSE n \in DOMAIN t : t[n][1] = k
  <2>1. k \in Key /\ \E n \in DOMAIN t : t[n][1] = k
    BY <1>0, RowTypes
  <2>2. c \in DOMAIN t /\ t[c][1] = k
    BY <2>1
  <2>3. MapOf(t)[k] = t[c][2]
    BY <2>1 DEF MapOf
  <2> HIDE DEF c
  <2>4. c = x
    BY <1>0, <2>2, SortedKeys
  <2>5. t[x][2] # nullopt
    BY RowTypes, MergeAssumption DEF Entry
  <2> QED
    BY <2>3, <2>4, <2>5
<1>2. ASSUME NEW k \in Key, \A x \in 1 .. Len(t) : t[x][1] # k
      PROVE  MapOf(t)[k] = nullopt
  BY <1>0, <1>2 DEF MapOf
<1> QED
  BY <1>1, <1>2

(* A row behind all others. *)
LEMMA MapOfAppend ==
  ASSUME NEW t \in Rows, Sorted(t), NEW k \in Key, NEW v \in Entry,
         \A x \in 1 .. Len(t) : t[x][1] < k
  PROVE  /\ Append(t, <<k, v>>) \in Rows /\ Sorted(Append(t, <<k, v>>))
         /\ \A x \in 1 .. Len(Append(t, <<k, v>>)) : Append(t, <<k, v>>)[x][1] <= k
         /\ MapOf(Append(t, <<k, v>>))[k] = v
         /\ \A l \in Key : l # k => MapOf(Append(t, <<k, v>>))[l] = MapOf(t)[l]
<1> DEFINE u == Append(t, <<k, v>>)
<1>0. k \in Int
  BY MergeAssumption
<1>1. /\ u \in Rows /\ Len(u) = Len(t) + 1 /\ u[Len(t) + 1] = <<k, v>>
      /\ \A x \in 1 .. Len(t) : u[x] = t[x]
      /\ Len(t) \in Nat
  <2>1. t \in Seq(Key \X Entry) /\ <<k, v>> \in Key \X Entry /\ Len(t) \in Nat
    BY DEF Rows
  <2> QED
    BY <2>1 DEF Rows
<1>2. 1 .. Len(u) = (1 .. Len(t)) \cup {Len(t) + 1} /\ Len(t) + 1 \in 1 .. Len(u)
  BY <1>1
<1> HIDE DEF u
<1>3. u[Len(t) + 1][1] = k /\ u[Len(t) + 1][2] = v
  BY <1>1
<1>4. ASSUME NEW x \in 1 .. Len(u), NEW y \in 1 .. Len(u), x < y
      PROVE  u[x][1] < u[y][1]
  <2>1. x \in 1 .. Len(t)
    BY <1>1, <1>4
  <2>2. CASE y \in 1 .. Len(t)
    <3>1. u[x] = t[x] /\ u[y] = t[y]
      BY <1>1, <2>1, <2>2
    <3>2. t[x][1] < t[y][1]
      BY <1>4, <2>1, <2>2, SortedKeys
    <3> QED
      BY <3>1, <3>2
  <2>3. CASE y = Len(t) + 1
    BY <1>1, <1>3, <2>1, <2>3
  <2> QED
    BY <1>2, <2>2, <2>3
<1>5. Sorted(u)
  BY <1>1, <1>4, RowTypes DEF Sorted
<1>6. \A x \in 1 .. Len(u) : u[x][1] <= k
  <2> TAKE x \in 1 .. Len(u)
  <2>1. CASE x \in 1 .. Len(t)
    <3>1. u[x] = t[x] /\ t[x][1] < k /\ t[x][1] \in Int
      BY <1>1, <2>1, RowTypes
    <3> QED
      BY <1>0, <3>1
  <2>2. CASE x = Len(t) + 1
    BY <1>0, <1>3, <2>2
  <2> QED
    BY <1>2, <2>1, <2>2
<1>7. MapOf(u)[k] = v
  BY <1>1, <1>2, <1>3, <1>5, MapOfIs
<1>8. ASSUME NEW l \in Key, l # k PROVE MapOf(u)[l] = MapOf(t)[l]
  <2>1. CASE \E x \in 1 .. Len(t) : t[x][1] = l
    <3>1. PICK x \in 1 .. Len(t) : t[x][1] = l
      BY <2>1
    <3>2. x \in 1 .. Len(u) /\ u[x] = t[x]
      BY <1>1, <1>2, <3>1
    <3>3. MapOf(t)[l] = t[x][2]
      BY <3>1, MapOfIs
    <3>4. MapOf(u)[u[x][1]] = u[x][2]
      BY <1>1, <1>5, <3>2, MapOfIs
    <3> QED
      BY <3>1, <3>2, <3>3, <3>4
  <2>2. CASE ~ \E x \in 1 .. Len(t) : t[x][1] = l
    <3>1. \A x \in 1 .. Len(u) : u[x][1] # l
      BY <1>1, <1>2, <1>3, <1>8, <2>2
    <3>2. MapOf(u)[l] = nullopt
      BY <1>1, <1>5, <3>1, MapOfIs
    <3>3. MapOf(t)[l] = nullopt
      BY <2>2, MapOfIs
    <3> QED
      BY <3>2, <3>3
  <2> QED
    BY <2>1, <2>2
<1> QED
  BY <1>1, <1>5, <1>6, <1>7, <1>8 DEF u

----------------------------------------------------------------------------
(* What the merge is given, and the readers it opens. *)

F == sstable_scaling_factor
Given ==
  /\ levels \in Seq(Nat) /\ levels # <<>> /\ levels[1] = F
  /\ level \in 1 .. Len(levels) /\ Tree!IsCompactionTarget(levels, level)
  /\ tables \in [Tree!Components(levels) -> Rows \ {<<>>}]
  /\ \A p \in DOMAIN tables : Sorted(tables[p])

LEMMA TreeComponents ==
  ASSUME levels \in Seq(Nat)
  PROVE  /\ \A p \in Tree!Components(levels) :
              /\ p = <<p[1], p[2]>> /\ p[1] \in Nat /\ p[2] \in Nat
              /\ p[1] < Len(levels) /\ p[2] < levels[p[1] + 1]
         /\ \A a, b \in Nat : <<a, b>> \in Tree!Components(levels) <=>
                                a < Len(levels) /\ b < levels[a + 1]
<1>1. /\ Tree!Components(levels) \subseteq Nat \X Nat
      /\ \A a, b \in Nat : <<a, b>> \in Tree!Components(levels) <=>
                                a < Len(levels) /\ b < levels[a + 1]
  BY DEF Tree!Components
<1>2. ASSUME NEW p \in Tree!Components(levels)
      PROVE  p = <<p[1], p[2]>> /\ p[1] \in Nat /\ p[2] \in Nat
  BY <1>1
<1>3. ASSUME NEW p \in Tree!Components(levels)
      PROVE  p[1] < Len(levels) /\ p[2] < levels[p[1] + 1]
  <2>1. <<p[1], p[2]>> \in Tree!Components(levels)
    BY <1>2
  <2> QED
    BY <1>1, <1>2, <2>1
<1> QED
  BY <1>1, <1>2, <1>3

(* The components of the levels that are merged. *)
Merged == Tree!Inputs(levels, level)

LEMMA MergedAre ==
  ASSUME Given
  PROVE  /\ \A p \in Merged : /\ p = <<p[1], p[2]>> /\ p[1] \in Nat /\ p[2] \in Nat
                              /\ p[1] < level /\ p[2] < levels[p[1] + 1]
                              /\ p \in DOMAIN tables /\ tables[p] \in Rows
                              /\ tables[p] # <<>> /\ Sorted(tables[p])
                              /\ Len(tables[p]) \in Nat \ {0}
         /\ \A a, b \in Nat : a < level /\ b < levels[a + 1] => <<a, b>> \in Merged
         /\ level \in Nat /\ level <= Len(levels) /\ level >= 1 /\ F \in Nat /\ F >= 1
         /\ levels[1] = F
         /\ \A a \in 0 .. level - 1 : /\ levels[a + 1] \in Nat
                                      /\ a # 0 => levels[a + 1] = F - 1
<1>1. /\ levels \in Seq(Nat) /\ Len(levels) \in Nat /\ level \in Nat /\ level <= Len(levels) /\ level >= 1
      /\ F \in Nat /\ F >= 1 /\ levels[1] = F
  BY MergeAssumption DEF Given, F
<1>2. \A p : p \in Merged <=> p \in Tree!Components(levels) /\ p[1] < level
  BY DEF Merged, Tree!Inputs
<1>3. ASSUME NEW p \in Merged
      PROVE  /\ p \in DOMAIN tables /\ tables[p] \in Rows
             /\ tables[p] # <<>> /\ Sorted(tables[p])
             /\ Len(tables[p]) \in Nat \ {0}
  <2>1. p \in DOMAIN tables /\ tables[p] \in Rows /\ tables[p] # <<>> /\ Sorted(tables[p])
    BY <1>2 DEF Given
  <2>2. Len(tables[p]) \in Nat \ {0}
    BY <2>1 DEF Rows
  <2> QED
    BY <2>1, <2>2
<1>4. \A p \in Merged : /\ p = <<p[1], p[2]>> /\ p[1] \in Nat /\ p[2] \in Nat
                        /\ p[1] < level /\ p[2] < levels[p[1] + 1]
  BY <1>1, <1>2, TreeComponents
<1>5. ASSUME NEW a \in Nat, NEW b \in Nat, a < level, b < levels[a + 1]
      PROVE  <<a, b>> \in Merged
  <2>1. <<a, b>> \in Tree!Components(levels)
    BY <1>1, <1>5, TreeComponents
  <2> QED
    BY <1>2, <1>5, <2>1
<1>6. ASSUME NEW a \in 0 .. level - 1
      PROVE  levels[a + 1] \in Nat /\ (a # 0 => levels[a + 1] = F - 1)
  <2>1. a + 1 \in 1 .. Len(levels)
    BY <1>1
  <2>2. levels[a + 1] \in Nat
    BY <1>1, <2>1
  <2>3. a # 0 => levels[a + 1] + 1 = F
    BY <1>1 DEF Given, Tree!IsCompactionTarget, F
  <2> QED
    BY <1>1, <2>2, <2>3
<1> QED
  BY <1>1, <1>3, <1>4, <1>5, <1>6

(* The readers of the levels above n. *)
Above(n) == IF n = 0 THEN 0 ELSE F + (n - 1) * (F - 1)

LEMMA AboveNext ==
  ASSUME Given, NEW n \in 0 .. level - 1
  PROVE  Above(n + 1) = Above(n) + levels[n + 1] /\ Above(n) \in Nat
<1>1. F \in Nat /\ F >= 1 /\ n \in Nat /\ levels[1] = F /\ (n # 0 => levels[n + 1] = F - 1)
  BY MergedAre
<1>2. CASE n = 0
  BY <1>1, <1>2 DEF Above
<1>3. CASE n # 0
  <2>1. n = (n - 1) + 1 /\ n - 1 \in Nat /\ F - 1 \in Nat
    BY <1>1, <1>3
  <2>2. \A x, y \in Nat : (x + 1) * y = x * y + y /\ x * y \in Nat
    OBVIOUS
  <2>3. n * (F - 1) = (n - 1) * (F - 1) + (F - 1) /\ (n - 1) * (F - 1) \in Nat
    BY <2>1, <2>2
  <2>4. Above(n) = F + (n - 1) * (F - 1) /\ Above(n + 1) = F + n * (F - 1)
    BY <1>1, <1>3 DEF Above
  <2> QED
    BY <1>1, <1>3, <2>3, <2>4
<1> QED
  BY <1>2, <1>3

(* Which readers have been opened when the loops are at i and j. *)
IsOpened(p) == p[1] < i \/ (p[1] = i /\ p[2] > j)

Opening ==
  /\ i \in 0 .. level /\ j \in Int
  /\ i < level => j >= -1 /\ j < levels[i + 1]
  /\ readers \in Seq(Merged)
  /\ \A m, n \in 1 .. Len(readers) : m < n => Tree!Newer(readers[m], readers[n])
  /\ \A p \in Merged : IsOpened(p) <=> \E n \in 1 .. Len(readers) : readers[n] = p
  /\ Len(readers) = Above(i) + IF i < level THEN levels[i + 1] - 1 - j ELSE 0
  /\ pc \in {"open", "merge", "done"}
  /\ pc # "open" => i = level

LEMMA OpeningInit ==
  ASSUME Init
  PROVE  Given /\ Opening
<1>1. Given
  BY DEF Init, Given, F, Rows
<1>2. /\ i = 0 /\ j = F - 1 /\ readers = <<>> /\ pc = "open"
      /\ level \in Nat /\ level >= 1 /\ F \in Nat /\ F >= 1 /\ levels[1] = F
  BY <1>1, MergedAre DEF Init, F
<1>3. \A p \in Merged : ~IsOpened(p)
  <2> TAKE p \in Merged
  <2>1. p[1] \in Nat /\ p[2] \in Nat /\ p[2] < levels[p[1] + 1]
    BY <1>1, MergedAre
  <2>2. p[1] = 0 => p[2] < F
    BY <1>2, <2>1
  <2> QED
    BY <1>2, <2>1, <2>2 DEF IsOpened
<1>4. readers \in Seq(Merged) /\ Len(readers) = 0 /\ 1 .. 0 = {}
  BY <1>2
<1> QED
  BY <1>1, <1>2, <1>3, <1>4 DEF Opening, Above

LEMMA OpeningKept ==
  ASSUME Given, Opening, [Next]_vars
  PROVE  Given' /\ Opening'
<1>0. /\ level \in Nat /\ level >= 1 /\ F \in Nat /\ i \in Nat /\ i <= level /\ j \in Int
      /\ \A a \in 0 .. level - 1 : levels[a + 1] \in Nat
  BY MergedAre DEF Opening
<1>1. UNCHANGED inputs /\ Given' /\ Merged' = Merged
  <2>1. UNCHANGED inputs
    BY DEF Next, OpenReader, NextLevel, BeginIterators, MergeSmallest, Finish, vars, inputs
  <2> QED
    BY <2>1 DEF inputs, Given, Merged, Tree!Inputs, Tree!IsCompactionTarget, Tree!Components
<1>2. UNCHANGED <<level, levels>>
  BY <1>1 DEF inputs
<1>3. CASE OpenReader
  <2> DEFINE p == NextReader
             N == Len(readers)
  <2>1. /\ i < level /\ j >= 0 /\ readers' = Append(readers, p) /\ j' = j - 1 /\ i' = i /\ pc' = pc
        /\ pc = "open"
    BY <1>3 DEF OpenReader
  <2>2. p = <<i, j>> /\ p[1] = i /\ p[2] = j
    BY DEF NextReader
  <2>3. j < levels[i + 1]
    BY <2>1 DEF Opening
  <2>4. p \in Merged
    BY <1>0, <2>1, <2>2, <2>3, MergedAre
  <2> HIDE DEF p
  <2>5. /\ readers \in Seq(Merged) /\ N \in Nat
        /\ readers' \in Seq(Merged) /\ Len(readers') = N + 1 /\ readers'[N + 1] = p
        /\ \A n \in 1 .. N : readers'[n] = readers[n] /\ readers[n] \in Merged
        /\ 1 .. N + 1 = (1 .. N) \cup {N + 1}
    BY <2>1, <2>4 DEF Opening
  <2> HIDE DEF N
  <2>6. \A q \in Merged : /\ IsOpened(q) => Tree!Newer(q, p)
                          /\ IsOpened(q)' <=> IsOpened(q) \/ q = p
    <3> TAKE q \in Merged
    <3>1. q[1] \in Nat /\ q[2] \in Nat /\ q = <<q[1], q[2]>>
      BY MergedAre
    <3>2. q = p <=> q[1] = i /\ q[2] = j
      BY <2>2, <3>1
    <3> QED
      BY <1>0, <2>1, <2>2, <3>1, <3>2 DEF IsOpened, Tree!Newer
  <2>7. ASSUME NEW m \in 1 .. N + 1, NEW n \in 1 .. N + 1, m < n
        PROVE  Tree!Newer(readers'[m], readers'[n])
    <3>1. m \in 1 .. N
      BY <2>5, <2>7
    <3>2. CASE n \in 1 .. N
      BY <2>5, <2>7, <3>1, <3>2 DEF Opening, N
    <3>3. CASE n = N + 1
      <4>1. readers'[m] = readers[m] /\ readers[m] \in Merged
        BY <2>5, <3>1
      <4>2. IsOpened(readers[m])
        BY <3>1, <4>1 DEF Opening, N
      <4> QED
        BY <2>5, <2>6, <3>3, <4>1, <4>2
    <3> QED
      BY <2>5, <3>2, <3>3
  <2>8. ASSUME NEW q \in Merged
        PROVE  IsOpened(q)' <=> \E n \in 1 .. N + 1 : readers'[n] = q
    <3>1. IsOpened(q) <=> \E n \in 1 .. N : readers[n] = q
      BY DEF Opening, N
    <3>2. (\E n \in 1 .. N + 1 : readers'[n] = q) <=> (\E n \in 1 .. N : readers[n] = q) \/ q = p
      BY <2>5
    <3> QED
      BY <2>6, <3>1, <3>2
  <2>9. Len(readers') = Above(i) + (levels[i + 1] - 1 - j')
    <3>1. N = Above(i) + (levels[i + 1] - 1 - j) /\ levels[i + 1] \in Nat /\ Above(i) \in Nat
      BY <1>0, <2>1, AboveNext DEF Opening, N
    <3>2. \A a, l, k \in Int : a + (l - 1 - k) + 1 = a + (l - 1 - (k - 1))
      OBVIOUS
    <3>3. Above(i) + (levels[i + 1] - 1 - j) + 1 = Above(i) + (levels[i + 1] - 1 - (j - 1))
      BY <1>0, <3>1, <3>2
    <3> QED
      BY <2>1, <2>5, <3>1, <3>3
  <2>10. j' \in Int /\ j' >= -1 /\ j' < levels[i + 1]
    <3>1. levels[i + 1] \in Nat
      BY <1>0, <2>1
    <3> QED
      BY <1>0, <2>1, <2>3, <3>1
  <2>11. Above(i)' = Above(i)
    BY <2>1 DEF Above
  <2> QED
    BY <1>1, <1>2, <2>1, <2>5, <2>7, <2>8, <2>9, <2>10, <2>11 DEF Opening
<1>4. CASE NextLevel
  <2>1. /\ i < level /\ j = -1 /\ i' = i + 1 /\ readers' = readers /\ pc' = pc /\ pc = "open"
        /\ j' = IF i + 1 < level THEN levels[i + 2] - 1 ELSE j
    BY <1>0, <1>4 DEF NextLevel, Opening
  <2>2. i' \in 0 .. level /\ j' \in Int /\ (i' < level => j' >= -1 /\ j' = levels[i' + 1] - 1)
    <3>1. CASE i + 1 < level
      <4>1. i + 1 \in 0 .. level - 1 /\ (i + 1) + 1 = i + 2
        BY <1>0, <3>1
      <4>2. levels[i + 2] \in Nat
        BY <1>0, <4>1
      <4> QED
        BY <1>0, <2>1, <3>1, <4>1, <4>2
    <3>2. CASE ~(i + 1 < level)
      BY <1>0, <2>1, <3>2
    <3> QED
      BY <3>1, <3>2
  <2>3. ASSUME NEW q \in Merged PROVE IsOpened(q)' <=> IsOpened(q)
    <3>1. q[1] \in Nat /\ q[2] \in Nat /\ q[1] < level /\ q[2] < levels[q[1] + 1]
      BY MergedAre
    <3>2. i' < level => levels[i' + 1] \in Nat /\ j' = levels[i' + 1] - 1
      BY <1>0, <2>1, <2>2
    <3>3. ~(q[1] = i' /\ q[2] > j')
      <4> SUFFICES ASSUME q[1] = i' PROVE ~(q[2] > j')
        OBVIOUS
      <4>1. i' < level /\ q[2] < levels[i' + 1]
        BY <3>1
      <4> QED
        BY <3>1, <3>2, <4>1
    <3> QED
      BY <1>0, <2>1, <3>1, <3>3 DEF IsOpened
  <2>4. Len(readers) = Above(i')
    <3>1. i \in 0 .. level - 1
      BY <1>0, <2>1
    <3>2. Above(i + 1) = Above(i) + levels[i + 1] /\ Above(i) \in Nat
      BY <3>1, AboveNext
    <3>3. Len(readers) = Above(i) + (levels[i + 1] - 1 - j) /\ levels[i + 1] \in Nat
      BY <1>0, <2>1 DEF Opening
    <3> QED
      BY <2>1, <3>2, <3>3
  <2>5. Above(i)' = Above(i') /\ Above(i') \in Nat
    <3>1. Above(i)' = Above(i')
      BY DEF Above
    <3>2. Len(readers) \in Nat
      BY DEF Opening
    <3> QED
      BY <2>4, <3>1, <3>2
  <2>6. Len(readers') = Above(i)' + IF i' < level' THEN levels'[i' + 1] - 1 - j' ELSE 0
    <3>1. CASE i' < level
      <4>1. j' = levels[i' + 1] - 1 /\ levels[i' + 1] \in Nat
        BY <1>0, <2>1, <2>2, <3>1
      <4> QED
        BY <1>2, <2>1, <2>4, <2>5, <3>1, <4>1
    <3>2. CASE ~(i' < level)
      BY <1>2, <2>1, <2>4, <2>5, <3>2
    <3> QED
      BY <3>1, <3>2
  <2>7. /\ i' < level' => j' >= -1 /\ j' < levels'[i' + 1]
    <3> SUFFICES ASSUME i' < level PROVE j' >= -1 /\ j' < levels[i' + 1]
      BY <1>2
    <3>1. levels[i' + 1] \in Nat /\ j' = levels[i' + 1] - 1
      BY <1>0, <2>1, <2>2
    <3> QED
      BY <3>1
  <2>8. /\ readers' \in Seq(Merged')
        /\ \A m, n \in 1 .. Len(readers') : m < n => Tree!Newer(readers'[m], readers'[n])
        /\ \A p \in Merged' : IsOpened(p)' <=> \E n \in 1 .. Len(readers') : readers'[n] = p
    BY <1>1, <2>1, <2>3 DEF Opening
  <2> QED
    BY <1>1, <1>2, <2>1, <2>2, <2>6, <2>7, <2>8 DEF Opening
<1>5. CASE BeginIterators \/ MergeSmallest \/ Finish \/ UNCHANGED vars
  <2>1. /\ UNCHANGED <<i, j, readers>> /\ pc' \in {"open", "merge", "done"}
        /\ pc' # "open" => i = level
    BY <1>5 DEF BeginIterators, MergeSmallest, Finish, vars, opening, Opening
  <2> QED
    BY <1>1, <1>2, <2>1 DEF Opening, IsOpened, Above
<1> QED
  BY <1>3, <1>4, <1>5 DEF Next

(* Once all are open there are components_count readers, one for every     *)
(* component that is merged.                                               *)
LEMMA AllOpened ==
  ASSUME Given, Opening, i = level
  PROVE  /\ Len(readers) = components_count
         /\ \A p \in Merged : \E n \in 1 .. Len(readers) : readers[n] = p
<1>1. level \in Nat /\ level >= 1
  BY MergedAre
<1>2. Len(readers) = Above(level) + 0 /\ Len(readers) \in Nat
  BY <1>1 DEF Opening
<1>3. Above(level) = components_count
  BY <1>1 DEF Above, F, components_count
<1>4. \A p \in Merged : IsOpened(p)
  BY MergedAre DEF IsOpened
<1>5. Above(level) + 0 = Above(level)
  <2>1. Above(level) \in Int
    <3>1. F \in Int /\ level - 1 \in Int /\ F - 1 \in Int
      BY MergedAre
    <3>2. (level - 1) * (F - 1) \in Int
      BY <3>1
    <3> QED
      BY <1>1, <3>1, <3>2 DEF Above
  <2> QED
    BY <2>1
<1> QED
  BY <1>2, <1>3, <1>4, <1>5 DEF Opening

----------------------------------------------------------------------------
(* What the merged table has to hold, in terms of the readers. *)

Table(n) == tables[readers[n]]
MergedAs(k) == Tree!MergedKV(levels, Files, level)[k]

LEMMA TableFacts ==
  ASSUME Given, Opening
  PROVE  /\ Len(readers) \in Nat /\ DOMAIN readers = 1 .. Len(readers)
         /\ \A n \in 1 .. Len(readers) :
              /\ readers[n] \in Merged /\ readers[n] \in DOMAIN tables
              /\ Table(n) \in Rows /\ Sorted(Table(n)) /\ Len(Table(n)) \in Nat \ {0}
<1>1. readers \in Seq(Merged)
  BY DEF Opening
<1>2. /\ Len(readers) \in Nat /\ DOMAIN readers = 1 .. Len(readers)
      /\ \A n \in 1 .. Len(readers) : readers[n] \in Merged
  BY <1>1
<1>3. \A n \in 1 .. Len(readers) : Table(n) = tables[readers[n]]
  BY DEF Table
<1>4. \A p \in Merged : /\ p \in DOMAIN tables /\ tables[p] \in Rows
                        /\ Sorted(tables[p]) /\ Len(tables[p]) \in Nat \ {0}
  BY MergedAre
<1> QED
  BY <1>2, <1>3, <1>4

(* The newest input with the key decides. *)
LEMMA MergedKVIs ==
  ASSUME Given, Opening, i = level, NEW k \in Key
  PROVE  /\ (\A n \in 1 .. Len(readers) : \A x \in 1 .. Len(Table(n)) : Table(n)[x][1] # k) =>
              MergedAs(k) = nullopt
         /\ \A n \in 1 .. Len(readers) : \A x \in 1 .. Len(Table(n)) :
              /\ Table(n)[x][1] = k
              /\ \A m \in 1 .. n - 1 : \A y \in 1 .. Len(Table(m)) : Table(m)[y][1] # k
              => MergedAs(k) = IF delete_tombstones /\ Table(n)[x][2] = Empty THEN nullopt
                               ELSE Table(n)[x][2]
<1> DEFINE H == Tree!Holding(Files, Merged, k)
           e == Tree!NewestEntry(Files, Merged, k)
<1>1. MergedAs(k) = IF delete_tombstones /\ e = Empty THEN nullopt ELSE e
  BY DEF MergedAs, Tree!MergedKV, Tree!SkipDeleted, Tree!MergedEntry, Tree!CreatedJustNow,
         delete_tombstones, Merged
<1>2. e = IF H = {} THEN nullopt ELSE Files[Tree!Newest(H)].kv[k]
  BY DEF Tree!NewestEntry
<1>3. \A p \in Merged : p \in DOMAIN tables /\ p \in DOMAIN Files /\ Files[p].kv = MapOf(tables[p])
  BY MergedAre DEF Files
<1>4. \A p : p \in H <=> p \in Merged /\ MapOf(tables[p])[k] # nullopt
  BY <1>3 DEF Tree!Holding
<1>5. \A p : p \in H <=> p \in Merged /\ \E x \in 1 .. Len(tables[p]) : tables[p][x][1] = k
  <2> TAKE p
  <2>1. CASE p \in Merged
    <3>1. tables[p] \in Rows /\ Sorted(tables[p])
      BY <2>1, MergedAre
    <3>2. MapOf(tables[p])[k] # nullopt <=> \E x \in 1 .. Len(tables[p]) : tables[p][x][1] = k
      BY <3>1, MapOfIs
    <3> QED
      BY <1>4, <3>2
  <2>2. CASE p \notin Merged
    BY <1>4, <2>2
  <2> QED
    BY <2>1, <2>2
<1> HIDE DEF H, e
<1>6. ASSUME \A n \in 1 .. Len(readers) : \A x \in 1 .. Len(Table(n)) : Table(n)[x][1] # k
      PROVE  MergedAs(k) = nullopt
  <2>1. H = {}
    <3> SUFFICES ASSUME NEW p \in H PROVE FALSE
      OBVIOUS
    <3>1. p \in Merged /\ \E x \in 1 .. Len(tables[p]) : tables[p][x][1] = k
      BY <1>5
    <3>2. PICK n \in 1 .. Len(readers) : readers[n] = p
      BY <3>1, AllOpened
    <3> QED
      BY <1>6, <3>1, <3>2 DEF Table
  <2> QED
    BY <1>1, <1>2, <2>1
<1>7. ASSUME NEW n \in 1 .. Len(readers), NEW x \in 1 .. Len(Table(n)), Table(n)[x][1] = k,
             \A m \in 1 .. n - 1 : \A y \in 1 .. Len(Table(m)) : Table(m)[y][1] # k
      PROVE  MergedAs(k) = IF delete_tombstones /\ Table(n)[x][2] = Empty THEN nullopt
                           ELSE Table(n)[x][2]
  <2> DEFINE p == readers[n]
  <2>1. p \in Merged /\ Table(n) \in Rows /\ Sorted(Table(n)) /\ Table(n) = tables[p]
    BY TableFacts DEF Table
  <2>2. p \in H
    BY <1>5, <1>7, <2>1
  <2>3. ASSUME NEW q \in H PROVE p = q \/ Tree!Newer(p, q)
    <3>1. q \in Merged /\ \E y \in 1 .. Len(tables[q]) : tables[q][y][1] = k
      BY <1>5
    <3>2. PICK m \in 1 .. Len(readers) : readers[m] = q
      BY <3>1, AllOpened
    <3>3. m \notin 1 .. n - 1
      BY <1>7, <3>1, <3>2 DEF Table
    <3>4. m = n \/ n < m
      BY <3>3, TableFacts
    <3> QED
      BY <3>2, <3>4 DEF Opening
  <2>4. \A q \in H : q[1] \in Nat /\ q[2] \in Nat
    BY <1>5, MergedAre
  <2>5. Tree!Newest(H) = p
    <3> DEFINE c == Tree!Newest(H)
    <3>1. c \in H /\ \A q \in H : c = q \/ Tree!Newer(c, q)
      BY <2>2, <2>3 DEF Tree!Newest
    <3> HIDE DEF c, p
    <3>2. c = p \/ (Tree!Newer(c, p) /\ Tree!Newer(p, c))
      BY <2>2, <2>3, <3>1
    <3>3. c[1] \in Nat /\ c[2] \in Nat /\ p[1] \in Nat /\ p[2] \in Nat
      BY <2>2, <2>4, <3>1
    <3>4. c = p
      BY <3>2, <3>3 DEF Tree!Newer
    <3> QED
      BY <3>4 DEF c
  <2>6. e = MapOf(tables[p])[k]
    BY <1>2, <1>3, <2>1, <2>2, <2>5
  <2>7. MapOf(Table(n))[Table(n)[x][1]] = Table(n)[x][2]
    BY <2>1, MapOfIs
  <2>8. e = Table(n)[x][2]
    BY <1>7, <2>1, <2>6, <2>7
  <2> QED
    BY <1>1, <2>8
<1> QED
  BY <1>6, <1>7

----------------------------------------------------------------------------
(* The rounds.  A row is consumed when its reader has moved past it or has *)
(* left the heap; consumed rows and written ones have smaller keys than    *)
(* all readers in the heap stand at.                                       *)

Consumed(n, x) == n \notin heap \/ x < key_buffer[n]
Passed(k) == \A n \in heap : k < GetKey(n)

Merging ==
  /\ indexblock \in Rows /\ Sorted(indexblock)
  /\ heap \subseteq 1 .. Len(readers)
  /\ pc = "open" => heap = {} /\ indexblock = <<>>
  /\ pc # "open" =>
       /\ DOMAIN key_buffer = 1 .. Len(readers)
       /\ \A n \in 1 .. Len(readers) : key_buffer[n] \in 1 .. Len(Table(n))
       /\ \A x \in 1 .. Len(indexblock) : Passed(indexblock[x][1])
       /\ \A n \in 1 .. Len(readers) : \A x \in 1 .. Len(Table(n)) :
            Consumed(n, x) => Passed(Table(n)[x][1])
       /\ \A k \in Key : Passed(k) => MapOf(indexblock)[k] = MergedAs(k)

LEMMA EmptyRows == <<>> \in Rows /\ Sorted(<<>>) /\ Len(<<>>) = 0 /\ \A k \in Key : MapOf(<<>>)[k] = nullopt
<1>1. <<>> \in Rows /\ Len(<<>>) = 0 /\ DOMAIN <<>> = {} /\ 1 .. 0 = {}
  BY DEF Rows
<1>2. Sorted(<<>>)
  BY <1>1 DEF Sorted
<1> QED
  BY <1>1, <1>2, MapOfIs

(* The least reader of the heap exists and stands at the smallest key.     *)
LEMMA TopIs ==
  ASSUME Given, Opening, Merging, pc = "merge", heap # {}
  PROVE  /\ Top \in heap
         /\ \A n \in heap : GetKey(Top) < GetKey(n) \/ (GetKey(Top) = GetKey(n) /\ Top <= n)
<1>1. \A n \in heap : /\ n \in Nat /\ n \in 1 .. Len(readers) /\ GetKey(n) \in Key /\ GetKey(n) \in Int
  <2> TAKE n \in heap
  <2>1. n \in 1 .. Len(readers) /\ key_buffer[n] \in 1 .. Len(Table(n)) /\ Table(n) \in Rows
    BY TableFacts DEF Merging
  <2> QED
    BY <2>1, RowTypes DEF GetKey, Table
<1> DEFINE g == [n \in heap |-> GetKey(n)]
<1>2. Len(readers) \in Nat /\ heap \subseteq 1 .. Len(readers)
  BY TableFacts DEF Merging
<1>3. \A n \in heap : g[n] = GetKey(n) /\ g[n] \in Int
  BY <1>1
<1> HIDE DEF g
<1>4. PICK m \in heap : \A n \in heap : g[m] < g[n] \/ (g[m] = g[n] /\ m <= n)
  BY <1>2, <1>3, LeastValue
<1>5. \A n \in heap : GetKey(m) < GetKey(n) \/ (GetKey(m) = GetKey(n) /\ m <= n)
  BY <1>3, <1>4
<1>6. \A n \in heap : m = n \/ Before(m, n)
  BY <1>1, <1>5 DEF Before
<1>7. Top \in heap /\ \A n \in heap : Top = n \/ Before(Top, n)
  BY <1>6 DEF Top
<1> HIDE DEF Top
<1> QED
  BY <1>1, <1>7 DEF Before

LEMMA MergingBegins ==
  ASSUME Given, Opening, Merging, BeginIterators
  PROVE  Merging'
<1>1. /\ pc = "open" /\ i = level /\ pc' = "merge" /\ key_buffer' = [n \in DOMAIN readers |-> 1]
      /\ heap' = 1 .. components_count /\ indexblock' = <<>> /\ heap = {}
      /\ UNCHANGED <<inputs, opening>>
  BY DEF BeginIterators, Merging
<1>2. UNCHANGED <<levels, level, tables, readers>>
  BY <1>1 DEF inputs, opening
<1>3. heap' = 1 .. Len(readers) /\ DOMAIN readers = 1 .. Len(readers)
  BY <1>1, AllOpened, TableFacts
<1>4. \A n \in 1 .. Len(readers) :
        /\ key_buffer'[n] = 1 /\ 1 \in 1 .. Len(Table(n)) /\ Table(n)' = Table(n)
        /\ GetKey(n)' = Table(n)[1][1]
  <2> TAKE n \in 1 .. Len(readers)
  <2>1. key_buffer'[n] = 1 /\ Table(n)' = Table(n)
    BY <1>1, <1>2, <1>3 DEF Table
  <2>2. Len(Table(n)) \in Nat \ {0}
    BY TableFacts
  <2> QED
    BY <1>2, <2>1, <2>2 DEF GetKey, Table
<1>5. \A k : MergedAs(k)' = MergedAs(k)
  BY <1>2 DEF MergedAs, Tree!MergedKV, Tree!SkipDeleted, Tree!MergedEntry, Tree!NewestEntry,
         Tree!Holding, Tree!Newest, Tree!Newer, Tree!Inputs, Tree!Components,
         Tree!CreatedJustNow, Files, MapOf
<1>6. \A n \in 1 .. Len(readers) : \A x \in 1 .. Len(Table(n)) : ~Consumed(n, x)'
  <2> TAKE n \in 1 .. Len(readers)
  <2> TAKE x \in 1 .. Len(Table(n))
  <2>1. Len(Table(n)) \in Nat
    BY TableFacts
  <2> QED
    BY <1>3, <1>4, <2>1 DEF Consumed
<1>7. ASSUME NEW k \in Key, Passed(k)' PROVE MergedAs(k) = nullopt
  <2>1. ASSUME NEW n \in 1 .. Len(readers), NEW x \in 1 .. Len(Table(n))
        PROVE  Table(n)[x][1] # k
    <3>1. Table(n) \in Rows /\ Sorted(Table(n)) /\ Len(Table(n)) \in Nat
      BY TableFacts
    <3>2. 1 \in 1 .. Len(Table(n)) /\ 1 <= x
      BY <1>4
    <3>3. Table(n)[1][1] <= Table(n)[x][1]
      BY <3>1, <3>2, SortedKeys
    <3>4. k < Table(n)[1][1]
      BY <1>3, <1>4, <1>7 DEF Passed
    <3>5. Table(n)[1][1] \in Int /\ Table(n)[x][1] \in Int /\ k \in Int
      BY <3>1, <3>2, RowTypes, MergeAssumption
    <3> QED
      BY <3>3, <3>4, <3>5
  <2> QED
    BY <1>1, <2>1, MergedKVIs
<1>8. indexblock' \in Rows /\ Sorted(indexblock') /\ Len(indexblock') = 0
      /\ \A k \in Key : MapOf(indexblock')[k] = nullopt
  BY <1>1, EmptyRows
<1>9. \A x \in 1 .. Len(indexblock') : Passed(indexblock[x][1])'
  BY <1>8
<1>10. MapOf(indexblock)' = MapOf(indexblock') /\ Sorted(indexblock)' = Sorted(indexblock')
  BY DEF MapOf, Sorted
<1>11. \A k \in Key : Passed(k)' => MapOf(indexblock)'[k] = MergedAs(k)'
  BY <1>5, <1>7, <1>8, <1>10
<1>12. /\ pc' # "open" /\ heap' \subseteq 1 .. Len(readers')
       /\ DOMAIN key_buffer' = 1 .. Len(readers')
  BY <1>1, <1>2, <1>3
<1>13. \A n \in 1 .. Len(readers') : key_buffer'[n] \in 1 .. Len(Table(n)')
  BY <1>2, <1>4
<1>14. \A n \in 1 .. Len(readers') : \A x \in 1 .. Len(Table(n)') : ~Consumed(n, x)'
  BY <1>2, <1>4, <1>6
<1> QED
  BY <1>8, <1>9, <1>10, <1>11, <1>12, <1>13, <1>14 DEF Merging

(* What one round does, in terms of the smallest key and the reader that   *)
(* has its newest entry.                                                   *)
LEMMA RoundIs ==
  ASSUME Given, Opening, Merging, MergeSmallest
  PROVE  /\ pc = "merge" /\ i = level /\ UNCHANGED <<levels, level, tables, pc, readers>>
         /\ Top \in heap /\ GetKey(Top) \in Key /\ GetKey(Top) \in Int /\ GetValue(Top) \in Entry
         /\ \A n \in 1 .. Len(readers) :
              /\ key_buffer'[n] \in 1 .. Len(Table(n))
              /\ n \in heap /\ GetKey(n) = GetKey(Top) /\ ~IsEnd(n) =>
                   n \in heap' /\ key_buffer'[n] = key_buffer[n] + 1
              /\ n \in heap /\ GetKey(n) = GetKey(Top) /\ IsEnd(n) => n \notin heap'
              /\ n \in heap /\ GetKey(n) # GetKey(Top) =>
                   n \in heap' /\ key_buffer'[n] = key_buffer[n] /\ GetKey(Top) < GetKey(n)
              /\ n \notin heap => n \notin heap' /\ key_buffer'[n] = key_buffer[n]
         /\ heap' \subseteq heap
         /\ DOMAIN key_buffer' = 1 .. Len(readers)
<1>1. /\ pc = "merge" /\ heap # {}
      /\ key_buffer' = [n \in DOMAIN key_buffer |->
                      IF n \in to_advance /\ ~IsEnd(n) THEN key_buffer[n] + 1 ELSE key_buffer[n]]
      /\ heap' = heap \ {n \in to_advance : IsEnd(n)}
      /\ UNCHANGED <<inputs, pc, opening>>
  BY DEF MergeSmallest
<1>2. pc = "merge" /\ i = level /\ UNCHANGED <<levels, level, tables, pc, readers>>
  BY <1>1 DEF inputs, opening, Opening
<1>3. Top \in heap /\ \A n \in heap : GetKey(Top) < GetKey(n) \/ (GetKey(Top) = GetKey(n) /\ Top <= n)
  BY <1>1, TopIs
<1>4. /\ DOMAIN key_buffer = 1 .. Len(readers) /\ heap \subseteq 1 .. Len(readers)
      /\ \A n \in 1 .. Len(readers) : key_buffer[n] \in 1 .. Len(Table(n))
  BY <1>1 DEF Merging
<1>5. \A n : n \in to_advance <=> n \in heap /\ GetKey(n) = GetKey(Top)
  BY DEF to_advance
<1>6. \A n \in heap : GetKey(n) \in Key /\ GetKey(n) \in Int /\ GetValue(n) \in Entry
  <2> TAKE n \in heap
  <2>1. n \in 1 .. Len(readers) /\ key_buffer[n] \in 1 .. Len(Table(n)) /\ Table(n) \in Rows
    BY <1>4, TableFacts
  <2> QED
    BY <2>1, RowTypes DEF GetKey, GetValue, Table
<1> DEFINE top == Top
<1> HIDE DEF top
<1>7. ASSUME NEW n \in 1 .. Len(readers)
      PROVE  /\ key_buffer'[n] \in 1 .. Len(Table(n))
             /\ n \in heap /\ GetKey(n) = GetKey(top) /\ ~IsEnd(n) =>
                  n \in heap' /\ key_buffer'[n] = key_buffer[n] + 1
             /\ n \in heap /\ GetKey(n) = GetKey(top) /\ IsEnd(n) => n \notin heap'
             /\ n \in heap /\ GetKey(n) # GetKey(top) =>
                  n \in heap' /\ key_buffer'[n] = key_buffer[n] /\ GetKey(top) < GetKey(n)
             /\ n \notin heap => n \notin heap' /\ key_buffer'[n] = key_buffer[n]
  <2>1. key_buffer'[n] = IF n \in to_advance /\ ~IsEnd(n) THEN key_buffer[n] + 1 ELSE key_buffer[n]
    BY <1>1, <1>4
  <2>2. n \in heap' <=> n \in heap /\ ~(n \in to_advance /\ IsEnd(n))
    BY <1>1
  <2>3. n \in to_advance <=> n \in heap /\ GetKey(n) = GetKey(top)
    BY <1>5 DEF top
  <2>4. key_buffer[n] \in 1 .. Len(Table(n)) /\ Len(Table(n)) \in Nat
    BY <1>4, TableFacts
  <2>5. ~IsEnd(n) => key_buffer[n] + 1 \in 1 .. Len(Table(n))
    <3>1. IsEnd(n) <=> key_buffer[n] = Len(Table(n))
      BY DEF IsEnd, Table
    <3> QED
      BY <2>4, <3>1
  <2>6. n \in heap => GetKey(top) < GetKey(n) \/ GetKey(top) = GetKey(n)
    BY <1>3 DEF top
  <2> QED
    BY <2>1, <2>2, <2>3, <2>4, <2>5, <2>6
<1>8. heap' \subseteq heap /\ DOMAIN key_buffer' = 1 .. Len(readers)
  BY <1>1, <1>4
<1> QED
  BY <1>2, <1>3, <1>6, <1>7, <1>8 DEF top

LEMMA MergingRound ==
  ASSUME Given, Opening, Merging, MergeSmallest
  PROVE  Merging'
<1> DEFINE N == 1 .. Len(readers)
           s == GetKey(Top)
           v == GetValue(Top)
<1>1. /\ pc = "merge" /\ i = level /\ UNCHANGED <<levels, level, tables, pc, readers>>
      /\ Top \in heap /\ s \in Key /\ s \in Int /\ v \in Entry
      /\ heap' \subseteq heap /\ DOMAIN key_buffer' = N
  BY RoundIs
<1>2. \A n \in N : key_buffer'[n] \in 1 .. Len(Table(n))
  BY RoundIs
<1>3. /\ heap \subseteq N
      /\ \A n \in N : key_buffer[n] \in 1 .. Len(Table(n))
      /\ indexblock \in Rows /\ Sorted(indexblock)
      /\ \A x \in 1 .. Len(indexblock) : Passed(indexblock[x][1])
      /\ \A n \in N : \A x \in 1 .. Len(Table(n)) : Consumed(n, x) => Passed(Table(n)[x][1])
      /\ \A k \in Key : Passed(k) => MapOf(indexblock)[k] = MergedAs(k)
  BY <1>1 DEF Merging
<1>4. /\ \A n : Table(n)' = Table(n)
      /\ \A n : GetKey(n) = Table(n)[key_buffer[n]][1] /\ GetKey(n)' = Table(n)[key_buffer'[n]][1]
      /\ \A n : GetValue(n) = Table(n)[key_buffer[n]][2]
      /\ \A n : IsEnd(n) <=> key_buffer[n] = Len(Table(n))
  BY <1>1 DEF Table, GetKey, GetValue, IsEnd
<1>5. \A k : MergedAs(k)' = MergedAs(k)
  BY <1>1 DEF MergedAs, Tree!MergedKV, Tree!SkipDeleted, Tree!MergedEntry, Tree!NewestEntry,
         Tree!Holding, Tree!Newest, Tree!Newer, Tree!Inputs, Tree!Components,
         Tree!CreatedJustNow, Files, MapOf
<1>6. \A n \in N : /\ Table(n) \in Rows /\ Sorted(Table(n)) /\ Len(Table(n)) \in Nat
                   /\ \A x \in 1 .. Len(Table(n)) : Table(n)[x][1] \in Int /\ Table(n)[x][1] \in Key
                                                    /\ Table(n)[x][2] \in Entry
  BY TableFacts, RowTypes
<1>7. \A n \in heap : GetKey(n) \in Int /\ s <= GetKey(n)
  <2> TAKE n \in heap
  <2>1. GetKey(n) \in Int
    BY <1>3, <1>4, <1>6
  <2> QED
    BY <1>1, <1>3, <2>1, RoundIs
<1> HIDE DEF s, v
<1>8. ASSUME NEW n \in heap' PROVE GetKey(n)' \in Int /\ s < GetKey(n)'
  <2>1. n \in heap /\ n \in N
    BY <1>1, <1>3
  <2>2. GetKey(n)' \in Int
    BY <1>2, <1>4, <1>6, <2>1
  <2>3. CASE GetKey(n) = s
    <3>1. ~IsEnd(n) /\ key_buffer'[n] = key_buffer[n] + 1
      BY <1>8, <2>1, <2>3, RoundIs DEF s
    <3>2. key_buffer[n] \in 1 .. Len(Table(n)) /\ key_buffer[n] + 1 \in 1 .. Len(Table(n))
          /\ key_buffer[n] < key_buffer[n] + 1
      BY <1>2, <1>3, <2>1, <3>1
    <3>3. Table(n)[key_buffer[n]][1] < Table(n)[key_buffer[n] + 1][1]
      BY <1>6, <2>1, <3>2, SortedKeys
    <3> QED
      BY <1>4, <2>2, <2>3, <3>1, <3>3
  <2>4. CASE GetKey(n) # s
    <3>1. key_buffer'[n] = key_buffer[n] /\ s < GetKey(n)
      BY <2>1, <2>4, RoundIs DEF s
    <3> QED
      BY <1>4, <2>2, <3>1
  <2> QED
    BY <2>3, <2>4
<1>9. \A k \in Int : k <= s => Passed(k)'
  BY <1>1, <1>8 DEF Passed
<1>10. \A k \in Int : Passed(k) => k < s /\ k <= s
  BY <1>1 DEF Passed, s
<1>11. ASSUME NEW n \in N, NEW x \in 1 .. Len(Table(n)), Consumed(n, x)'
       PROVE  Table(n)[x][1] <= s
  <2>1. Table(n)[x][1] \in Int /\ key_buffer[n] \in 1 .. Len(Table(n)) /\ Len(Table(n)) \in Nat
    BY <1>3, <1>6
  <2>2. CASE Consumed(n, x)
    BY <1>3, <1>10, <2>1, <2>2
  <2>3. CASE ~Consumed(n, x)
    <3>1. n \in heap /\ ~(x < key_buffer[n])
      BY <2>3 DEF Consumed
    <3>2. n \notin heap' \/ x < key_buffer'[n]
      BY <1>11 DEF Consumed
    <3>3. GetKey(n) = s /\ (~IsEnd(n) => key_buffer'[n] = key_buffer[n] + 1 /\ n \in heap')
      BY <3>1, <3>2, RoundIs DEF s
    <3>4. x = key_buffer[n]
      BY <1>4, <2>1, <3>1, <3>2, <3>3
    <3> QED
      BY <1>1, <1>4, <3>3, <3>4
  <2> QED
    BY <2>2, <2>3
<1>12. ASSUME NEW n \in N, NEW x \in 1 .. Len(Table(n))
       PROVE  Table(n)[x][1] = s <=> n \in heap /\ GetKey(n) = s /\ x = key_buffer[n]
  <2>1. key_buffer[n] \in 1 .. Len(Table(n)) /\ Table(n)[x][1] \in Int
    BY <1>3, <1>6
  <2>2. ASSUME Table(n)[x][1] = s PROVE n \in heap /\ GetKey(n) = s /\ x = key_buffer[n]
    <3>1. ~Passed(s)
      BY <1>1, <1>10
    <3>2. ~Consumed(n, x)
      BY <1>3, <2>2, <3>1
    <3>3. n \in heap /\ ~(x < key_buffer[n])
      BY <3>2 DEF Consumed
    <3>4. key_buffer[n] <= x
      BY <2>1, <3>3
    <3>5. GetKey(n) <= Table(n)[x][1]
      BY <1>4, <1>6, <2>1, <3>4, SortedKeys
    <3>6. GetKey(n) = s
      BY <1>1, <1>7, <2>2, <3>3, <3>5
    <3>7. Table(n)[x][1] = Table(n)[key_buffer[n]][1]
      BY <1>4, <2>2, <3>6
    <3> QED
      BY <1>6, <2>1, <3>3, <3>6, <3>7, SortedKeys
  <2> QED
    BY <1>4, <2>2
<1>13. MergedAs(s) = IF delete_tombstones /\ v = Empty THEN nullopt ELSE v
  <2> DEFINE n == Top
             x == key_buffer[n]
  <2>1. n \in N /\ n \in heap /\ x \in 1 .. Len(Table(n)) /\ Table(n)[x][1] = s /\ Table(n)[x][2] = v
    BY <1>1, <1>3, <1>4 DEF s, v
  <2>2. ASSUME NEW m \in 1 .. n - 1, NEW y \in 1 .. Len(Table(m)) PROVE Table(m)[y][1] # s
    <3>1. m \in N /\ ~(n <= m)
      BY <2>1, TableFacts
    <3>2. m \in heap => GetKey(m) # s
      <4>1. heap # {}
        BY <1>1
      <4>2. m \in heap => GetKey(n) < GetKey(m) \/ (GetKey(n) = GetKey(m) /\ n <= m)
        BY <1>1, <4>1, TopIs
      <4> QED
        BY <1>1, <1>7, <3>1, <4>2 DEF s
    <3> QED
      BY <1>12, <3>1, <3>2
  <2> HIDE DEF n, x
  <2> QED
    BY <1>1, <2>1, <2>2, MergedKVIs
<1>14. ASSUME NEW k \in Key, Passed(k)', s < k PROVE MergedAs(k) = nullopt
  <2>1. k \in Int
    BY MergeAssumption
  <2>2. ASSUME NEW n \in N, NEW x \in 1 .. Len(Table(n)) PROVE Table(n)[x][1] # k
    <3>1. Table(n)[x][1] \in Int /\ key_buffer'[n] \in 1 .. Len(Table(n))
      BY <1>2, <1>6
    <3>2. CASE Consumed(n, x)'
      <4>1. Table(n)[x][1] <= s
        BY <1>11, <3>2
      <4> QED
        BY <1>1, <1>14, <2>1, <3>1, <4>1
    <3>3. CASE ~Consumed(n, x)'
      <4>1. n \in heap' /\ ~(x < key_buffer'[n])
        BY <3>3 DEF Consumed
      <4>2. key_buffer'[n] <= x
        BY <3>1, <4>1
      <4>3. GetKey(n)' <= Table(n)[x][1]
        BY <1>4, <1>6, <3>1, <4>2, SortedKeys
      <4>4. k < GetKey(n)' /\ GetKey(n)' \in Int
        BY <1>8, <1>14, <4>1 DEF Passed
      <4> QED
        BY <2>1, <3>1, <4>3, <4>4
    <3> QED
      BY <3>2, <3>3
  <2> QED
    BY <1>1, <2>2, MergedKVIs
<1>15. \A x \in 1 .. Len(indexblock) : indexblock[x][1] \in Int /\ indexblock[x][1] < s
  BY <1>3, <1>10, RowTypes
<1>16. \A k \in Key : s <= k => MapOf(indexblock)[k] = nullopt
  <2> TAKE k \in Key
  <2>1. k \in Int
    BY MergeAssumption
  <2>2. s <= k => \A x \in 1 .. Len(indexblock) : indexblock[x][1] # k
    BY <1>1, <1>15, <2>1
  <2> QED
    BY <1>3, <2>2, MapOfIs
<1>17. /\ indexblock' \in Rows /\ Sorted(indexblock')
       /\ \A x \in 1 .. Len(indexblock') : indexblock'[x][1] \in Int /\ indexblock'[x][1] <= s
       /\ MapOf(indexblock')[s] = IF delete_tombstones /\ v = Empty THEN nullopt ELSE v
       /\ \A k \in Key : k # s => MapOf(indexblock')[k] = MapOf(indexblock)[k]
  <2>1. CASE delete_tombstones /\ v = Empty
    <3>1. indexblock' = indexblock
      BY <2>1 DEF MergeSmallest, v
    <3> QED
      BY <1>1, <1>3, <1>15, <1>16, <2>1, <3>1
  <2>2. CASE ~(delete_tombstones /\ v = Empty)
    <3>1. indexblock' = Append(indexblock, <<s, v>>)
      BY <2>2 DEF MergeSmallest, s, v
    <3> DEFINE u == Append(indexblock, <<s, v>>)
    <3>2. /\ u \in Rows /\ Sorted(u) /\ MapOf(u)[s] = v
          /\ \A x \in 1 .. Len(u) : u[x][1] <= s
          /\ \A k \in Key : k # s => MapOf(u)[k] = MapOf(indexblock)[k]
      BY <1>1, <1>3, <1>15, MapOfAppend
    <3> HIDE DEF u
    <3>3. \A x \in 1 .. Len(u) : u[x][1] \in Int
      BY <3>2, RowTypes
    <3> QED
      BY <2>2, <3>1, <3>2, <3>3 DEF u
  <2> QED
    BY <2>1, <2>2
<1>18. ASSUME NEW k \in Key, Passed(k)' PROVE MapOf(indexblock')[k] = MergedAs(k)
  <2>1. k \in Int
    BY MergeAssumption
  <2>2. CASE k = s
    BY <1>13, <1>17, <2>2
  <2>3. CASE k < s
    <3>1. Passed(k)
      BY <1>1, <1>7, <2>1, <2>3 DEF Passed
    <3> QED
      BY <1>1, <1>3, <1>17, <2>1, <2>3, <3>1
  <2>4. CASE s < k
    BY <1>1, <1>14, <1>16, <1>17, <1>18, <2>1, <2>4
  <2> QED
    BY <1>1, <2>1, <2>2, <2>3, <2>4
<1>19. MapOf(indexblock)' = MapOf(indexblock') /\ Sorted(indexblock)' = Sorted(indexblock')
  BY DEF MapOf, Sorted
<1>20. \A x \in 1 .. Len(indexblock') : Passed(indexblock[x][1])'
  BY <1>9, <1>17
<1>21. \A n \in N : \A x \in 1 .. Len(Table(n)) : Consumed(n, x)' => Passed(Table(n)[x][1])'
  <2> TAKE n \in N
  <2> TAKE x \in 1 .. Len(Table(n))
  <2> SUFFICES ASSUME Consumed(n, x)', NEW m \in heap' PROVE Table(n)'[x][1] < GetKey(m)'
    BY DEF Passed
  <2>1. Table(n)[x][1] \in Int /\ Table(n)[x][1] <= s
    BY <1>6, <1>11
  <2> QED
    BY <1>1, <1>4, <1>8, <2>1
<1>22. heap' \subseteq 1 .. Len(readers') /\ pc' # "open"
  BY <1>1, <1>3
<1> QED
  BY <1>1, <1>2, <1>4, <1>5, <1>17, <1>18, <1>19, <1>20, <1>21, <1>22 DEF Merging

LEMMA MergingKept ==
  ASSUME Given, Opening, Merging, [Next]_vars
  PROVE  Merging'
<1>1. CASE BeginIterators
  BY <1>1, MergingBegins
<1>2. CASE MergeSmallest
  BY <1>2, MergingRound
<1>3. CASE OpenReader \/ NextLevel
  <2>1. pc = "open" /\ pc' = "open" /\ heap' = heap /\ indexblock' = indexblock
    BY <1>3 DEF OpenReader, NextLevel, merging
  <2>2. heap = {} /\ indexblock = <<>>
    BY <2>1 DEF Merging
  <2> QED
    BY <2>1, <2>2, EmptyRows DEF Merging, Sorted
<1>4. CASE Finish \/ UNCHANGED vars
  <2>1. /\ UNCHANGED <<levels, level, tables, readers, key_buffer, heap, indexblock>>
        /\ pc' = "open" <=> pc = "open"
    BY <1>4 DEF Finish, inputs, opening, merging, vars
  <2>2. \A k : MergedAs(k)' = MergedAs(k)
    BY <2>1 DEF MergedAs, Tree!MergedKV, Tree!SkipDeleted, Tree!MergedEntry, Tree!NewestEntry,
           Tree!Holding, Tree!Newest, Tree!Newer, Tree!Inputs, Tree!Components,
           Tree!CreatedJustNow, Files, MapOf
  <2>3. /\ \A n : Table(n)' = Table(n) /\ GetKey(n)' = GetKey(n)
        /\ \A n, x : Consumed(n, x)' <=> Consumed(n, x)
        /\ MapOf(indexblock)' = MapOf(indexblock) /\ Sorted(indexblock)' = Sorted(indexblock)
    BY <2>1 DEF Table, GetKey, Consumed, MapOf, Sorted
  <2>4. /\ \A k \in Key : Passed(k)' <=> Passed(k)
        /\ \A x \in 1 .. Len(indexblock) : Passed(indexblock[x][1])' <=> Passed(indexblock[x][1])
        /\ \A n \in 1 .. Len(readers) : \A x \in 1 .. Len(Table(n)) :
             Passed(Table(n)[x][1])' <=> Passed(Table(n)[x][1])
    BY <2>1, <2>3 DEF Passed
  <2> QED
    BY <2>1, <2>2, <2>3, <2>4 DEF Merging
<1> QED
  BY <1>1, <1>2, <1>3, <1>4 DEF Next

----------------------------------------------------------------------------
(* Counting rows: all rows of the readers, and those consumed.             *)

AllRows == {p \in (1 .. Len(readers)) \X Nat : p[2] \in 1 .. Len(Table(p[1]))}
ConsumedRows == {p \in AllRows : Consumed(p[1], p[2])}

Counting ==
  /\ IsFiniteSet(AllRows) /\ Cardinality(AllRows) = total_kv_count
  /\ pc = "open" => indexblock = <<>>
  /\ pc # "open" => Len(indexblock) <= Cardinality(ConsumedRows)

LEMMA OpenedRows ==
  ASSUME Given, Opening, Counting, OpenReader
  PROVE  IsFiniteSet(AllRows)' /\ Cardinality(AllRows)' = total_kv_count'
<1>0. PICK N \in Nat : N = Len(readers)
  BY TableFacts
<1> DEFINE p == NextReader
           L == Len(tables[p])
           B == {N + 1} \X (1 .. L)
<1>1. /\ UNCHANGED <<levels, level, tables, pc>> /\ readers' = Append(readers, p)
      /\ total_kv_count' = total_kv_count + L
  BY DEF OpenReader, inputs, CountWithNext
<1>2. N \in Nat /\ \A n \in 1 .. N : readers[n] \in Merged
  BY <1>0, TableFacts
<1>3. Given' /\ Opening'
  BY OpeningKept DEF Next
<1>4. readers \in Seq(Merged)
  BY DEF Opening
<1>5. Len(readers') = N + 1 /\ readers'[N + 1] = p /\ \A n \in 1 .. N : readers'[n] = readers[n]
  BY <1>0, <1>1, <1>4
<1>6. L \in Nat
  <2>1. Merged' = Merged
    BY <1>1 DEF Merged, Tree!Inputs, Tree!Components
  <2>2. readers' \in Seq(Merged)
    BY <1>3, <2>1 DEF Opening
  <2>3. N + 1 \in 1 .. Len(readers')
    BY <1>2, <1>5
  <2>4. p \in Merged
    BY <1>5, <2>2, <2>3
  <2> QED
    BY <2>4, MergedAre
<1>7. AllRows' = AllRows \cup B
  <2>1. \A n \in 1 .. N : Table(n)' = Table(n)
    BY <1>1, <1>5 DEF Table
  <2>2. Table(N + 1)' = tables[p]
    BY <1>1, <1>5 DEF Table
  <2>3. 1 .. N + 1 = (1 .. N) \cup {N + 1}
    BY <1>2
  <2>4. 1 .. L \subseteq Nat
    BY <1>6
  <2>5. AllRows' = {q \in (1 .. N + 1) \X Nat : q[2] \in 1 .. Len(Table(q[1])')}
    BY <1>5 DEF AllRows
  <2>6. AllRows = {q \in (1 .. N) \X Nat : q[2] \in 1 .. Len(Table(q[1]))}
    BY <1>0 DEF AllRows
  <2> HIDE DEF p, L
  <2>7. ASSUME NEW a \in 1 .. N + 1, NEW b \in Nat
        PROVE  <<a, b>> \in AllRows' <=> <<a, b>> \in AllRows \/ (a = N + 1 /\ b \in 1 .. L)
    <3>1. <<a, b>> \in AllRows' <=> b \in 1 .. Len(Table(a)')
      BY <2>5
    <3>2. <<a, b>> \in AllRows <=> a \in 1 .. N /\ b \in 1 .. Len(Table(a))
      BY <2>6
    <3>3. CASE a \in 1 .. N
      <4>1. a # N + 1
        BY <1>2, <3>3
      <4> QED
        BY <2>1, <3>1, <3>2, <3>3, <4>1
    <3>4. CASE a = N + 1
      <4>1. a \notin 1 .. N
        BY <1>2, <3>4
      <4>2. Len(Table(a)') = L
        BY <2>2, <3>4 DEF L
      <4> QED
        BY <3>1, <3>2, <3>4, <4>1, <4>2
    <3> QED
      BY <2>3, <3>3, <3>4
  <2>8. \A q \in AllRows' : q = <<q[1], q[2]>> /\ q[1] \in 1 .. N + 1 /\ q[2] \in Nat
    BY <2>5
  <2>9. \A q \in AllRows : q = <<q[1], q[2]>> /\ q[1] \in 1 .. N + 1 /\ q[2] \in Nat
    BY <2>3, <2>6
  <2>10. \A q \in B : q = <<q[1], q[2]>> /\ q[1] \in 1 .. N + 1 /\ q[2] \in Nat /\ q[1] = N + 1 /\ q[2] \in 1 .. L
    BY <2>3, <2>4
  <2>11. \A a, b : a = N + 1 /\ b \in 1 .. L => <<a, b>> \in B
    OBVIOUS
  <2> HIDE DEF B
  <2>12. ASSUME NEW q \in AllRows' PROVE q \in AllRows \cup B
    BY <2>7, <2>8, <2>11
  <2>13. ASSUME NEW q \in AllRows \cup B PROVE q \in AllRows'
    BY <2>7, <2>9, <2>10
  <2> QED
    BY <2>12, <2>13
<1>8. IsFiniteSet(B) /\ Cardinality(B) = L
  <2>1. IsFiniteSet({N + 1}) /\ Cardinality({N + 1}) = 1
    BY FS_Singleton
  <2>2. IsFiniteSet(1 .. L) /\ Cardinality(1 .. L) = L
    BY <1>6, FS_Interval
  <2>3. IsFiniteSet(B) /\ Cardinality(B) = Cardinality({N + 1}) * Cardinality(1 .. L)
    BY <2>1, <2>2, FS_Product
  <2> HIDE DEF L
  <2>4. 1 * L = L
    BY <1>6
  <2> QED
    BY <2>1, <2>2, <2>3, <2>4
<1>9. AllRows \cap B = {}
  BY <1>0, <1>2 DEF AllRows
<1>10. IsFiniteSet(AllRows) /\ Cardinality(AllRows) = total_kv_count
  BY DEF Counting
<1> HIDE DEF p, L, B
<1>11. Cardinality({}) = 0 /\ Cardinality(AllRows) \in Nat
  BY <1>10, FS_EmptySet, FS_CardinalityType
<1>12. IsFiniteSet(AllRows \cup B)
       /\ Cardinality(AllRows \cup B) = Cardinality(AllRows) + Cardinality(B) - Cardinality(AllRows \cap B)
  BY <1>8, <1>10, FS_Union
<1>13. Cardinality(AllRows \cup B) = total_kv_count + L
  <2>1. Cardinality(AllRows \cup B) = total_kv_count + L - 0 /\ total_kv_count \in Nat
    BY <1>8, <1>9, <1>10, <1>11, <1>12
  <2> QED
    BY <1>6, <2>1
<1> QED
  BY <1>1, <1>7, <1>12, <1>13

LEMMA CountingKept ==
  ASSUME Given, Opening, Merging, Counting, [Next]_vars
  PROVE  Counting'
<1>1. CASE OpenReader
  <2>1. pc' = "open" /\ pc = "open" /\ indexblock' = indexblock
    BY <1>1 DEF OpenReader, merging
  <2> QED
    BY <1>1, <2>1, OpenedRows DEF Counting
<1>2. CASE ~OpenReader
  <2>1. UNCHANGED <<readers, tables, total_kv_count>>
    BY <1>2 DEF Next, NextLevel, BeginIterators, MergeSmallest, Finish, vars, inputs, opening
  <2>2. AllRows' = AllRows /\ \A n : Table(n)' = Table(n)
    BY <2>1 DEF AllRows, Table
  <2>3. CASE NextLevel
    BY <2>1, <2>2, <2>3 DEF NextLevel, Counting, merging
  <2>4. CASE BeginIterators
    <3>1. indexblock' = <<>> /\ pc' # "open"
      BY <2>4 DEF BeginIterators, Counting
    <3>2. ConsumedRows' \subseteq AllRows'
      BY DEF ConsumedRows
    <3>3. Cardinality(ConsumedRows') \in Nat
      BY <2>2, <3>2, FS_Subset, FS_CardinalityType DEF Counting
    <3>4. Len(indexblock') <= Cardinality(ConsumedRows')
      BY <3>1, <3>3
    <3> QED
      BY <2>1, <2>2, <3>1, <3>4 DEF Counting
  <2>5. CASE MergeSmallest
    <3> DEFINE top == <<Top, key_buffer[Top]>>
    <3>1. /\ pc = "merge" /\ pc' = "merge" /\ Top \in heap /\ heap' \subseteq heap
          /\ heap \subseteq 1 .. Len(readers)
          /\ \A n \in 1 .. Len(readers) : key_buffer[n] \in 1 .. Len(Table(n)) /\ Len(Table(n)) \in Nat
      BY <2>5, RoundIs, TableFacts DEF Merging
    <3>2. /\ \A n \in heap' : key_buffer'[n] = key_buffer[n] \/ key_buffer'[n] = key_buffer[n] + 1
          /\ Top \in heap' => key_buffer'[Top] = key_buffer[Top] + 1
      BY <2>5, <3>1, RoundIs
    <3>3. top \in AllRows /\ top \notin ConsumedRows
      BY <3>1 DEF AllRows, ConsumedRows, Consumed
    <3>4. top \in ConsumedRows'
      BY <2>2, <3>1, <3>2, <3>3 DEF ConsumedRows, Consumed
    <3>5. ConsumedRows \subseteq ConsumedRows'
      <4> SUFFICES ASSUME NEW q \in ConsumedRows PROVE q \in ConsumedRows'
        OBVIOUS
      <4>1. q \in AllRows /\ q[1] \in 1 .. Len(readers) /\ q[2] \in Nat
            /\ (q[1] \notin heap \/ q[2] < key_buffer[q[1]])
        BY DEF ConsumedRows, AllRows, Consumed
      <4>2. q[1] \notin heap' \/ q[2] < key_buffer'[q[1]]
        BY <3>1, <3>2, <4>1
      <4> QED
        BY <2>2, <4>1, <4>2 DEF ConsumedRows, Consumed
    <3> HIDE DEF top
    <3>6. /\ IsFiniteSet(AllRows) /\ Len(indexblock) <= Cardinality(ConsumedRows)
          /\ ConsumedRows \subseteq AllRows /\ ConsumedRows' \subseteq AllRows
      BY <2>2, <3>1 DEF Counting, ConsumedRows
    <3>7. IsFiniteSet(ConsumedRows) /\ IsFiniteSet(ConsumedRows')
          /\ Cardinality(ConsumedRows) \in Nat /\ Cardinality(ConsumedRows') \in Nat
      BY <3>6, FS_Subset, FS_CardinalityType
    <3>8. Cardinality(ConsumedRows \cup {top}) = Cardinality(ConsumedRows) + 1
      BY <3>3, <3>7, FS_AddElement
    <3>9. Cardinality(ConsumedRows \cup {top}) <= Cardinality(ConsumedRows')
      BY <3>4, <3>5, <3>7, FS_Subset
    <3>10. Len(indexblock') <= Len(indexblock) + 1 /\ Len(indexblock) \in Nat /\ Len(indexblock') \in Nat
      <4>1. indexblock \in Rows /\ GetKey(Top) \in Key /\ GetValue(Top) \in Entry
        BY <2>5, RoundIs DEF Merging
      <4>2. \/ indexblock' = indexblock
            \/ indexblock' = Append(indexblock, <<GetKey(Top), GetValue(Top)>>)
        BY <2>5 DEF MergeSmallest
      <4> QED
        BY <4>1, <4>2 DEF Rows
    <3>11. Len(indexblock') <= Cardinality(ConsumedRows')
      BY <3>6, <3>7, <3>8, <3>9, <3>10
    <3> QED
      BY <2>1, <2>2, <3>1, <3>11 DEF Counting
  <2>6. CASE Finish \/ UNCHANGED vars
    <3>1. UNCHANGED <<key_buffer, heap, indexblock>> /\ (pc' = "open" <=> pc = "open")
      BY <2>6 DEF Finish, vars, merging
    <3>2. ConsumedRows' = ConsumedRows
      BY <2>2, <3>1 DEF ConsumedRows, Consumed
    <3> QED
      BY <2>1, <2>2, <3>1, <3>2 DEF Counting
  <2> QED
    BY <1>2, <2>3, <2>4, <2>5, <2>6 DEF Next
<1> QED
  BY <1>1, <1>2

----------------------------------------------------------------------------
(* The theorems. *)

MergeInv == Given /\ Opening /\ Merging /\ Counting

LEMMA MergeInvAlways == Spec => []MergeInv
<1>1. Init => MergeInv
  <2> SUFFICES ASSUME Init PROVE MergeInv
    OBVIOUS
  <2>1. Given /\ Opening
    BY OpeningInit
  <2>2. pc = "open" /\ heap = {} /\ indexblock = <<>> /\ readers = <<>> /\ total_kv_count = 0
    BY DEF Init
  <2>3. Merging
    BY <2>2, EmptyRows DEF Merging
  <2>4. AllRows = {}
    <3>1. 1 .. Len(readers) = {}
      BY <2>2
    <3> QED
      BY <3>1 DEF AllRows
  <2>5. Counting
    BY <2>2, <2>4, FS_EmptySet DEF Counting
  <2> QED
    BY <2>1, <2>3, <2>5 DEF MergeInv
<1>2. MergeInv /\ [Next]_vars => MergeInv'
  BY OpeningKept, MergingKept, CountingKept DEF MergeInv
<1> QED
  BY <1>1, <1>2, PTL DEF Spec

(* The readers opened from level 0 downwards, in each level from the last  *)
(* component to the first, are the inputs of the merge from the newest to  *)
(* the oldest, and components_count, computed from the factor, is their    *)
(* number: the heap never holds an index without a reader.                 *)
THEOREM ReadersAlwaysNewestFirst == Spec => []ReadersNewestFirst
<1>1. MergeInv => ReadersNewestFirst
  <2> SUFFICES ASSUME Given, Opening, Merging PROVE ReadersNewestFirst
    BY DEF MergeInv
  <2>1. DOMAIN readers = 1 .. Len(readers) /\ \A n \in 1 .. Len(readers) : readers[n] \in Merged
    BY TableFacts
  <2>2. heap \subseteq DOMAIN readers
    BY <2>1 DEF Merging
  <2>3. \A m, n \in DOMAIN readers : m < n => Tree!Newer(readers[m], readers[n])
    BY <2>1 DEF Opening
  <2>4. ASSUME pc # "open" PROVE {readers[n] : n \in DOMAIN readers} = Tree!Inputs(levels, level)
    <3>1. i = level
      BY <2>4 DEF Opening
    <3>2. \A p \in Merged : \E n \in 1 .. Len(readers) : readers[n] = p
      BY <3>1, AllOpened
    <3> QED
      BY <2>1, <3>2 DEF Merged
  <2> QED
    BY <2>2, <2>3, <2>4 DEF ReadersNewestFirst
<1> QED
  BY <1>1, MergeInvAlways, PTL

(* The rounds write each key once, in ascending order, with what the whole *)
(* merge, LSMTree's MergedKV, holds for it: its newest entry, or nothing   *)
(* when that is a tombstone no older component can need.                   *)
THEOREM OutputAlwaysMerged == Spec => []OutputIsMerged
<1>1. MergeInv => OutputIsMerged
  <2> SUFFICES ASSUME Given, Opening, Merging, pc # "open"
               PROVE  /\ Sorted(indexblock)
                      /\ \A k \in Key : MapOf(indexblock)[k] = IF Passed(k) THEN MergedAs(k) ELSE nullopt
    BY DEF MergeInv, OutputIsMerged, Passed, MergedAs
  <2>1. /\ indexblock \in Rows /\ Sorted(indexblock)
        /\ \A x \in 1 .. Len(indexblock) : Passed(indexblock[x][1])
        /\ \A k \in Key : Passed(k) => MapOf(indexblock)[k] = MergedAs(k)
    BY DEF Merging
  <2>2. ASSUME NEW k \in Key, ~Passed(k) PROVE MapOf(indexblock)[k] = nullopt
    <3>1. \A x \in 1 .. Len(indexblock) : indexblock[x][1] # k
      BY <2>1, <2>2
    <3> QED
      BY <2>1, <3>1, MapOfIs
  <2> QED
    BY <2>1, <2>2
<1> QED
  BY <1>1, MergeInvAlways, PTL

(* The number of entries the filter is made for, the sum over the readers, *)
(* is never exceeded by the entries written: each round uses up at least   *)
(* one row and writes at most one.                                         *)
THEOREM OutputAlwaysWithinCount == Spec => []OutputWithinCount
<1>1. MergeInv => OutputWithinCount
  <2> SUFFICES ASSUME Counting, Merging PROVE OutputWithinCount
    BY DEF MergeInv
  <2>1. IsFiniteSet(AllRows) /\ Cardinality(AllRows) = total_kv_count /\ ConsumedRows \subseteq AllRows
    BY DEF Counting, ConsumedRows
  <2>2. IsFiniteSet(ConsumedRows) /\ Cardinality(ConsumedRows) <= Cardinality(AllRows)
        /\ Cardinality(ConsumedRows) \in Nat /\ Cardinality(AllRows) \in Nat
    BY <2>1, FS_Subset, FS_CardinalityType
  <2>3. Len(indexblock) \in Nat
    BY DEF Merging, Rows
  <2>4. CASE pc = "open"
    BY <2>1, <2>2, <2>4 DEF Counting, OutputWithinCount
  <2>5. CASE pc # "open"
    BY <2>1, <2>2, <2>3, <2>5 DEF Counting, OutputWithinCount
  <2> QED
    BY <2>4, <2>5
<1> QED
  BY <1>1, MergeInvAlways, PTL
=============================================================================
