--------------------------- MODULE LeastNaturals ---------------------------
(***************************************************************************)
(* Least and greatest elements of sets of naturals.                        *)
(***************************************************************************)
EXTENDS Integers, TLAPS, WellFoundedInduction

(* A non-empty set of naturals has a least element. *)
LEMMA LeastNat ==
  ASSUME NEW T, T \subseteq Nat, T # {}
  PROVE  \E m \in T : \A n \in T : m <= n
<1> DEFINE Less == {ss \in Nat \X Nat : ss[1] < ss[2]}
<1>1. IsWellFoundedOn(Less, Nat)
  BY NatLessThanWellFounded DEF OpToRel
<1>2. \E m \in T : \A n \in T : <<n, m>> \notin Less
  BY <1>1, WFMin
<1>3. PICK m \in T : \A n \in T : <<n, m>> \notin Less
  BY <1>2
<1>4. ASSUME NEW n \in T PROVE m <= n
  <2>1. ~ (n < m)
    BY <1>3
  <2>2. m \in Nat /\ n \in Nat
    OBVIOUS
  <2> HIDE DEF Less
  <2> QED
    BY <2>1, <2>2
<1> QED
  BY <1>4

(* A non-empty bounded set of naturals has a greatest element. *)
LEMMA GreatestNat ==
  ASSUME NEW T, T \subseteq Nat, T # {}, NEW b \in Nat, \A n \in T : n <= b
  PROVE  \E m \in T : \A n \in T : n <= m
<1> DEFINE D == {b - n : n \in T}
<1>1. D \subseteq Nat
  OBVIOUS
<1>0. D # {}
  OBVIOUS
<1>2. PICK d \in D : \A n \in D : d <= n
  BY <1>0, <1>1, LeastNat
<1>3. PICK m \in T : d = b - m
  BY <1>2
<1>4. ASSUME NEW n \in T PROVE n <= m
  <2>1. b - n \in D
    OBVIOUS
  <2> QED
    BY <2>1, <1>2, <1>3
<1> QED
  BY <1>4

(* A function to integers is least somewhere on a non-empty set of         *)
(* naturals that is bounded, and first there at one of them.               *)
LEMMA LeastValue ==
  ASSUME NEW N \in Nat, NEW S, S \subseteq 1 .. N, S # {}, NEW g, \A n \in S : g[n] \in Int
  PROVE  \E m \in S : \A n \in S : g[m] < g[n] \/ (g[m] = g[n] /\ m <= n)
<1> DEFINE Least(m, b) == /\ m \in S /\ m <= b
                          /\ \A n \in S : n <= b => g[m] < g[n] \/ (g[m] = g[n] /\ m <= n)
           T == {b \in 0 .. N : (\E n \in S : n <= b) /\ ~ \E m : Least(m, b)}
<1>0. \A n \in S : n \in Nat /\ n >= 1 /\ n <= N
  OBVIOUS
<1>1. T = {}
  <2> SUFFICES ASSUME T # {} PROVE FALSE
    OBVIOUS
  <2>1. PICK b \in T : \A c \in T : b <= c
    <3>1. T \subseteq Nat
      OBVIOUS
    <3> HIDE DEF T
    <3> QED
      BY <3>1, LeastNat
  <2>2. b \in 0 .. N /\ (\E n \in S : n <= b) /\ ~ \E m : Least(m, b)
    OBVIOUS
  <2>3. b # 0 /\ b - 1 \in 0 .. N /\ ~(b <= b - 1) /\ b \in Nat
    BY <1>0, <2>2
  <2>4. b - 1 \notin T
    <3> HIDE DEF T
    <3> QED
      BY <2>1, <2>3
  <2>5. \A n \in S : n <= b <=> n = b \/ n <= b - 1
    BY <1>0, <2>3
  <2>6. CASE ~ \E n \in S : n <= b - 1
    <3>1. b \in S /\ \A n \in S : n <= b => n = b
      BY <2>2, <2>5, <2>6
    <3>2. Least(b, b)
      BY <2>3, <3>1
    <3> QED
      BY <2>2, <3>2
  <2>7. CASE \E n \in S : n <= b - 1
    <3>1. PICK m : Least(m, b - 1)
      BY <2>3, <2>4, <2>7
    <3>2. CASE b \in S /\ g[b] < g[m]
      <4>1. Least(b, b)
        BY <1>0, <2>3, <2>5, <3>1, <3>2
      <4> QED
        BY <2>2, <4>1
    <3>3. CASE ~(b \in S /\ g[b] < g[m])
      <4>1. Least(m, b)
        BY <1>0, <2>3, <2>5, <3>1, <3>3
      <4> QED
        BY <2>2, <4>1
    <3> QED
      BY <3>2, <3>3
  <2> QED
    BY <2>6, <2>7
<1> HIDE DEF T
<1>2. N \in 0 .. N /\ \E n \in S : n <= N
  <2>1. PICK n \in S : TRUE
    OBVIOUS
  <2> QED
    BY <1>0, <2>1
<1>3. PICK m : Least(m, N)
  <2>1. N \notin T
    BY <1>1
  <2> QED
    BY <1>2, <2>1 DEF T
<1> QED
  BY <1>0, <1>3

----------------------------------------------------------------------------
(* Counting up to a number. *)

LEMMA CountUp ==
  ASSUME NEW N \in Nat, NEW T, 0 \in T, \A i \in 1 .. N : i - 1 \in T => i \in T
  PROVE  0 .. N \subseteq T
<1> DEFINE U == {i \in 0 .. N : i \notin T}
<1> SUFFICES ASSUME U # {} PROVE FALSE
  OBVIOUS
<1>1. PICK m \in U : \A n \in U : m <= n
  <2>1. U \subseteq Nat
    OBVIOUS
  <2> HIDE DEF U
  <2> QED
    BY <2>1, LeastNat
<1>2. m \in 1 .. N /\ m \notin T /\ m - 1 \in 0 .. N /\ ~(m <= m - 1)
  OBVIOUS
<1>3. m - 1 \in T
  <2>1. m - 1 \notin U
    <3> HIDE DEF U
    <3> QED
      BY <1>1, <1>2
  <2> QED
    BY <1>2, <2>1
<1> QED
  BY <1>2, <1>3

(* A value for 0 and a step to the next number define a function. *)
Steps(N, V, base, step, w) ==
  /\ w \in [0 .. N -> V]
  /\ w[0] = base
  /\ \A i \in 1 .. N : w[i] = step[<<i, w[i - 1]>>]

LEMMA StepByStep ==
  ASSUME NEW N \in Nat, NEW V, NEW base \in V, NEW step \in [(1 .. N) \X V -> V]
  PROVE  \E w : Steps(N, V, base, step, w)
<1> DEFINE Upto(n, w) == /\ w \in [0 .. n -> V] /\ w[0] = base
                         /\ \A i \in 1 .. n : w[i] = step[<<i, w[i - 1]>>]
           T == {n \in 0 .. N : \E w : Upto(n, w)}
<1>1. 0 \in T
  <2> DEFINE z == [i \in 0 .. 0 |-> base]
  <2>1. Upto(0, z)
    OBVIOUS
  <2>2. \E w : Upto(0, w)
    BY <2>1
  <2> HIDE DEF Upto
  <2> QED
    BY <2>2
<1>2. ASSUME NEW n \in 1 .. N, n - 1 \in T PROVE n \in T
  <2>1. PICK w : Upto(n - 1, w)
    BY <1>2
  <2>2. /\ n - 1 \in 0 .. n - 1 /\ n \notin 0 .. n - 1 /\ 0 .. n = (0 .. n - 1) \cup {n}
        /\ 1 .. n = (1 .. n - 1) \cup {n} /\ 0 \in 0 .. n - 1
    OBVIOUS
  <2> DEFINE v == [i \in 0 .. n |-> IF i = n THEN step[<<n, w[n - 1]>>] ELSE w[i]]
  <2>3. v[n] = step[<<n, w[n - 1]>>] /\ \A i \in 0 .. n - 1 : v[i] = w[i]
    BY <2>2
  <2>4. v \in [0 .. n -> V]
    <3>1. w[n - 1] \in V /\ step[<<n, w[n - 1]>>] \in V
      BY <2>1, <2>2
    <3> QED
      BY <2>1, <2>2, <3>1
  <2> HIDE DEF v
  <2>5. ASSUME NEW i \in 1 .. n PROVE v[i] = step[<<i, v[i - 1]>>]
    <3>1. CASE i = n
      BY <2>2, <2>3, <3>1
    <3>2. CASE i # n
      <4>1. i \in 1 .. n - 1 /\ i \in 0 .. n - 1 /\ i - 1 \in 0 .. n - 1
        BY <3>2
      <4> QED
        BY <2>1, <2>3, <4>1
    <3> QED
      BY <3>1, <3>2
  <2>6. Upto(n, v)
    BY <2>1, <2>2, <2>3, <2>4, <2>5
  <2> QED
    BY <2>6
<1>3. 0 .. N \subseteq T
  <2> HIDE DEF T
  <2> QED
    BY <1>1, <1>2, CountUp
<1>4. N \in T
  <2> HIDE DEF T
  <2> QED
    BY <1>3
<1> QED
  BY <1>4 DEF Steps
============================================================================
