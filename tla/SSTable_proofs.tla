--------------------------- MODULE SSTable_proofs ---------------------------
(***************************************************************************)
(* What either writer has written is found again by the index, by the      *)
(* iterator and by the filter, for every set of keys and values and every  *)
(* size; and so Find and FindRange over the file answer the table's map.   *)
(*                                                                         *)
(* Why: every entry begins where the bytes of those before it end, and the *)
(* writers' counters, the index block and the iterator are all sums of the *)
(* same bytes.  The blocks behind the data begin where the meta block says *)
(* because their words and offsets have one size each.  A search keeps its *)
(* borders right by what they know of the entries outside them, and the    *)
(* scan of FindRange by what it has set and erased.                        *)
(***************************************************************************)
EXTENDS SSTable, LeastNaturals, FiniteSetTheorems, TLAPS

----------------------------------------------------------------------------
(* Products, quotients and remainders. *)

LEMMA Product ==
  ASSUME NEW a \in Nat, NEW b \in Nat
  PROVE  a * b \in Nat /\ (a + 1) * b = a * b + b
OBVIOUS

LEMMA ProductGrows ==
  ASSUME NEW a \in Nat, NEW c \in Nat, NEW b \in Nat, a < c
  PROVE  a * b + b <= c * b
OBVIOUS

LEMMA Quotient ==
  ASSUME NEW a \in Nat, NEW b \in Nat \ {0}
  PROVE  /\ a \div b \in Nat /\ a % b \in 0 .. b - 1
         /\ a = (a \div b) * b + (a % b)
<1>1. a % b \in 0 .. b - 1
  OBVIOUS
<1>2. a = (a \div b) * b + (a % b)
  OBVIOUS
<1>3. a \div b \in Int
  OBVIOUS
<1>4. a \div b >= 0
  OBVIOUS
<1> QED
  BY <1>1, <1>2, <1>3, <1>4

LEMMA QuotientBelow ==
  ASSUME NEW a \in Nat, NEW c \in Nat, NEW b \in Nat \ {0}, a < c
  PROVE  a \div b <= CeilDiv(c, b) - 1
<1>1. CeilDiv(c, b) = (c + b - 1) \div b
  BY DEF CeilDiv
<1> DEFINE q == a \div b
           p == (c + b - 1) \div b
<1>2. /\ q \in Nat /\ a = q * b + (a % b) /\ a % b \in 0 .. b - 1
  BY Quotient
<1>3. /\ p \in Nat /\ c + b - 1 = p * b + ((c + b - 1) % b) /\ (c + b - 1) % b \in 0 .. b - 1
  <2>1. c + b - 1 \in Nat
    OBVIOUS
  <2> QED
    BY <2>1, Quotient
<1> HIDE DEF q, p
<1>4. CASE p <= q
  <2>1. p * b <= q * b
    BY <1>2, <1>3, <1>4
  <2> QED
    BY <1>2, <1>3, <2>1
<1>5. CASE q < p
  BY <1>1, <1>2, <1>3, <1>5 DEF q, p
<1> QED
  BY <1>2, <1>3, <1>4, <1>5

----------------------------------------------------------------------------
(* Sums. *)

LEMMA SumsAre ==
  ASSUME NEW lengths \in Seq(Nat)
  PROVE  LET s == Sums(lengths)
         IN  /\ s \in [0 .. Len(lengths) -> Nat] /\ s[0] = 0
             /\ \A i \in 1 .. Len(lengths) : s[i] = s[i - 1] + lengths[i]
<1> DEFINE N == Len(lengths)
           Equation(f) == f = [i \in 0 .. N |-> IF i = 0 THEN 0 ELSE f[i - 1] + lengths[i]]
           step == [x \in (1 .. N) \X Nat |-> x[2] + lengths[x[1]]]
<1>1. N \in Nat /\ \A i \in 1 .. N : lengths[i] \in Nat
  OBVIOUS
<1>2. step \in [(1 .. N) \X Nat -> Nat]
  <2>1. ASSUME NEW x \in (1 .. N) \X Nat PROVE x[2] + lengths[x[1]] \in Nat
    <3>1. x[1] \in 1 .. N /\ x[2] \in Nat
      OBVIOUS
    <3> QED
      BY <1>1, <3>1
  <2> QED
    BY <2>1
<1>3. \A i \in 1 .. N, v \in Nat : step[<<i, v>>] = v + lengths[i]
  OBVIOUS
<1> HIDE DEF N, step
<1>4. PICK w : Steps(N, Nat, 0, step, w)
  <2>1. 0 \in Nat
    OBVIOUS
  <2> QED
    BY <1>1, <1>2, <2>1, StepByStep
<1>5. \A i \in 1 .. N : i - 1 \in 0 .. N /\ i \in 0 .. N
  BY <1>1
<1>6. \A i \in 1 .. N : w[i] = w[i - 1] + lengths[i]
  BY <1>3, <1>4, <1>5 DEF Steps
<1>7. Equation(w)
  <2>1. \A i \in 0 .. N : w[i] = IF i = 0 THEN 0 ELSE w[i - 1] + lengths[i]
    BY <1>1, <1>4, <1>6 DEF Steps
  <2> QED
    BY <1>4, <2>1 DEF Steps
<1>8. Sums(lengths) = CHOOSE f : Equation(f)
  BY DEF Sums, N
<1>9. PICK s : s = CHOOSE f : Equation(f)
  OBVIOUS
<1>10. Equation(s)
  <2> HIDE DEF Equation
  <2> QED
    BY <1>7, <1>9
<1>11. /\ DOMAIN s = 0 .. N /\ s = [i \in DOMAIN s |-> s[i]] /\ s[0] = 0
       /\ \A i \in 1 .. N : s[i] = s[i - 1] + lengths[i]
  <2>1. DOMAIN s = 0 .. N /\ s = [i \in DOMAIN s |-> s[i]]
    BY <1>10
  <2>2. \A i \in 0 .. N : s[i] = IF i = 0 THEN 0 ELSE s[i - 1] + lengths[i]
    BY <1>10
  <2> HIDE DEF Equation
  <2>3. 0 \in 0 .. N /\ \A i \in 1 .. N : i \in 0 .. N /\ i # 0
    BY <1>1
  <2>4. s[0] = 0
    BY <2>2, <2>3
  <2>5. \A i \in 1 .. N : s[i] = s[i - 1] + lengths[i]
    BY <2>2, <2>3
  <2> QED
    BY <2>1, <2>4, <2>5
<1>12. \A i \in 0 .. N : s[i] \in Nat
  <2> DEFINE T == {i \in 0 .. N : s[i] \in Nat}
  <2>1. 0 \in T
    BY <1>1, <1>11
  <2>2. \A i \in 1 .. N : i - 1 \in T => i \in T
    BY <1>1, <1>5, <1>11
  <2> HIDE DEF T
  <2>3. 0 .. N \subseteq T
    BY <1>1, <2>1, <2>2, CountUp
  <2> QED
    BY <2>3 DEF T
<1>13. s \in [0 .. N -> Nat]
  BY <1>11, <1>12
<1>14. Sums(lengths) = s
  BY <1>8, <1>9
<1> QED
  BY <1>11, <1>13, <1>14 DEF N

(* A longer prefix has the greater sum. *)
LEMMA SumsGrow ==
  ASSUME NEW lengths \in Seq(Nat), NEW i \in 0 .. Len(lengths), NEW j \in 0 .. Len(lengths), i < j
  PROVE  Sums(lengths)[i] + lengths[i + 1] <= Sums(lengths)[j]
<1> DEFINE N == Len(lengths)
           s == Sums(lengths)
           T == {k \in 0 .. N : k <= i \/ s[i] + lengths[i + 1] <= s[k]}
<1>1. /\ s \in [0 .. N -> Nat]
      /\ \A k \in 1 .. N : s[k] = s[k - 1] + lengths[k]
  BY SumsAre
<1>2. N \in Nat /\ \A k \in 1 .. N : lengths[k] \in Nat
  OBVIOUS
<1> HIDE DEF N, s
<1>3. 0 \in T
  BY <1>2 DEF N
<1>4. ASSUME NEW k \in 1 .. N, k - 1 \in T PROVE k \in T
  <2>1. s[k] = s[k - 1] + lengths[k] /\ s[k] \in Nat /\ s[k - 1] \in Nat /\ lengths[k] \in Nat
    <3>1. k \in 0 .. N /\ k - 1 \in 0 .. N
      BY <1>2
    <3> QED
      BY <1>1, <1>2, <3>1
  <2>2. i \in 0 .. N /\ i \in Nat /\ k \in Nat
    BY <1>2 DEF N
  <2>3. CASE k <= i
    BY <1>2, <2>3
  <2>4. CASE k = i + 1
    BY <1>2, <2>1, <2>2, <2>4
  <2>5. CASE k > i + 1
    <3>1. s[i] + lengths[i + 1] <= s[k - 1]
      BY <1>4, <2>2, <2>5
    <3>2. s[i] \in Nat /\ i + 1 \in 1 .. N /\ lengths[i + 1] \in Nat
      BY <1>1, <1>2, <2>2, <2>5
    <3>3. s[i] + lengths[i + 1] <= s[k]
      <4>1. \A a, b, c, d, e \in Nat : a + b <= c /\ d = c + e => a + b <= d
        OBVIOUS
      <4> QED
        BY <2>1, <3>1, <3>2, <4>1, Zenon
    <3>4. k \in 0 .. N
      BY <1>2
    <3> QED
      BY <3>3, <3>4
  <2> QED
    BY <2>2, <2>3, <2>4, <2>5
<1> HIDE DEF T
<1>5. 0 .. N \subseteq T
  BY <1>2, <1>3, <1>4, CountUp
<1>6. j \in T /\ j \in Nat /\ i \in Nat
  BY <1>2, <1>5 DEF N
<1> QED
  BY <1>6 DEF T, s

(* Sums of what has one size. *)
LEMMA SumsOfOne ==
  ASSUME NEW lengths \in Seq(Nat), NEW c \in Nat, \A i \in 1 .. Len(lengths) : lengths[i] = c
  PROVE  \A i \in 0 .. Len(lengths) : Sums(lengths)[i] = i * c
<1> DEFINE N == Len(lengths)
           s == Sums(lengths)
           T == {k \in 0 .. N : s[k] = k * c}
<1>1. /\ s \in [0 .. N -> Nat] /\ s[0] = 0
      /\ \A k \in 1 .. N : s[k] = s[k - 1] + c
  BY SumsAre
<1>2. N \in Nat
  OBVIOUS
<1> HIDE DEF N, s
<1>3. 0 \in T
  BY <1>1, <1>2
<1>4. ASSUME NEW k \in 1 .. N, k - 1 \in T PROVE k \in T
  <2>1. k - 1 \in Nat /\ k = (k - 1) + 1 /\ k \in 0 .. N
    BY <1>2
  <2>2. k * c = (k - 1) * c + c
    <3>1. ((k - 1) + 1) * c = (k - 1) * c + c
      BY <2>1, Product
    <3> QED
      BY <2>1, <3>1
  <2>3. s[k] = k * c
    BY <1>1, <1>4, <2>2
  <2> QED
    BY <2>1, <2>3
<1> HIDE DEF T
<1>5. 0 .. N \subseteq T
  BY <1>2, <1>3, <1>4, CountUp
<1> QED
  BY <1>5 DEF T, s, N

----------------------------------------------------------------------------
(* The entries that are written. *)

Typed == input.entries \in Seq(Key \X Entry)

KeptEquation(kept) ==
  kept = [i \in 0 .. Len(input.entries) |->
            IF i = 0 THEN <<>>
            ELSE IF Skipped(input.entries[i]) THEN kept[i - 1]
            ELSE Append(kept[i - 1], input.entries[i])]

(* Those among the first i entries. *)
Kept == CHOOSE kept : KeptEquation(kept)

LEMMA KeptIs ==
  ASSUME Typed
  PROVE  /\ Kept \in [0 .. Len(input.entries) -> Seq(Key \X Entry)]
         /\ Kept[0] = <<>>
         /\ \A i \in 1 .. Len(input.entries) :
              Kept[i] = IF Skipped(input.entries[i]) THEN Kept[i - 1]
                        ELSE Append(Kept[i - 1], input.entries[i])
         /\ Written = Kept[Len(input.entries)]
<1> DEFINE entries == input.entries
           N == Len(entries)
           S == Seq(Key \X Entry)
           Step(i, b) == IF Skipped(entries[i]) THEN b ELSE Append(b, entries[i])
           step == [x \in (1 .. N) \X S |-> Step(x[1], x[2])]
<1>1. N \in Nat /\ \A i \in 1 .. N : entries[i] \in Key \X Entry
  BY DEF Typed
<1>2. ASSUME NEW i \in 1 .. N, NEW b \in S PROVE Step(i, b) \in S
  BY <1>1
<1>3. step \in [(1 .. N) \X S -> S]
  <2> HIDE DEF Step, S, N
  <2>1. ASSUME NEW x \in (1 .. N) \X S PROVE Step(x[1], x[2]) \in S
    <3>1. x[1] \in 1 .. N /\ x[2] \in S
      OBVIOUS
    <3> QED
      BY <1>2, <3>1
  <2> QED
    BY <2>1
<1>4. \A i \in 1 .. N, b \in S : step[<<i, b>>] = Step(i, b)
  <2> HIDE DEF Step, S, N
  <2> QED
    OBVIOUS
<1>5. <<>> \in S
  OBVIOUS
<1> HIDE DEF S, step
<1>6. PICK w : Steps(N, S, <<>>, step, w)
  <2> HIDE DEF N
  <2> QED
    BY <1>1, <1>3, <1>5, StepByStep
<1> HIDE DEF Step, N
<1>7. \A i \in 1 .. N : i - 1 \in 0 .. N /\ i \in 0 .. N
  BY <1>1
<1>8. \A i \in 1 .. N : w[i] = Step(i, w[i - 1])
  BY <1>4, <1>6, <1>7 DEF Steps
<1>9. w = [i \in 0 .. N |-> IF i = 0 THEN <<>> ELSE Step(i, w[i - 1])]
  <2>1. \A i \in 0 .. N : w[i] = IF i = 0 THEN <<>> ELSE Step(i, w[i - 1])
    BY <1>1, <1>6, <1>8 DEF Steps
  <2> QED
    BY <1>6, <2>1 DEF Steps
<1>10. KeptEquation(w)
  BY <1>9 DEF KeptEquation, Step, N
<1>11. KeptEquation(Kept)
  BY <1>10 DEF Kept
<1>12. PICK k : k = Kept
  OBVIOUS
<1>13. k = [i \in 0 .. N |-> IF i = 0 THEN <<>> ELSE Step(i, k[i - 1])]
  BY <1>11, <1>12 DEF KeptEquation, Step, N
<1>14. /\ DOMAIN k = 0 .. N /\ k = [i \in DOMAIN k |-> k[i]]
       /\ \A i \in 0 .. N : k[i] = IF i = 0 THEN <<>> ELSE Step(i, k[i - 1])
  BY <1>13
<1>15. k[0] = <<>> /\ \A i \in 1 .. N : k[i] = Step(i, k[i - 1])
  <2>1. 0 \in 0 .. N /\ \A i \in 1 .. N : i \in 0 .. N /\ i # 0
    BY <1>1
  <2> QED
    BY <1>14, <2>1
<1>16. \A i \in 0 .. N : k[i] \in S
  <2> DEFINE T == {i \in 0 .. N : k[i] \in S}
  <2>1. 0 \in T
    BY <1>1, <1>5, <1>15
  <2>2. \A i \in 1 .. N : i - 1 \in T => i \in T
    BY <1>2, <1>7, <1>15
  <2> HIDE DEF T
  <2>3. 0 .. N \subseteq T
    BY <1>1, <2>1, <2>2, CountUp
  <2> QED
    BY <2>3 DEF T
<1>17. k \in [0 .. N -> S]
  BY <1>14, <1>16
<1>18. Written = k[N]
  BY <1>12 DEF Written, Kept, KeptEquation, N
<1>19. \A i \in 1 .. N : k[i] = IF Skipped(entries[i]) THEN k[i - 1] ELSE Append(k[i - 1], entries[i])
  BY <1>15 DEF Step
<1> QED
  BY <1>12, <1>15, <1>17, <1>18, <1>19 DEF N, S

(* What is kept of a prefix is a prefix of what is written. *)
LEMMA KeptPrefix ==
  ASSUME Typed, NEW i \in 0 .. Len(input.entries)
  PROVE  /\ Len(Kept[i]) \in Nat /\ Len(Written) \in Nat
         /\ Len(Kept[i]) <= Len(Written)
         /\ \A m \in 1 .. Len(Kept[i]) : Kept[i][m] = Written[m]
<1> DEFINE N == Len(input.entries)
           P(s) == /\ Len(s) <= Len(Written)
                   /\ \A m \in 1 .. Len(s) : s[m] = Written[m]
           T == {d \in 0 .. N : P(Kept[N - d])}
<1>1. /\ N \in Nat /\ Written = Kept[N] /\ \A j \in 0 .. N : Kept[j] \in Seq(Key \X Entry)
      /\ \A j \in 1 .. N : Kept[j] = Kept[j - 1] \/ Kept[j] = Append(Kept[j - 1], input.entries[j])
  <2>1. N \in Nat
    BY DEF Typed
  <2> HIDE DEF N
  <2>2. /\ Kept \in [0 .. N -> Seq(Key \X Entry)] /\ Written = Kept[N]
        /\ \A j \in 1 .. N : Kept[j] = IF Skipped(input.entries[j]) THEN Kept[j - 1]
                                      ELSE Append(Kept[j - 1], input.entries[j])
    BY KeptIs DEF N
  <2>3. \A j \in 1 .. N : Kept[j] = Kept[j - 1] \/ Kept[j] = Append(Kept[j - 1], input.entries[j])
    BY <2>2
  <2> QED
    BY <2>1, <2>2, <2>3
<1>2. \A j \in 0 .. N : Len(Kept[j]) \in Nat
  BY <1>1
<1>0. \A j \in 1 .. N : input.entries[j] \in Key \X Entry
  BY DEF Typed
<1> HIDE DEF N
<1>3. 0 \in T
  <2>1. N - 0 = N /\ P(Written)
    BY <1>1, <1>2
  <2> QED
    BY <1>1, <2>1
<1>4. ASSUME NEW d \in 1 .. N, d - 1 \in T PROVE d \in T
  <2> DEFINE j == N - (d - 1)
  <2>1. j \in 1 .. N /\ j - 1 = N - d /\ P(Kept[j]) /\ j - 1 \in 0 .. N /\ j \in 0 .. N
    BY <1>1, <1>4
  <2> HIDE DEF j
  <2>2. CASE Kept[j] = Kept[j - 1]
    BY <2>1, <2>2
  <2>3. CASE Kept[j] = Append(Kept[j - 1], input.entries[j])
    <3>1. PICK s : s = Kept[j - 1]
      OBVIOUS
    <3>2. s \in Seq(Key \X Entry) /\ input.entries[j] \in Key \X Entry
      BY <1>0, <1>1, <2>1, <3>1
    <3>3. /\ Len(Kept[j]) = Len(s) + 1 /\ Len(s) \in Nat
          /\ \A m \in 1 .. Len(s) : Kept[j][m] = s[m]
      BY <2>3, <3>1, <3>2
    <3>4. \A m \in 1 .. Len(s) : m \in 1 .. Len(Kept[j])
      BY <3>3
    <3>5. Len(s) <= Len(Written)
      BY <1>1, <1>2, <2>1, <3>3
    <3>6. \A m \in 1 .. Len(s) : s[m] = Written[m]
      BY <2>1, <3>3, <3>4
    <3> QED
      BY <2>1, <3>1, <3>5, <3>6
  <2> QED
    BY <1>1, <2>1, <2>2, <2>3
<1> HIDE DEF T
<1>5. 0 .. N \subseteq T
  BY <1>1, <1>3, <1>4, CountUp
<1>6. N - i \in T /\ N - (N - i) = i
  <2>1. i \in 0 .. N
    BY DEF N
  <2> QED
    BY <1>1, <1>5, <2>1
<1>7. P(Kept[i])
  BY <1>6 DEF T
<1> QED
  BY <1>1, <1>2, <1>7 DEF N

----------------------------------------------------------------------------
(* Writing at the end of the file leaves what is there and puts each piece *)
(* where those before it end.                                              *)

InsideFile == st_size \in Nat /\ \A o \in DOMAIN file : o \in Nat /\ o < st_size

LEMMA EndsAre ==
  ASSUME NEW S, NEW pieces \in Seq(S), \A i \in 1 .. Len(pieces) : Length(pieces[i]) \in Nat
  PROVE  LET e == Ends(pieces)
         IN  /\ e \in [0 .. Len(pieces) -> Nat] /\ e[0] = 0
             /\ \A i \in 1 .. Len(pieces) : e[i] = e[i - 1] + Length(pieces[i])
             /\ \A i, j \in 0 .. Len(pieces) : i < j => e[i] + Length(pieces[i + 1]) <= e[j]
<1> DEFINE lengths == [i \in DOMAIN pieces |-> Length(pieces[i])]
           N == Len(pieces)
<1>1. lengths \in Seq(Nat) /\ Len(lengths) = N /\ \A i \in 1 .. N : lengths[i] = Length(pieces[i])
  OBVIOUS
<1>2. Ends(pieces) = Sums(lengths)
  BY DEF Ends
<1> HIDE DEF lengths
<1>3. N \in Nat /\ \A i, j \in 0 .. N : i < j => i + 1 \in 1 .. N
  OBVIOUS
<1>4. /\ Sums(lengths) \in [0 .. N -> Nat] /\ Sums(lengths)[0] = 0
      /\ \A i \in 1 .. N : Sums(lengths)[i] = Sums(lengths)[i - 1] + lengths[i]
  BY <1>1, SumsAre
<1>5. \A i, j \in 0 .. N : i < j => Sums(lengths)[i] + lengths[i + 1] <= Sums(lengths)[j]
  BY <1>1, SumsGrow
<1> HIDE DEF N
<1>6. \A i, j \in 0 .. N : i < j => Sums(lengths)[i] + Length(pieces[i + 1]) <= Sums(lengths)[j]
  BY <1>1, <1>3, <1>5
<1> QED
  BY <1>1, <1>2, <1>4, <1>6 DEF N

LEMMA WritePlaces ==
  ASSUME InsideFile, NEW S, NEW pieces \in Seq(S),
         \A i \in 1 .. Len(pieces) : Length(pieces[i]) \in Nat,
         Write(pieces)
  PROVE  /\ InsideFile'
         /\ st_size' = st_size + Ends(pieces)[Len(pieces)]
         /\ \A o \in DOMAIN file : o \in DOMAIN file' /\ file'[o] = file[o]
         /\ \A i \in 1 .. Len(pieces) : Length(pieces[i]) # 0 =>
              /\ st_size + Ends(pieces)[i - 1] \in DOMAIN file'
              /\ file'[st_size + Ends(pieces)[i - 1]] = pieces[i]
<1> DEFINE N == Len(pieces)
           e == Ends(pieces)
           places == {i \in DOMAIN pieces : Length(pieces[i]) # 0}
           placed == [o \in {OffsetOf(pieces, i) : i \in places} |->
                        pieces[CHOOSE i \in places : OffsetOf(pieces, i) = o]]
<1>1. /\ e \in [0 .. N -> Nat]
      /\ \A i, j \in 0 .. N : i < j => e[i] + Length(pieces[i + 1]) <= e[j]
      /\ N \in Nat
  BY EndsAre
<1>2. \A i \in places : i \in 1 .. N /\ i - 1 \in 0 .. N /\ i - 1 < N /\ N \in 0 .. N
                        /\ Length(pieces[i]) \in Nat /\ Length(pieces[i]) > 0 /\ i - 1 + 1 = i
  OBVIOUS
<1>3. \A i : OffsetOf(pieces, i) = st_size + e[i - 1]
  BY DEF OffsetOf
<1>4. /\ file' = [o \in DOMAIN file \cup DOMAIN placed |->
                    IF o \in DOMAIN placed THEN placed[o] ELSE file[o]]
      /\ st_size' = st_size + e[N]
  BY DEF Write
<1>5. st_size \in Nat /\ \A o \in DOMAIN file : o \in Nat /\ o < st_size
  BY DEF InsideFile
<1> HIDE DEF N, e
<1>6. ASSUME NEW i \in places
      PROVE  /\ OffsetOf(pieces, i) \in Nat /\ OffsetOf(pieces, i) >= st_size
             /\ OffsetOf(pieces, i) < st_size'
  <2>1. i - 1 \in 0 .. N /\ N \in 0 .. N /\ i - 1 < N /\ Length(pieces[i]) \in Nat
        /\ Length(pieces[i]) > 0 /\ i - 1 + 1 = i
    BY <1>2
  <2>2. e[i - 1] + Length(pieces[i]) <= e[N] /\ e[i - 1] \in Nat /\ e[N] \in Nat
    <3>1. e[i - 1] + Length(pieces[i - 1 + 1]) <= e[N]
      BY <1>1, <2>1
    <3> QED
      BY <1>1, <2>1, <3>1
  <2>3. OffsetOf(pieces, i) = st_size + e[i - 1] /\ st_size' = st_size + e[N] /\ st_size \in Nat
    BY <1>3, <1>4, <1>5
  <2>4. \A s, a, b, c \in Nat : a + b <= c /\ b > 0 =>
          s + a \in Nat /\ s + a >= s /\ s + a < s + c
    OBVIOUS
  <2> QED
    BY <2>1, <2>2, <2>3, <2>4
<1>7. ASSUME NEW i \in places, NEW j \in places, OffsetOf(pieces, i) = OffsetOf(pieces, j)
      PROVE  i = j
  <2>1. ASSUME NEW x \in places, NEW y \in places, x < y
        PROVE  OffsetOf(pieces, x) # OffsetOf(pieces, y)
    <3> HIDE DEF places
    <3>0. x \in 1 .. N /\ y \in 1 .. N
      BY <1>2
    <3>1. x - 1 \in 0 .. N /\ y - 1 \in 0 .. N /\ x - 1 < y - 1 /\ Length(pieces[x]) \in Nat
          /\ Length(pieces[x]) > 0 /\ x - 1 + 1 = x
      <4>1. Length(pieces[x]) \in Nat /\ Length(pieces[x]) > 0
        BY <1>2
      <4> QED
        BY <1>1, <2>1, <3>0, <4>1
    <3>2. e[x - 1] + Length(pieces[x]) <= e[y - 1] /\ e[x - 1] \in Nat /\ e[y - 1] \in Nat
      <4>1. e[x - 1] + Length(pieces[x - 1 + 1]) <= e[y - 1]
        BY <1>1, <3>1
      <4> QED
        BY <1>1, <3>1, <4>1
    <3> QED
      BY <1>3, <1>5, <3>1, <3>2
  <2>2. i \in Int /\ j \in Int
    BY <1>1, <1>2
  <2> HIDE DEF places
  <2> QED
    BY <1>7, <2>1, <2>2
<1>8. DOMAIN placed = {OffsetOf(pieces, i) : i \in places}
  OBVIOUS
<1>9. ASSUME NEW i \in places
      PROVE  OffsetOf(pieces, i) \in DOMAIN placed /\ placed[OffsetOf(pieces, i)] = pieces[i]
  <2> HIDE DEF places
  <2>1. (CHOOSE j \in places : OffsetOf(pieces, j) = OffsetOf(pieces, i)) = i
    BY <1>7
  <2> QED
    BY <2>1
<1> HIDE DEF placed
<1>10. \A o \in DOMAIN file : o \in DOMAIN file' /\ file'[o] = file[o]
  <2> HIDE DEF places
  <2>1. ASSUME NEW o \in DOMAIN file PROVE o \notin DOMAIN placed
    BY <1>5, <1>6, <1>8
  <2> QED
    BY <1>4, <2>1
<1>11. \A i \in places : OffsetOf(pieces, i) \in DOMAIN file' /\ file'[OffsetOf(pieces, i)] = pieces[i]
  BY <1>4, <1>9
<1>12. InsideFile'
  <2>1. st_size' \in Nat /\ st_size' >= st_size
    <3>1. e[N] \in Nat
      BY <1>1
    <3> QED
      BY <1>4, <1>5, <3>1
  <2>2. ASSUME NEW o \in DOMAIN file' PROVE o \in Nat /\ o < st_size'
    <3>1. CASE o \in DOMAIN file
      BY <1>5, <2>1, <3>1
    <3>2. CASE o \in DOMAIN placed
      <4> HIDE DEF places
      <4> QED
        BY <1>6, <1>8, <3>2
    <3> QED
      BY <1>4, <3>1, <3>2
  <2> QED
    BY <2>1, <2>2 DEF InsideFile
<1>13. ASSUME NEW i \in 1 .. N, Length(pieces[i]) # 0 PROVE i \in places
  BY <1>13 DEF N
<1> QED
  BY <1>3, <1>4, <1>10, <1>11, <1>12, <1>13 DEF N, e

(* An entry at the end of the file: its sizes, its key and, if it has one, *)
(* its value.                                                              *)
SizesPiece(kv) == [is |-> "sizes", key_size |-> KeySize[kv[1]], value_size |-> ValueSize[kv[2]]]
KeyPiece(kv) == [is |-> "key", key |-> kv[1]]
ValuePiece(kv) == [is |-> "value", value |-> kv[2]]

EntryPlaced(f, o, kv) ==
  /\ o \in DOMAIN f /\ f[o] = SizesPiece(kv)
  /\ o + SizesSize \in DOMAIN f /\ f[o + SizesSize] = KeyPiece(kv)
  /\ kv[2] # Empty => /\ o + SizesSize + KeySize[kv[1]] \in DOMAIN f
                      /\ f[o + SizesSize + KeySize[kv[1]]] = ValuePiece(kv)

LEMMA Sizes ==
  /\ SizesSize \in Nat \ {0} /\ OffsetSize \in Nat \ {0} /\ MetaSize \in Nat \ {0}
  /\ WordSize \in Nat \ {0} /\ WordBits \in Nat \ {0} /\ HashBase \in Nat \ {0}
  /\ \A kv \in Key \X Entry : /\ kv[1] \in Key /\ kv[2] \in Entry
                              /\ KeySize[kv[1]] \in Nat \ {0} /\ ValueSize[kv[2]] \in Nat
                              /\ (ValueSize[kv[2]] = 0 <=> kv[2] = Empty)
                              /\ EntryBytes(kv) \in Nat \ {0}
<1>1. /\ SizesSize \in Nat \ {0} /\ OffsetSize \in Nat \ {0} /\ MetaSize \in Nat \ {0}
      /\ WordSize \in Nat \ {0} /\ WordBits \in Nat \ {0} /\ HashBase \in Nat \ {0}
  BY SizesAssumption
<1>2. ASSUME NEW kv \in Key \X Entry
      PROVE  /\ kv[1] \in Key /\ kv[2] \in Entry
             /\ KeySize[kv[1]] \in Nat \ {0} /\ ValueSize[kv[2]] \in Nat
             /\ (ValueSize[kv[2]] = 0 <=> kv[2] = Empty)
             /\ EntryBytes(kv) \in Nat \ {0}
  <2>1. kv[1] \in Key /\ kv[2] \in Entry
    OBVIOUS
  <2>2. KeySize[kv[1]] \in Nat \ {0} /\ ValueSize[kv[2]] \in Nat
        /\ (ValueSize[kv[2]] = 0 <=> kv[2] = Empty)
    BY <2>1, SizesAssumption
  <2> QED
    BY <1>1, <2>1, <2>2 DEF EntryBytes
<1> QED
  BY <1>1, <1>2

LEMMA Lengths ==
  /\ \A kv : /\ Length(SizesPiece(kv)) = SizesSize
             /\ Length(KeyPiece(kv)) = KeySize[kv[1]]
             /\ Length(ValuePiece(kv)) = ValueSize[kv[2]]
  /\ \A bits : Length([is |-> "word", bits |-> bits]) = WordSize
  /\ \A offset : Length([is |-> "offset", offset |-> offset]) = OffsetSize
BY DEF Length, SizesPiece, KeyPiece, ValuePiece

LEMMA EntryWritten ==
  ASSUME InsideFile, NEW kv \in Key \X Entry, Write(KVPieces(kv))
  PROVE  /\ InsideFile'
         /\ st_size' = st_size + EntryBytes(kv)
         /\ \A o \in DOMAIN file : o \in DOMAIN file' /\ file'[o] = file[o]
         /\ EntryPlaced(file', st_size, kv)
<1> DEFINE pieces == KVPieces(kv)
           e == Ends(pieces)
<1>1. /\ kv[1] \in Key /\ kv[2] \in Entry
      /\ KeySize[kv[1]] \in Nat \ {0} /\ ValueSize[kv[2]] \in Nat
      /\ (ValueSize[kv[2]] = 0 <=> kv[2] = Empty)
      /\ SizesSize \in Nat \ {0}
  BY Sizes
<1>2. pieces = <<SizesPiece(kv), KeyPiece(kv), ValuePiece(kv)>>
  BY DEF KVPieces, SizesPiece, KeyPiece, ValuePiece
<1> DEFINE S == {SizesPiece(kv), KeyPiece(kv), ValuePiece(kv)}
<1> HIDE DEF pieces
<1>3. /\ pieces \in Seq(S) /\ Len(pieces) = 3
      /\ pieces[1] = SizesPiece(kv) /\ pieces[2] = KeyPiece(kv) /\ pieces[3] = ValuePiece(kv)
  <2> HIDE DEF S
  <2>1. SizesPiece(kv) \in S /\ KeyPiece(kv) \in S /\ ValuePiece(kv) \in S
    BY DEF S
  <2> QED
    BY <1>2, <2>1
<1>4. /\ Length(pieces[1]) = SizesSize /\ Length(pieces[2]) = KeySize[kv[1]]
      /\ Length(pieces[3]) = ValueSize[kv[2]]
  BY <1>3, Lengths
<1>5. \A i \in 1 .. Len(pieces) : Length(pieces[i]) \in Nat
  <2>1. \A i \in 1 .. 3 : i = 1 \/ i = 2 \/ i = 3
    OBVIOUS
  <2> QED
    BY <1>1, <1>3, <1>4, <2>1
<1> HIDE DEF S
<1>6. /\ e[0] = 0 /\ e[1] = e[0] + SizesSize /\ e[2] = e[1] + KeySize[kv[1]]
      /\ e[3] = e[2] + ValueSize[kv[2]]
  <2>1. /\ e[0] = 0 /\ \A i \in 1 .. 3 : e[i] = e[i - 1] + Length(pieces[i])
    BY <1>3, <1>5, EndsAre
  <2> HIDE DEF e
  <2>2. e[1] = e[1 - 1] + Length(pieces[1]) /\ e[2] = e[2 - 1] + Length(pieces[2])
        /\ e[3] = e[3 - 1] + Length(pieces[3])
    BY <2>1
  <2> QED
    BY <1>4, <2>1, <2>2
<1>7. /\ InsideFile'
      /\ st_size' = st_size + e[3]
      /\ \A o \in DOMAIN file : o \in DOMAIN file' /\ file'[o] = file[o]
      /\ \A i \in 1 .. 3 : Length(pieces[i]) # 0 =>
           /\ st_size + e[i - 1] \in DOMAIN file'
           /\ file'[st_size + e[i - 1]] = pieces[i]
  <2>1. Write(pieces)
    BY DEF pieces
  <2> QED
    BY <1>3, <1>5, <2>1, WritePlaces
<1>8. st_size \in Nat
  BY DEF InsideFile
<1> HIDE DEF e
<1>9. /\ st_size + e[0] \in DOMAIN file' /\ file'[st_size + e[0]] = pieces[1]
      /\ st_size + e[1] \in DOMAIN file' /\ file'[st_size + e[1]] = pieces[2]
      /\ kv[2] # Empty => /\ st_size + e[2] \in DOMAIN file'
                          /\ file'[st_size + e[2]] = pieces[3]
  <2>1. /\ Length(pieces[1]) # 0 => /\ st_size + e[1 - 1] \in DOMAIN file'
                                    /\ file'[st_size + e[1 - 1]] = pieces[1]
        /\ Length(pieces[2]) # 0 => /\ st_size + e[2 - 1] \in DOMAIN file'
                                    /\ file'[st_size + e[2 - 1]] = pieces[2]
        /\ Length(pieces[3]) # 0 => /\ st_size + e[3 - 1] \in DOMAIN file'
                                    /\ file'[st_size + e[3 - 1]] = pieces[3]
    BY <1>7
  <2> QED
    BY <1>1, <1>4, <2>1
<1>10. /\ st_size + e[0] = st_size /\ st_size + e[1] = st_size + SizesSize
       /\ st_size + e[2] = st_size + SizesSize + KeySize[kv[1]]
       /\ e[3] = EntryBytes(kv)
  BY <1>1, <1>6, <1>8 DEF EntryBytes
<1> QED
  BY <1>3, <1>7, <1>9, <1>10 DEF EntryPlaced

(* A block of pieces of one size at the end of the file. *)
LEMMA BlockWritten ==
  ASSUME InsideFile, NEW S, NEW pieces \in Seq(S), NEW c \in Nat \ {0},
         \A i \in 1 .. Len(pieces) : Length(pieces[i]) = c,
         Write(pieces)
  PROVE  /\ InsideFile'
         /\ st_size' = st_size + Len(pieces) * c
         /\ \A o \in DOMAIN file : o \in DOMAIN file' /\ file'[o] = file[o]
         /\ \A i \in 1 .. Len(pieces) : /\ st_size + (i - 1) * c \in DOMAIN file'
                                        /\ file'[st_size + (i - 1) * c] = pieces[i]
<1> DEFINE lengths == [i \in DOMAIN pieces |-> Length(pieces[i])]
           N == Len(pieces)
<1>1. lengths \in Seq(Nat) /\ Len(lengths) = N /\ \A i \in 1 .. N : lengths[i] = c
  OBVIOUS
<1>2. Ends(pieces) = Sums(lengths)
  BY DEF Ends
<1>3. N \in Nat /\ c \in Nat /\ c # 0
  OBVIOUS
<1> HIDE DEF lengths
<1>4. \A i \in 0 .. N : Ends(pieces)[i] = i * c
  BY <1>1, <1>2, <1>3, SumsOfOne
<1>5. /\ InsideFile'
      /\ st_size' = st_size + Ends(pieces)[N]
      /\ \A o \in DOMAIN file : o \in DOMAIN file' /\ file'[o] = file[o]
      /\ \A i \in 1 .. N : Length(pieces[i]) # 0 =>
           /\ st_size + Ends(pieces)[i - 1] \in DOMAIN file'
           /\ file'[st_size + Ends(pieces)[i - 1]] = pieces[i]
  <2>1. \A i \in 1 .. Len(pieces) : Length(pieces[i]) \in Nat
    OBVIOUS
  <2> QED
    BY <2>1, WritePlaces
<1>6. Ends(pieces)[N] = N * c
  BY <1>3, <1>4
<1>7. ASSUME NEW i \in 1 .. N
      PROVE  /\ st_size + (i - 1) * c \in DOMAIN file'
             /\ file'[st_size + (i - 1) * c] = pieces[i]
  <2>1. i - 1 \in 0 .. N
    BY <1>3
  <2>2. Ends(pieces)[i - 1] = (i - 1) * c
    BY <1>4, <2>1
  <2>3. Length(pieces[i]) # 0
    BY <1>3
  <2> QED
    BY <1>5, <2>2, <2>3
<1> QED
  BY <1>5, <1>6, <1>7

----------------------------------------------------------------------------
(* The invariant of the writers. *)

(* Where the entries written end. *)
Off == Sums([m \in DOMAIN Written |-> EntryBytes(Written[m])])

LEMMA OffIs ==
  ASSUME Typed
  PROVE  /\ Written \in Seq(Key \X Entry) /\ Len(Written) \in Nat
         /\ Off \in [0 .. Len(Written) -> Nat] /\ Off[0] = 0
         /\ \A m \in 1 .. Len(Written) : /\ Written[m] \in Key \X Entry
                                         /\ Off[m] = Off[m - 1] + EntryBytes(Written[m])
<1> DEFINE N == Len(input.entries)
           bytes == [m \in DOMAIN Written |-> EntryBytes(Written[m])]
<1>1. Written \in Seq(Key \X Entry)
  <2>1. N \in Nat /\ N \in 0 .. N
    BY DEF Typed
  <2> HIDE DEF N
  <2>2. Kept \in [0 .. N -> Seq(Key \X Entry)] /\ Written = Kept[N]
    BY KeptIs DEF N
  <2> QED
    BY <2>1, <2>2
<1>2. PICK w \in Seq(Key \X Entry) : w = Written
  BY <1>1
<1>3. Len(w) \in Nat /\ DOMAIN w = 1 .. Len(w) /\ \A m \in 1 .. Len(w) : w[m] \in Key \X Entry
  OBVIOUS
<1>4. \A m \in 1 .. Len(w) : EntryBytes(w[m]) \in Nat
  BY <1>3, Sizes
<1>5. bytes = [m \in 1 .. Len(w) |-> EntryBytes(w[m])]
  BY <1>2, <1>3
<1> HIDE DEF bytes
<1>6. bytes \in Seq(Nat) /\ Len(bytes) = Len(w) /\ \A m \in 1 .. Len(w) : bytes[m] = EntryBytes(w[m])
  BY <1>3, <1>4, <1>5
<1>7. Off = Sums(bytes)
  BY DEF Off, bytes
<1>8. /\ Sums(bytes) \in [0 .. Len(w) -> Nat] /\ Sums(bytes)[0] = 0
      /\ \A m \in 1 .. Len(w) : Sums(bytes)[m] = Sums(bytes)[m - 1] + bytes[m]
  BY <1>6, SumsAre
<1> QED
  BY <1>2, <1>3, <1>6, <1>7, <1>8

InputInv ==
  /\ Typed
  /\ Sorted(input.entries)
  /\ input.writer \in {"flush", "merge"}
  /\ input.key_count \in Nat \ {0}

(* The first n entries are dealt with: those to be kept lie one behind the *)
(* other from the start of the file, and are counted by both writers.      *)
Progress == n \in 0 .. Len(input.entries) /\ kv_count = Len(Kept[n])
DataPlaced == \A m \in 1 .. kv_count : EntryPlaced(file, Off[m - 1], Written[m])
DataCounted == data_size \in Nat /\ DataEnd = Off[kv_count]
DataIndexed == input.writer = "merge" => indexblock = [m \in 1 .. kv_count |-> Off[m - 1]]

(* The filter in memory. *)
Words == CeilDiv(Bits, WordBits)
Answers(k) == Found(filter, k, Bits, Hashes)
FilterInv ==
  /\ DOMAIN filter = 0 .. Words - 1
  /\ input.writer = "flush" => \A i \in DOMAIN input.entries : Answers(input.entries[i][1])
  /\ \A m \in 1 .. kv_count : Answers(Written[m][1])

(* The blocks that follow. *)
Behind == {"filter", "index", "meta", "written", "reading", "read"}
IndexStart == DataEnd + FilterBytes(filter)
WordsPlaced ==
  \A w \in 0 .. Words - 1 : /\ DataEnd + w * WordSize \in DOMAIN file
                            /\ file[DataEnd + w * WordSize] = [is |-> "word", bits |-> filter[w]]
OffsetsPlaced ==
  \A m \in 1 .. kv_count :
    /\ IndexStart + (m - 1) * OffsetSize \in DOMAIN file
    /\ file[IndexStart + (m - 1) * OffsetSize] = [is |-> "offset", offset |-> Off[m - 1]]
MetaPiece ==
  [is |-> "meta", filter_offset |-> DataEnd, filter_bits_count |-> Bits,
   filter_hash_func_count |-> Hashes, index_offset |-> IndexStart, kv_count |-> Len(Written)]
BlocksInv ==
  /\ pc \in Behind \cup {"data", "nothing"}
  /\ pc \in {"data", "filter"} => st_size = DataEnd
  /\ pc \in Behind => n = Len(input.entries) /\ kv_count > 0
  /\ pc \in Behind \ {"filter"} => WordsPlaced
  /\ pc = "index" => st_size = IndexStart
  /\ pc \in Behind \ {"filter", "index"} => OffsetsPlaced
  /\ Complete => st_size - MetaSize \in DOMAIN file /\ file[st_size - MetaSize] = MetaPiece

WriteInv ==
  /\ InputInv
  /\ InsideFile
  /\ Progress
  /\ DataPlaced
  /\ DataCounted
  /\ DataIndexed
  /\ FilterInv
  /\ BlocksInv

(* What depends on the input only, stays. *)
LEMMA InputStays ==
  ASSUME UNCHANGED input
  PROVE  /\ Written' = Written /\ Kept' = Kept /\ Off' = Off /\ Bits' = Bits /\ Hashes' = Hashes
         /\ Words' = Words /\ Typed' = Typed /\ InputInv' = InputInv
BY DEF Written, Kept, KeptEquation, Off, Bits, Hashes, Words, Typed, InputInv, Skipped

----------------------------------------------------------------------------
(* The filter in memory. *)

LEMMA BitsPositive == ASSUME InputInv PROVE Bits \in Nat \ {0}
<1> DEFINE x == input.key_count * milli_bits_per_key
<1>1. input.key_count \in Nat \ {0} /\ milli_bits_per_key \in Nat \ {0}
  BY FilterAssumption DEF InputInv
<1>2. x \in Nat /\ x >= 1
  BY <1>1
<1>3. Bits = (x + 1000 - 1) \div 1000
  BY DEF Bits, bits_count, CeilDiv
<1> HIDE DEF x
<1> QED
  BY <1>2, <1>3

LEMMA PositionsBelow ==
  ASSUME NEW k \in Key, NEW bits \in Nat \ {0}, NEW hashes, NEW p \in Positions(k, bits, hashes)
  PROVE  p \in Nat /\ p < bits
<1>1. PICK i \in 0 .. hashes - 1 : p = CalculateIthHash(k, i, bits)
  BY DEF Positions
<1> DEFINE x == HashLow[k] + i * HashHigh[k]
<1>2. HashLow[k] \in Nat /\ HashHigh[k] \in Nat /\ HashBase \in Nat \ {0}
  BY HashAssumption, Sizes
<1>3. i \in Nat
  OBVIOUS
<1>4. x \in Nat
  BY <1>2, <1>3
<1> HIDE DEF x
<1>5. x % HashBase \in Nat
  BY <1>2, <1>4, Quotient
<1> DEFINE y == x % HashBase
<1> HIDE DEF y
<1>6. y % bits \in 0 .. bits - 1
  BY <1>5, Quotient DEF y
<1> QED
  BY <1>1, <1>6 DEF CalculateIthHash, x, y

LEMMA InsertedAnswers ==
  ASSUME NEW bits \in Nat \ {0}, NEW hashes, NEW keys \in SUBSET Key, NEW words,
         DOMAIN words = 0 .. CeilDiv(bits, WordBits) - 1
  PROVE  LET words1 == Inserted(words, keys, bits, hashes)
         IN  /\ DOMAIN words1 = DOMAIN words
             /\ \A k \in keys : Found(words1, k, bits, hashes)
             /\ \A k \in Key : Found(words, k, bits, hashes) => Found(words1, k, bits, hashes)
<1> DEFINE positions == UNION {Positions(k, bits, hashes) : k \in keys}
           words1 == Set(words, positions)
<1>1. Inserted(words, keys, bits, hashes) = words1
  BY DEF Inserted
<1>2. DOMAIN words1 = DOMAIN words
  BY DEF Set
<1>3. \A w \in DOMAIN words :
        words1[w] = words[w] \cup {i % WordBits : i \in {p \in positions : p \div WordBits = w}}
  BY DEF Set
<1> HIDE DEF words1, positions
<1>4. ASSUME NEW k \in Key, NEW p \in Positions(k, bits, hashes)
      PROVE  p \div WordBits \in DOMAIN words
  <2>1. p \in Nat /\ p < bits /\ WordBits \in Nat \ {0}
    BY PositionsBelow, Sizes
  <2>2. p \div WordBits \in Nat /\ p \div WordBits <= CeilDiv(bits, WordBits) - 1
    BY <2>1, Quotient, QuotientBelow
  <2>3. CeilDiv(bits, WordBits) \in Int
    <3>1. bits + WordBits - 1 \in Nat
      BY <2>1
    <3> QED
      BY <2>1, <3>1, Quotient DEF CeilDiv
  <2> QED
    BY <2>2, <2>3
<1>5. ASSUME NEW k \in keys PROVE Found(words1, k, bits, hashes)
  <2>1. SUFFICES ASSUME NEW p \in Positions(k, bits, hashes) PROVE Test(words1, p)
    BY DEF Found
  <2>2. p \in positions
    BY DEF positions
  <2>3. p \div WordBits \in DOMAIN words
    BY <1>4
  <2> QED
    BY <1>3, <2>2, <2>3 DEF Test
<1>6. ASSUME NEW k \in Key, Found(words, k, bits, hashes) PROVE Found(words1, k, bits, hashes)
  <2>1. SUFFICES ASSUME NEW p \in Positions(k, bits, hashes) PROVE Test(words1, p)
    BY DEF Found
  <2>2. Test(words, p) /\ p \div WordBits \in DOMAIN words
    BY <1>4, <1>6 DEF Found
  <2> QED
    BY <1>3, <2>2 DEF Test
<1> QED
  BY <1>1, <1>2, <1>5, <1>6

----------------------------------------------------------------------------
(* Writing the data block. *)

LEMMA KeptNext ==
  ASSUME InputInv, Progress, n < Len(input.entries), NEW kv, kv = input.entries[n + 1]
  PROVE  /\ n \in Nat /\ n + 1 \in 1 .. Len(input.entries) /\ kv_count \in Nat
         /\ kv \in Key \X Entry
         /\ Skipped(kv) => Kept[n + 1] = Kept[n]
         /\ ~Skipped(kv) => /\ Len(Kept[n + 1]) = kv_count + 1
                            /\ kv_count + 1 \in 1 .. Len(Written)
                            /\ Written[kv_count + 1] = kv
                            /\ Off[kv_count + 1] = Off[kv_count] + EntryBytes(kv)
                            /\ Off[kv_count] \in Nat
<1> DEFINE N == Len(input.entries)
<1>1. Typed /\ N \in Nat /\ n \in 0 .. N /\ kv_count = Len(Kept[n])
  BY DEF InputInv, Typed, Progress
<1>2. kv \in Key \X Entry
  BY <1>1 DEF Typed
<1>3. n \in Nat /\ n + 1 \in 1 .. N /\ n + 1 \in 0 .. N /\ n + 1 - 1 = n
  BY <1>1
<1> HIDE DEF N
<1>4. /\ Kept[n] \in Seq(Key \X Entry)
      /\ Kept[n + 1] = IF Skipped(kv) THEN Kept[n] ELSE Append(Kept[n], kv)
  <2>1. /\ Kept \in [0 .. N -> Seq(Key \X Entry)]
        /\ \A i \in 1 .. N : Kept[i] = IF Skipped(input.entries[i]) THEN Kept[i - 1]
                                       ELSE Append(Kept[i - 1], input.entries[i])
    BY <1>1, KeptIs DEF N
  <2>2. Kept[n + 1] = IF Skipped(input.entries[n + 1]) THEN Kept[n + 1 - 1]
                      ELSE Append(Kept[n + 1 - 1], input.entries[n + 1])
    BY <1>3, <2>1
  <2> QED
    BY <1>1, <1>3, <2>1, <2>2
<1>5. kv_count \in Nat
  BY <1>1, <1>4
<1>6. ASSUME ~Skipped(kv)
      PROVE  /\ Len(Kept[n + 1]) = kv_count + 1
             /\ kv_count + 1 \in 1 .. Len(Written)
             /\ Written[kv_count + 1] = kv
             /\ Off[kv_count + 1] = Off[kv_count] + EntryBytes(kv)
             /\ Off[kv_count] \in Nat
  <2>1. PICK s : s = Kept[n + 1]
    OBVIOUS
  <2>2. Len(s) = kv_count + 1 /\ s[kv_count + 1] = kv
    BY <1>1, <1>2, <1>4, <1>6, <2>1
  <2>3. Len(s) <= Len(Written) /\ Len(Written) \in Nat /\ \A m \in 1 .. Len(s) : s[m] = Written[m]
    BY <1>1, <1>3, <2>1, KeptPrefix DEF N
  <2>4. kv_count + 1 \in 1 .. Len(Written) /\ Written[kv_count + 1] = kv
    BY <1>5, <2>2, <2>3
  <2>5. kv_count + 1 - 1 = kv_count /\ kv_count \in 0 .. Len(Written)
    BY <1>5, <2>3, <2>4
  <2>6. /\ Off \in [0 .. Len(Written) -> Nat]
        /\ \A m \in 1 .. Len(Written) : Off[m] = Off[m - 1] + EntryBytes(Written[m])
    BY <1>1, OffIs
  <2> QED
    BY <2>1, <2>2, <2>4, <2>5, <2>6
<1> QED
  BY <1>2, <1>3, <1>4, <1>5, <1>6 DEF N

(* What the file holds already, an entry at its end does not disturb.      *)
LEMMA PlacedStays ==
  ASSUME NEW f, NEW g, \A o \in DOMAIN f : o \in DOMAIN g /\ g[o] = f[o],
         NEW o, NEW kv, EntryPlaced(f, o, kv)
  PROVE  EntryPlaced(g, o, kv)
BY DEF EntryPlaced

LEMMA EntryStep ==
  ASSUME WriteInv, n < Len(input.entries), NEW kv, kv = input.entries[n + 1], ~Skipped(kv),
         pc = "data", Write(KVPieces(kv)), n' = n + 1, kv_count' = kv_count + 1, UNCHANGED input
  PROVE  /\ InsideFile' /\ Progress' /\ DataPlaced'
         /\ st_size' = Off[kv_count + 1]
<1>1. /\ n \in Nat /\ n + 1 \in 1 .. Len(input.entries) /\ kv_count \in Nat
      /\ kv \in Key \X Entry
      /\ Len(Kept[n + 1]) = kv_count + 1
      /\ kv_count + 1 \in 1 .. Len(Written)
      /\ Written[kv_count + 1] = kv
      /\ Off[kv_count + 1] = Off[kv_count] + EntryBytes(kv)
      /\ Off[kv_count] \in Nat
  BY KeptNext DEF WriteInv
<1>2. st_size = Off[kv_count]
  BY DEF WriteInv, BlocksInv, DataCounted
<1>3. /\ InsideFile'
      /\ st_size' = st_size + EntryBytes(kv)
      /\ \A o \in DOMAIN file : o \in DOMAIN file' /\ file'[o] = file[o]
      /\ EntryPlaced(file', st_size, kv)
  BY <1>1, EntryWritten DEF WriteInv
<1>4. Written' = Written /\ Kept' = Kept /\ Off' = Off
  BY InputStays
<1>5. Progress'
  <2>1. n' \in 0 .. Len(input.entries)
    BY <1>1
  <2> QED
    BY <1>1, <1>4, <2>1 DEF Progress
<1>6. DataPlaced'
  <2>1. SUFFICES ASSUME NEW m \in 1 .. kv_count + 1
                 PROVE  EntryPlaced(file', Off[m - 1], Written[m])
    BY <1>4 DEF DataPlaced
  <2>2. CASE m = kv_count + 1
    <3>1. m - 1 = kv_count
      BY <1>1, <2>2
    <3> QED
      BY <1>1, <1>2, <1>3, <2>2, <3>1
  <2>3. CASE m # kv_count + 1
    <3>1. m \in 1 .. kv_count
      BY <1>1, <2>3
    <3>2. EntryPlaced(file, Off[m - 1], Written[m])
      BY <3>1 DEF WriteInv, DataPlaced
    <3> QED
      BY <1>3, <3>2, PlacedStays
  <2> QED
    BY <2>2, <2>3
<1> QED
  BY <1>1, <1>2, <1>3, <1>5, <1>6

LEMMA WriteInvInit == Init => WriteInv
<1> SUFFICES ASSUME Init PROVE WriteInv
  OBVIOUS
<1>1. /\ input \in Inputs /\ pc = "data" /\ n = 0 /\ kv_count = 0 /\ data_size = 0
      /\ indexblock = <<>> /\ DOMAIN file = {} /\ st_size = 0
  BY DEF Init
<1>2. InputInv
  <2>1. PICK table \in Tables :
          input \in [writer : {"flush", "merge"}, entries : {table}, skip_deleted : BOOLEAN,
                     key_count : Max({1, Len(table)}) .. kv_count_limit]
    BY <1>1 DEF Inputs
  <2>2. PICK count \in 0 .. kv_count_limit : table \in [1 .. count -> Key \X Entry]
    BY DEF Tables
  <2>3. table \in Seq(Key \X Entry) /\ Len(table) = count /\ Sorted(table)
    BY <2>2, FilterAssumption DEF Tables
  <2>4. Max({1, count}) >= 1 /\ Max({1, count}) \in Int
    <3> DEFINE S == {1, count}
    <3>1. \E x \in S : \A y \in S : x >= y
      <4>1. CASE count >= 1
        BY <4>1
      <4>2. CASE count < 1
        BY <4>2
      <4> QED
        BY <4>1, <4>2
    <3>2. Max(S) \in S /\ \A y \in S : Max(S) >= y
      <4> HIDE DEF S
      <4> QED
        BY <3>1 DEF Max
    <3> QED
      BY <3>2
  <2>5. input.key_count \in Nat \ {0}
    BY <2>1, <2>3, <2>4
  <2> QED
    BY <2>1, <2>3, <2>5 DEF InputInv, Typed
<1>3. InsideFile
  BY <1>1 DEF InsideFile
<1>4. Typed
  BY <1>2 DEF InputInv
<1>5. /\ Kept[0] = <<>> /\ Off[0] = 0 /\ Len(input.entries) \in Nat
  BY <1>4, KeptIs, OffIs DEF Typed
<1>6. Progress
  BY <1>1, <1>5 DEF Progress
<1>7. DataPlaced /\ DataIndexed
  BY <1>1 DEF DataPlaced, DataIndexed
<1>8. DataEnd = 0 /\ DataCounted
  BY <1>1, <1>5, Sizes DEF DataCounted, DataEnd
<1>9. FilterInv
  <2> DEFINE words == NoBits(Bits)
             keys == {input.entries[i][1] : i \in DOMAIN input.entries}
  <2>1. DOMAIN words = 0 .. Words - 1
    BY DEF NoBits, Words
  <2>2. keys \in SUBSET Key
    <3>1. \A i \in DOMAIN input.entries : input.entries[i] \in Key \X Entry
      BY <1>4 DEF Typed
    <3> QED
      BY <3>1, Sizes
  <2>3. Bits \in Nat \ {0}
    BY <1>2, BitsPositive
  <2>4. filter = IF input.writer = "merge" THEN words ELSE Inserted(words, keys, Bits, Hashes)
    BY DEF Init
  <2>5. \A m \in 1 .. kv_count : Answers(Written[m][1])
    BY <1>1
  <2>6. /\ DOMAIN Inserted(words, keys, Bits, Hashes) = DOMAIN words
        /\ \A k \in keys : Found(Inserted(words, keys, Bits, Hashes), k, Bits, Hashes)
    <3> HIDE DEF words, keys
    <3> QED
      BY <2>1, <2>2, <2>3, InsertedAnswers DEF Words
  <2>7. DOMAIN filter = 0 .. Words - 1
    BY <2>1, <2>4, <2>6
  <2>8. ASSUME input.writer = "flush", NEW i \in DOMAIN input.entries
        PROVE  Answers(input.entries[i][1])
    BY <2>4, <2>6, <2>8 DEF Answers
  <2> QED
    BY <2>5, <2>7, <2>8 DEF FilterInv
<1>10. BlocksInv
  BY <1>1, <1>8 DEF BlocksInv, Behind, Complete
<1> QED
  BY <1>2, <1>3, <1>6, <1>7, <1>8, <1>9, <1>10 DEF WriteInv

LEMMA SkipEntryKeeps == ASSUME WriteInv, SkipEntry PROVE WriteInv'
<1> DEFINE kv == input.entries[n + 1]
<1>1. /\ pc = "data" /\ n < Len(input.entries) /\ Skipped(kv) /\ n' = n + 1
      /\ UNCHANGED <<input, pc, kv_count, data_size, indexblock, filter, file, st_size>>
  BY DEF SkipEntry
<1>2. /\ n \in Nat /\ n + 1 \in 1 .. Len(input.entries) /\ Kept[n + 1] = Kept[n]
  BY <1>1, KeptNext DEF WriteInv
<1>3. /\ Written' = Written /\ Kept' = Kept /\ Off' = Off /\ Bits' = Bits /\ Hashes' = Hashes
      /\ Words' = Words /\ InputInv' = InputInv
  BY <1>1, InputStays
<1>4. Progress'
  <2>1. n' \in 0 .. Len(input.entries)
    BY <1>1, <1>2
  <2> QED
    BY <1>1, <1>2, <1>3, <2>1 DEF WriteInv, Progress
<1>5. /\ InsideFile' /\ DataPlaced' /\ DataCounted' /\ DataIndexed' /\ FilterInv'
  BY <1>1, <1>3 DEF WriteInv, InsideFile, DataPlaced, DataCounted, DataEnd, DataIndexed, FilterInv, Answers
<1>6. BlocksInv'
  BY <1>1 DEF WriteInv, BlocksInv, Behind, Complete, DataEnd
<1> QED
  BY <1>3, <1>4, <1>5, <1>6 DEF WriteInv

LEMMA FlushEntryKeeps == ASSUME WriteInv, FlushEntry PROVE WriteInv'
<1> DEFINE kv == input.entries[n + 1]
<1>0. PICK e : e = kv
  OBVIOUS
<1>1. /\ pc = "data" /\ n < Len(input.entries) /\ ~Skipped(e) /\ Write(KVPieces(e))
      /\ n' = n + 1 /\ kv_count' = kv_count + 1 /\ input.writer = "flush"
      /\ data_size' = data_size + KeySize[e[1]] + ValueSize[e[2]]
      /\ UNCHANGED <<input, pc, indexblock, filter>>
  BY <1>0 DEF FlushEntry
<1>9. e = input.entries[n + 1]
  BY <1>0
<1> HIDE DEF kv
<1>2. /\ InsideFile' /\ Progress' /\ DataPlaced' /\ st_size' = Off[kv_count + 1]
  BY <1>1, <1>9, EntryStep
<1>3. /\ n + 1 \in 1 .. Len(input.entries) /\ kv_count \in Nat /\ e \in Key \X Entry
      /\ kv_count + 1 \in 1 .. Len(Written) /\ Written[kv_count + 1] = e
      /\ Off[kv_count + 1] = Off[kv_count] + EntryBytes(e) /\ Off[kv_count] \in Nat
  BY <1>1, <1>9, KeptNext DEF WriteInv
<1>4. /\ Written' = Written /\ Kept' = Kept /\ Off' = Off /\ Bits' = Bits /\ Hashes' = Hashes
      /\ Words' = Words /\ InputInv' = InputInv
  BY <1>1, InputStays
<1>5. DataCounted' /\ DataEnd' = st_size'
  <2>1. data_size \in Nat /\ data_size + kv_count * SizesSize = Off[kv_count]
    BY <1>1 DEF WriteInv, DataCounted, DataEnd
  <2>2. /\ KeySize[e[1]] \in Nat /\ ValueSize[e[2]] \in Nat /\ SizesSize \in Nat
        /\ EntryBytes(e) = KeySize[e[1]] + ValueSize[e[2]] + SizesSize
    BY <1>3, Sizes DEF EntryBytes
  <2>3. (kv_count + 1) * SizesSize = kv_count * SizesSize + SizesSize /\ kv_count * SizesSize \in Nat
    BY <1>3, <2>2, Product
  <2>4. data_size' \in Nat /\ data_size' + (kv_count + 1) * SizesSize = Off[kv_count + 1]
    <3>1. data_size' = data_size + KeySize[e[1]] + ValueSize[e[2]]
      BY <1>1
    <3>2. Off[kv_count + 1] = Off[kv_count] + EntryBytes(e)
      BY <1>3
    <3> QED
      BY <2>1, <2>2, <2>3, <3>1, <3>2
  <2>5. DataEnd' = data_size' + (kv_count + 1) * SizesSize
    BY <1>1 DEF DataEnd
  <2> QED
    BY <1>1, <1>2, <1>4, <2>4, <2>5 DEF DataCounted
<1>6. DataIndexed'
  BY <1>1 DEF DataIndexed
<1>7. FilterInv'
  <2>1. FilterInv /\ \A i \in DOMAIN input.entries : Answers(input.entries[i][1])
    BY <1>1 DEF WriteInv, FilterInv
  <2>2. Answers(e[1])
    <3>1. n + 1 \in DOMAIN input.entries
      BY <1>3 DEF WriteInv, InputInv, Typed
    <3> QED
      BY <1>9, <2>1, <3>1
  <2>3. \A k : Answers(k)' = Found(filter, k, Bits, Hashes)
    BY <1>1, <1>4 DEF Answers
  <2>4. ASSUME NEW m \in 1 .. kv_count + 1 PROVE Answers(Written[m][1])
    <3>1. CASE m = kv_count + 1
      BY <1>3, <2>2, <3>1
    <3>2. CASE m # kv_count + 1
      <4>1. m \in 1 .. kv_count
        BY <1>3, <3>2
      <4> QED
        BY <2>1, <4>1 DEF FilterInv
    <3> QED
      BY <3>1, <3>2
  <2> QED
    BY <1>1, <1>4, <2>1, <2>4 DEF FilterInv, Answers
<1>8. BlocksInv'
  BY <1>1, <1>5 DEF BlocksInv, Behind, Complete
<1> QED
  BY <1>2, <1>4, <1>5, <1>6, <1>7, <1>8 DEF WriteInv

LEMMA MergeEntryKeeps == ASSUME WriteInv, MergeEntry PROVE WriteInv'
<1> DEFINE kv == input.entries[n + 1]
<1>0. PICK e : e = kv
  OBVIOUS
<1>1. /\ pc = "data" /\ n < Len(input.entries) /\ ~Skipped(e) /\ Write(KVPieces(e))
      /\ n' = n + 1 /\ kv_count' = kv_count + 1 /\ input.writer = "merge"
      /\ data_size' = data_size + KeySize[e[1]] + ValueSize[e[2]] + SizesSize
      /\ filter' = Inserted(filter, {e[1]}, Bits, Hashes)
      /\ indexblock' = Append(indexblock, data_size)
      /\ UNCHANGED <<input, pc>>
  BY <1>0 DEF MergeEntry
<1>9. e = input.entries[n + 1]
  BY <1>0
<1> HIDE DEF kv
<1>2. /\ InsideFile' /\ Progress' /\ DataPlaced' /\ st_size' = Off[kv_count + 1]
  BY <1>1, <1>9, EntryStep
<1>3. /\ n + 1 \in 1 .. Len(input.entries) /\ kv_count \in Nat /\ e \in Key \X Entry
      /\ kv_count + 1 \in 1 .. Len(Written) /\ Written[kv_count + 1] = e
      /\ Off[kv_count + 1] = Off[kv_count] + EntryBytes(e) /\ Off[kv_count] \in Nat
  BY <1>1, <1>9, KeptNext DEF WriteInv
<1>4. /\ Written' = Written /\ Kept' = Kept /\ Off' = Off /\ Bits' = Bits /\ Hashes' = Hashes
      /\ Words' = Words /\ InputInv' = InputInv
  BY <1>1, InputStays
<1>5. DataCounted' /\ DataEnd' = st_size' /\ data_size = Off[kv_count]
  <2>1. data_size \in Nat /\ data_size = Off[kv_count]
    BY <1>1 DEF WriteInv, DataCounted, DataEnd
  <2>2. /\ KeySize[e[1]] \in Nat /\ ValueSize[e[2]] \in Nat /\ SizesSize \in Nat
        /\ EntryBytes(e) = KeySize[e[1]] + ValueSize[e[2]] + SizesSize
    BY <1>3, Sizes DEF EntryBytes
  <2>3. data_size' \in Nat /\ data_size' = Off[kv_count + 1]
    <3>1. data_size' = data_size + KeySize[e[1]] + ValueSize[e[2]] + SizesSize
      BY <1>1
    <3>2. Off[kv_count + 1] = Off[kv_count] + EntryBytes(e)
      BY <1>3
    <3> QED
      BY <2>1, <2>2, <3>1, <3>2
  <2>4. DataEnd' = data_size'
    BY <1>1 DEF DataEnd
  <2> QED
    BY <1>1, <1>2, <1>4, <2>1, <2>3, <2>4 DEF DataCounted
<1>6. DataIndexed'
  <2>1. indexblock = [m \in 1 .. kv_count |-> Off[m - 1]]
    BY <1>1 DEF WriteInv, DataIndexed
  <2> DEFINE ib == [m \in 1 .. kv_count |-> Off[m - 1]]
  <2>2. /\ Typed /\ Off \in [0 .. Len(Written) -> Nat] /\ Len(Written) \in Nat
    BY OffIs DEF WriteInv, InputInv
  <2>3. ib \in Seq(Nat) /\ Len(ib) = kv_count
    <3>1. \A m \in 1 .. kv_count : m - 1 \in 0 .. Len(Written)
      BY <1>3, <2>2
    <3>2. \A m \in 1 .. kv_count : Off[m - 1] \in Nat
      BY <2>2, <3>1
    <3>3. kv_count \in Nat
      BY <1>3
    <3> QED
      BY <3>2, <3>3
  <2>4. Append(ib, Off[kv_count]) = [m \in 1 .. kv_count + 1 |-> Off[m - 1]]
    <3>1. \A m \in 1 .. kv_count + 1 : m = kv_count + 1 \/ m \in 1 .. kv_count
      BY <1>3
    <3>2. kv_count + 1 - 1 = kv_count
      BY <1>3
    <3> DEFINE a == Append(ib, Off[kv_count])
    <3>3. /\ a \in Seq(Nat) /\ Len(a) = kv_count + 1
          /\ a[kv_count + 1] = Off[kv_count]
          /\ \A m \in 1 .. kv_count : a[m] = ib[m]
      <4> HIDE DEF ib
      <4> QED
        BY <1>3, <2>3
    <3> HIDE DEF a
    <3>4. \A m \in 1 .. kv_count + 1 : a[m] = Off[m - 1]
      <4>1. ASSUME NEW m \in 1 .. kv_count + 1 PROVE a[m] = Off[m - 1]
        <5>1. CASE m = kv_count + 1
          <6>1. m - 1 = kv_count /\ a[m] = Off[kv_count]
            BY <1>3, <3>2, <3>3, <5>1
          <6> QED
            BY <6>1
        <5>2. CASE m \in 1 .. kv_count
          <6>1. a[m] = ib[m]
            BY <3>3, <5>2
          <6> QED
            BY <5>2, <6>1
        <5> QED
          BY <3>1, <5>1, <5>2
      <4> QED
        BY <4>1
    <3>5. DOMAIN a = 1 .. kv_count + 1 /\ a = [m \in DOMAIN a |-> a[m]]
      BY <3>3
    <3>6. a = [m \in 1 .. kv_count + 1 |-> Off[m - 1]]
      BY <3>4, <3>5
    <3> QED
      BY <3>6 DEF a
  <2> QED
    BY <1>1, <1>4, <1>5, <2>1, <2>4 DEF DataIndexed
<1>7. FilterInv'
  <2>1. FilterInv /\ Typed /\ Bits \in Nat \ {0}
    BY BitsPositive DEF WriteInv, InputInv
  <2>2. e[1] \in Key /\ {e[1]} \in SUBSET Key
    BY <1>3, Sizes
  <2>3. DOMAIN filter = 0 .. CeilDiv(Bits, WordBits) - 1
    BY <2>1 DEF FilterInv, Words
  <2>4. /\ DOMAIN filter' = DOMAIN filter
        /\ Found(filter', e[1], Bits, Hashes)
        /\ \A k \in Key : Found(filter, k, Bits, Hashes) => Found(filter', k, Bits, Hashes)
    <3> DEFINE ks == {e[1]}
               words1 == Inserted(filter, ks, Bits, Hashes)
    <3>1. ks \in SUBSET Key /\ e[1] \in ks
      BY <2>2
    <3>2. filter' = words1
      BY <1>1
    <3> HIDE DEF ks
    <3>3. /\ DOMAIN words1 = DOMAIN filter
          /\ \A k \in ks : Found(words1, k, Bits, Hashes)
          /\ \A k \in Key : Found(filter, k, Bits, Hashes) => Found(words1, k, Bits, Hashes)
      BY <2>1, <2>3, <3>1, InsertedAnswers
    <3> HIDE DEF words1
    <3> QED
      BY <3>1, <3>2, <3>3
  <2>5. ASSUME NEW m \in 1 .. kv_count + 1 PROVE Found(filter', Written[m][1], Bits, Hashes)
    <3>1. CASE m = kv_count + 1
      BY <1>3, <2>4, <3>1
    <3>2. CASE m # kv_count + 1
      <4>1. m \in 1 .. kv_count /\ m \in 1 .. Len(Written)
        BY <1>3, <3>2, <2>1, OffIs
      <4>2. Written[m] \in Key \X Entry
        BY <2>1, <4>1, OffIs
      <4>3. Written[m][1] \in Key /\ Found(filter, Written[m][1], Bits, Hashes)
        BY <2>1, <4>1, <4>2, Sizes DEF FilterInv, Answers
      <4> QED
        BY <2>4, <4>3
    <3> QED
      BY <3>1, <3>2
  <2> QED
    BY <1>1, <1>4, <2>3, <2>4, <2>5 DEF FilterInv, Answers, Words
<1>8. BlocksInv'
  BY <1>1, <1>5 DEF BlocksInv, Behind, Complete
<1> QED
  BY <1>2, <1>4, <1>5, <1>6, <1>7, <1>8 DEF WriteInv

----------------------------------------------------------------------------
(* Writing the blocks behind the data, and reading. *)

LEMMA Counts ==
  ASSUME WriteInv
  PROVE  /\ kv_count \in Nat /\ kv_count <= Len(Written) /\ Len(Written) \in Nat
         /\ n = Len(input.entries) => kv_count = Len(Written)
<1>1. Typed /\ n \in 0 .. Len(input.entries) /\ kv_count = Len(Kept[n])
  BY DEF WriteInv, InputInv, Progress
<1>2. Len(Kept[n]) \in Nat /\ Len(Written) \in Nat /\ Len(Kept[n]) <= Len(Written)
  BY <1>1, KeptPrefix
<1>3. Written = Kept[Len(input.entries)]
  BY <1>1, KeptIs
<1> QED
  BY <1>1, <1>2, <1>3

LEMMA FilterSize ==
  ASSUME WriteInv
  PROVE  /\ Words \in Nat /\ Cardinality(DOMAIN filter) = Words
         /\ FilterBytes(filter) = Words * WordSize
         /\ DataEnd \in Nat /\ IndexStart \in Nat
<1>1. Bits \in Nat \ {0} /\ WordBits \in Nat \ {0} /\ WordSize \in Nat \ {0}
  BY BitsPositive, Sizes DEF WriteInv
<1>2. Words \in Nat
  <2>1. Bits + WordBits - 1 \in Nat
    BY <1>1
  <2> QED
    BY <1>1, <2>1, Quotient DEF Words, CeilDiv
<1>3. Cardinality(DOMAIN filter) = Words
  <2>1. DOMAIN filter = 0 .. Words - 1
    BY DEF WriteInv, FilterInv
  <2>2. Cardinality(0 .. Words - 1) = IF 0 > Words - 1 THEN 0 ELSE Words - 1 - 0 + 1
    BY <1>2, FS_Interval
  <2> QED
    BY <1>2, <2>1, <2>2
<1>4. FilterBytes(filter) = Words * WordSize /\ Words * WordSize \in Nat
  BY <1>1, <1>2, <1>3, Product DEF FilterBytes
<1>5. DataEnd \in Nat
  <2>1. /\ Off \in [0 .. Len(Written) -> Nat] /\ kv_count \in 0 .. Len(Written)
    BY Counts, OffIs DEF WriteInv, InputInv
  <2> QED
    BY <2>1 DEF WriteInv, DataCounted
<1> QED
  BY <1>2, <1>3, <1>4, <1>5 DEF IndexStart

(* More at the end of the file, and nothing else. *)
LEMMA Extended ==
  ASSUME WriteInv, UNCHANGED <<input, n, kv_count, data_size, indexblock, filter>>,
         \A o \in DOMAIN file : o \in DOMAIN file' /\ file'[o] = file[o]
  PROVE  /\ InputInv' /\ Progress' /\ DataPlaced' /\ DataCounted' /\ DataIndexed' /\ FilterInv'
         /\ WordsPlaced => WordsPlaced'
         /\ OffsetsPlaced => OffsetsPlaced'
         /\ DataEnd' = DataEnd /\ IndexStart' = IndexStart /\ MetaPiece' = MetaPiece
<1>1. /\ Written' = Written /\ Kept' = Kept /\ Off' = Off /\ Bits' = Bits /\ Hashes' = Hashes
      /\ Words' = Words /\ InputInv' = InputInv
  BY InputStays
<1>2. InputInv' /\ Progress' /\ DataCounted' /\ DataIndexed' /\ FilterInv'
  BY <1>1 DEF WriteInv, Progress, DataCounted, DataEnd, DataIndexed, FilterInv, Answers
<1>3. DataEnd' = DataEnd /\ IndexStart' = IndexStart
  BY DEF DataEnd, IndexStart
<1>4. MetaPiece' = MetaPiece
  BY <1>1, <1>3 DEF MetaPiece
<1>5. DataPlaced'
  <2>1. SUFFICES ASSUME NEW m \in 1 .. kv_count PROVE EntryPlaced(file', Off[m - 1], Written[m])
    BY <1>1 DEF DataPlaced
  <2>2. EntryPlaced(file, Off[m - 1], Written[m])
    BY DEF WriteInv, DataPlaced
  <2> QED
    BY <2>2, PlacedStays
<1>6. WordsPlaced => WordsPlaced'
  BY <1>1, <1>3 DEF WordsPlaced
<1>7. OffsetsPlaced => OffsetsPlaced'
  BY <1>1, <1>3 DEF OffsetsPlaced
<1> QED
  BY <1>2, <1>3, <1>4, <1>5, <1>6, <1>7

LEMMA EndOfDataKeeps == ASSUME WriteInv, EndOfData PROVE WriteInv'
<1>1. /\ pc = "data" /\ n = Len(input.entries) /\ pc' = IF kv_count = 0 THEN "nothing" ELSE "filter"
      /\ UNCHANGED <<input, n, kv_count, data_size, indexblock, filter, file, st_size>>
  BY DEF EndOfData
<1>2. /\ InputInv' /\ Progress' /\ DataPlaced' /\ DataCounted' /\ DataIndexed' /\ FilterInv'
      /\ DataEnd' = DataEnd
  BY <1>1, Extended
<1>3. InsideFile'
  BY <1>1 DEF WriteInv, InsideFile
<1>4. BlocksInv'
  BY <1>1, <1>2, Counts DEF WriteInv, BlocksInv, Behind, Complete
<1> QED
  BY <1>2, <1>3, <1>4 DEF WriteInv

LEMMA FilterBlockKeeps == ASSUME WriteInv, MakeFilterBlockInFd PROVE WriteInv'
<1> DEFINE N == Cardinality(DOMAIN filter)
           pieces == [w \in 1 .. N |-> [is |-> "word", bits |-> filter[w - 1]]]
           S == {[is |-> "word", bits |-> filter[w - 1]] : w \in 1 .. N}
<1>1. /\ pc = "filter" /\ pc' = "index" /\ Write(pieces)
      /\ UNCHANGED <<input, n, kv_count, data_size, indexblock, filter>>
  BY DEF MakeFilterBlockInFd
<1>2. /\ Words \in Nat /\ N = Words /\ FilterBytes(filter) = Words * WordSize
      /\ WordSize \in Nat \ {0}
  BY FilterSize, Sizes
<1>3. /\ pieces \in Seq(S) /\ Len(pieces) = Words
      /\ \A i \in 1 .. Words : pieces[i] = [is |-> "word", bits |-> filter[i - 1]]
  <2> HIDE DEF N
  <2>1. N \in Nat
    BY <1>2
  <2>2. DOMAIN pieces = 1 .. N /\ \A w \in 1 .. N : pieces[w] = [is |-> "word", bits |-> filter[w - 1]]
    OBVIOUS
  <2>3. \A w \in 1 .. N : pieces[w] \in S
    OBVIOUS
  <2>4. pieces = [w \in 1 .. N |-> pieces[w]]
    OBVIOUS
  <2> HIDE DEF pieces, S
  <2>5. pieces \in [1 .. N -> S]
    BY <2>3, <2>4
  <2>6. pieces \in Seq(S) /\ Len(pieces) = N
    BY <2>1, <2>5
  <2> QED
    BY <1>2, <2>2, <2>6
<1> HIDE DEF pieces, S, N
<1>4. \A i \in 1 .. Len(pieces) : Length(pieces[i]) = WordSize
  BY <1>3, Lengths
<1>5. /\ InsideFile'
      /\ st_size' = st_size + Words * WordSize
      /\ \A o \in DOMAIN file : o \in DOMAIN file' /\ file'[o] = file[o]
      /\ \A i \in 1 .. Words : /\ st_size + (i - 1) * WordSize \in DOMAIN file'
                               /\ file'[st_size + (i - 1) * WordSize] = pieces[i]
  <2>1. InsideFile
    BY DEF WriteInv
  <2> QED
    BY <1>1, <1>2, <1>3, <1>4, <2>1, BlockWritten
<1>6. /\ InputInv' /\ Progress' /\ DataPlaced' /\ DataCounted' /\ DataIndexed' /\ FilterInv'
      /\ DataEnd' = DataEnd /\ IndexStart' = IndexStart /\ Words' = Words
  BY <1>1, <1>5, Extended, InputStays
<1>7. st_size = DataEnd
  BY <1>1 DEF WriteInv, BlocksInv
<1>8. WordsPlaced'
  <2>1. SUFFICES ASSUME NEW w \in 0 .. Words - 1
                 PROVE  /\ DataEnd + w * WordSize \in DOMAIN file'
                        /\ file'[DataEnd + w * WordSize] = [is |-> "word", bits |-> filter[w]]
    BY <1>1, <1>6 DEF WordsPlaced
  <2>2. w + 1 \in 1 .. Words /\ w + 1 - 1 = w
    BY <1>2
  <2> QED
    BY <1>3, <1>5, <1>7, <2>2
<1>9. st_size' = IndexStart'
  BY <1>2, <1>5, <1>6, <1>7 DEF IndexStart
<1>10. BlocksInv'
  BY <1>1, <1>8, <1>9 DEF WriteInv, BlocksInv, Behind, Complete
<1> QED
  BY <1>5, <1>6, <1>10 DEF WriteInv

LEMMA IndexBlockKeeps == ASSUME WriteInv, WriteIndexBlock PROVE WriteInv'
<1> DEFINE offsets == IF input.writer = "flush" THEN FlushOffsets ELSE indexblock
           pieces == [m \in DOMAIN offsets |-> [is |-> "offset", offset |-> offsets[m]]]
           S == {[is |-> "offset", offset |-> offsets[m]] : m \in DOMAIN offsets}
<1>1. /\ pc = "index" /\ pc' = "meta" /\ Write(pieces)
      /\ UNCHANGED <<input, n, kv_count, data_size, indexblock, filter>>
  BY DEF WriteIndexBlock
<1>2. kv_count = Len(Written) /\ kv_count \in Nat /\ OffsetSize \in Nat \ {0}
  BY <1>1, Counts, Sizes DEF WriteInv, BlocksInv, Behind
<1>3. offsets = [m \in 1 .. kv_count |-> Off[m - 1]]
  <2>1. CASE input.writer = "flush"
    <3>1. DOMAIN Written = 1 .. kv_count
      <4>1. Written \in Seq(Key \X Entry)
        BY OffIs DEF WriteInv, InputInv
      <4> QED
        BY <1>2, <4>1
    <3> QED
      BY <2>1, <3>1 DEF FlushOffsets, Off
  <2>2. CASE input.writer = "merge"
    BY <2>2 DEF WriteInv, DataIndexed
  <2> QED
    BY <2>1, <2>2 DEF WriteInv, InputInv
<1> HIDE DEF offsets
<1>4. /\ pieces \in Seq(S) /\ Len(pieces) = kv_count
      /\ \A i \in 1 .. kv_count : pieces[i] = [is |-> "offset", offset |-> Off[i - 1]]
  <2>1. DOMAIN offsets = 1 .. kv_count /\ \A i \in 1 .. kv_count : offsets[i] = Off[i - 1]
    BY <1>3
  <2> QED
    BY <1>2, <2>1
<1> HIDE DEF pieces, S
<1>5. \A i \in 1 .. Len(pieces) : Length(pieces[i]) = OffsetSize
  BY <1>4, Lengths
<1>6. /\ InsideFile'
      /\ \A o \in DOMAIN file : o \in DOMAIN file' /\ file'[o] = file[o]
      /\ \A i \in 1 .. kv_count : /\ st_size + (i - 1) * OffsetSize \in DOMAIN file'
                                  /\ file'[st_size + (i - 1) * OffsetSize] = pieces[i]
  <2>1. InsideFile
    BY DEF WriteInv
  <2> QED
    BY <1>1, <1>2, <1>4, <1>5, <2>1, BlockWritten
<1>7. /\ InputInv' /\ Progress' /\ DataPlaced' /\ DataCounted' /\ DataIndexed' /\ FilterInv'
      /\ DataEnd' = DataEnd /\ IndexStart' = IndexStart /\ Off' = Off
      /\ WordsPlaced => WordsPlaced'
  BY <1>1, <1>6, Extended, InputStays
<1>8. st_size = IndexStart /\ WordsPlaced
  BY <1>1 DEF WriteInv, BlocksInv, Behind
<1>9. OffsetsPlaced'
  BY <1>1, <1>4, <1>6, <1>7, <1>8 DEF OffsetsPlaced
<1>10. BlocksInv'
  BY <1>1, <1>7, <1>8, <1>9 DEF WriteInv, BlocksInv, Behind, Complete
<1> QED
  BY <1>6, <1>7, <1>10 DEF WriteInv

LEMMA MetaBlockKeeps == ASSUME WriteInv, WriteMetaBlock PROVE WriteInv'
<1> DEFINE piece == [is |-> "meta", filter_offset |-> DataEnd, filter_bits_count |-> Bits,
                     filter_hash_func_count |-> Hashes,
                     index_offset |-> DataEnd + FilterBytes(filter),
                     kv_count |-> IF input.writer = "flush" THEN kv_count ELSE Len(indexblock)]
<1>1. /\ pc = "meta" /\ pc' = "written" /\ Write(<<piece>>)
      /\ UNCHANGED <<input, n, kv_count, data_size, indexblock, filter>>
  BY DEF WriteMetaBlock
<1>2. kv_count = Len(Written) /\ kv_count \in Nat /\ MetaSize \in Nat \ {0}
  BY <1>1, Counts, Sizes DEF WriteInv, BlocksInv, Behind
<1>3. piece = MetaPiece
  <2>1. input.writer # "flush" => Len(indexblock) = kv_count
    <3>1. input.writer # "flush" => indexblock = [m \in 1 .. kv_count |-> Off[m - 1]]
      BY DEF WriteInv, DataIndexed, InputInv
    <3> QED
      BY <1>2, <3>1
  <2> QED
    BY <1>2, <2>1 DEF MetaPiece, IndexStart
<1> HIDE DEF piece
<1> DEFINE pieces == <<piece>>
<1>4. pieces \in Seq({piece}) /\ Len(pieces) = 1 /\ pieces[1] = piece
  OBVIOUS
<1>5. Length(piece) = MetaSize
  BY <1>3 DEF MetaPiece, Length
<1> HIDE DEF pieces
<1>6. \A i \in 1 .. Len(pieces) : Length(pieces[i]) = MetaSize
  BY <1>4, <1>5
<1>7. /\ InsideFile'
      /\ st_size' = st_size + 1 * MetaSize
      /\ \A o \in DOMAIN file : o \in DOMAIN file' /\ file'[o] = file[o]
      /\ \A i \in 1 .. 1 : /\ st_size + (i - 1) * MetaSize \in DOMAIN file'
                           /\ file'[st_size + (i - 1) * MetaSize] = pieces[i]
  <2>1. InsideFile /\ Write(pieces)
    BY <1>1 DEF WriteInv, pieces
  <2> QED
    BY <1>2, <1>4, <1>6, <2>1, BlockWritten
<1>8. st_size' - MetaSize = st_size /\ st_size \in DOMAIN file' /\ file'[st_size] = MetaPiece
  <2>1. st_size \in Nat
    BY DEF WriteInv, InsideFile
  <2>2. st_size + (1 - 1) * MetaSize = st_size /\ (st_size + 1 * MetaSize) - MetaSize = st_size
    BY <1>2, <2>1
  <2>3. /\ st_size + (1 - 1) * MetaSize \in DOMAIN file'
        /\ file'[st_size + (1 - 1) * MetaSize] = pieces[1]
    <3>1. 1 \in 1 .. 1
      OBVIOUS
    <3> QED
      BY <1>7, <3>1
  <2>4. st_size \in DOMAIN file' /\ file'[st_size] = MetaPiece
    BY <1>3, <1>4, <2>2, <2>3
  <2>5. st_size' - MetaSize = st_size
    BY <1>7, <2>2
  <2> QED
    BY <2>4, <2>5
<1>9. /\ InputInv' /\ Progress' /\ DataPlaced' /\ DataCounted' /\ DataIndexed' /\ FilterInv'
      /\ MetaPiece' = MetaPiece
      /\ WordsPlaced => WordsPlaced'
      /\ OffsetsPlaced => OffsetsPlaced'
  <2>1. /\ InputInv' /\ Progress' /\ DataPlaced' /\ DataCounted' /\ DataIndexed' /\ FilterInv'
        /\ MetaPiece' = MetaPiece
        /\ WordsPlaced => WordsPlaced'
        /\ OffsetsPlaced => OffsetsPlaced'
    BY <1>1, <1>7, Extended
  <2> QED
    BY <2>1
<1>10. WordsPlaced /\ OffsetsPlaced
  BY <1>1 DEF WriteInv, BlocksInv, Behind
<1>11. BlocksInv'
  <2>1. /\ n' = Len(input'.entries) /\ kv_count' > 0
        /\ pc' = "written" /\ pc' \in Behind
    BY <1>1 DEF WriteInv, BlocksInv, Behind
  <2>2. st_size' - MetaSize \in DOMAIN file' /\ file'[st_size' - MetaSize] = MetaPiece'
    BY <1>8, <1>9
  <2>3. WordsPlaced' /\ OffsetsPlaced'
    BY <1>9, <1>10
  <2> QED
    BY <2>1, <2>2, <2>3 DEF BlocksInv, Behind, Complete
<1> QED
  BY <1>7, <1>9, <1>11 DEF WriteInv

(* The reader only reads. *)
LEMMA ReadKeeps ==
  ASSUME WriteInv, Complete, Complete',
         UNCHANGED <<input, n, kv_count, data_size, indexblock, filter, file, st_size>>
  PROVE  WriteInv'
<1>1. /\ InputInv' /\ Progress' /\ DataPlaced' /\ DataCounted' /\ DataIndexed' /\ FilterInv'
      /\ DataEnd' = DataEnd /\ MetaPiece' = MetaPiece /\ IndexStart' = IndexStart
      /\ WordsPlaced => WordsPlaced'
      /\ OffsetsPlaced => OffsetsPlaced'
  BY Extended
<1>2. InsideFile'
  BY DEF WriteInv, InsideFile
<1>3. BlocksInv'
  BY <1>1 DEF WriteInv, BlocksInv, Behind, Complete
<1> QED
  BY <1>1, <1>2, <1>3 DEF WriteInv

LEMMA WriteInvStep == ASSUME WriteInv, [Next]_vars PROVE WriteInv'
<1>1. CASE SkipEntry
  BY <1>1, SkipEntryKeeps
<1>2. CASE FlushEntry
  BY <1>2, FlushEntryKeeps
<1>3. CASE MergeEntry
  BY <1>3, MergeEntryKeeps
<1>4. CASE EndOfData
  BY <1>4, EndOfDataKeeps
<1>5. CASE MakeFilterBlockInFd
  BY <1>5, FilterBlockKeeps
<1>6. CASE WriteIndexBlock
  BY <1>6, IndexBlockKeeps
<1>7. CASE WriteMetaBlock
  BY <1>7, MetaBlockKeeps
<1>8. CASE Begin
  BY <1>8, ReadKeeps DEF Begin, Complete
<1>9. CASE Advance
  BY <1>9, ReadKeeps DEF Advance, Complete
<1>10. CASE Exhausted
  BY <1>10, ReadKeeps DEF Exhausted, Complete
<1>11. CASE UNCHANGED vars
  <2>1. UNCHANGED <<input, pc, n, kv_count, data_size, indexblock, filter, file, st_size>>
    BY <1>11 DEF vars
  <2>2. /\ InputInv' /\ Progress' /\ DataPlaced' /\ DataCounted' /\ DataIndexed' /\ FilterInv'
        /\ DataEnd' = DataEnd /\ MetaPiece' = MetaPiece /\ IndexStart' = IndexStart
        /\ WordsPlaced => WordsPlaced'
        /\ OffsetsPlaced => OffsetsPlaced'
    BY <2>1, Extended
  <2>3. InsideFile'
    BY <2>1 DEF WriteInv, InsideFile
  <2>4. BlocksInv'
    BY <2>1, <2>2 DEF WriteInv, BlocksInv, Behind, Complete
  <2> QED
    BY <2>2, <2>3, <2>4 DEF WriteInv
<1> QED
  BY <1>1, <1>2, <1>3, <1>4, <1>5, <1>6, <1>7, <1>8, <1>9, <1>10, <1>11 DEF Next

----------------------------------------------------------------------------
(* What the index, the iterator and the filter show. *)

LEMMA OffGrows ==
  ASSUME Typed, NEW i \in 0 .. Len(Written), NEW j \in 0 .. Len(Written), i < j
  PROVE  Off[i] \in Nat /\ Off[j] \in Nat /\ Off[i] < Off[j]
<1> DEFINE L == Len(Written)
           T == {x \in 0 .. L : i < x => Off[i] < Off[x]}
<1>1. /\ L \in Nat /\ Off \in [0 .. L -> Nat]
      /\ \A m \in 1 .. L : Written[m] \in Key \X Entry /\ Off[m] = Off[m - 1] + EntryBytes(Written[m])
  BY OffIs
<1>2. i \in 0 .. L /\ j \in 0 .. L
  OBVIOUS
<1> HIDE DEF L
<1>3. 0 \in T
  BY <1>1, <1>2
<1>4. ASSUME NEW x \in 1 .. L, x - 1 \in T PROVE x \in T
  <2>1. /\ x \in 0 .. L /\ x - 1 \in 0 .. L /\ Off[x] = Off[x - 1] + EntryBytes(Written[x])
        /\ EntryBytes(Written[x]) \in Nat \ {0} /\ Off[x - 1] \in Nat /\ Off[x] \in Nat /\ Off[i] \in Nat
    <3>1. x \in 0 .. L /\ x - 1 \in 0 .. L
      BY <1>1
    <3>2. Written[x] \in Key \X Entry /\ Off[x] = Off[x - 1] + EntryBytes(Written[x])
      BY <1>1
    <3>3. EntryBytes(Written[x]) \in Nat \ {0}
      BY <3>2, Sizes
    <3> QED
      BY <1>1, <1>2, <3>1, <3>2, <3>3
  <2>2. i < x => i = x - 1 \/ i < x - 1
    BY <1>1, <1>2
  <2> QED
    BY <1>4, <2>1, <2>2
<1> HIDE DEF T
<1>5. 0 .. L \subseteq T
  BY <1>1, <1>3, <1>4, CountUp
<1> QED
  BY <1>1, <1>2, <1>5 DEF T

LEMMA MetaRead == ASSUME WriteInv, Complete PROVE meta = MetaPiece
<1>1. st_size - MetaSize \in DOMAIN file /\ file[st_size - MetaSize] = MetaPiece
  BY DEF WriteInv, BlocksInv
<1>2. MetaPiece.is = "meta"
  BY DEF MetaPiece
<1> QED
  BY <1>1, <1>2 DEF meta, Pread

LEMMA AtEnd ==
  ASSUME WriteInv, Complete
  PROVE  /\ kv_count = Len(Written) /\ Len(Written) \in Nat /\ Len(Written) > 0
         /\ DataEnd = Off[Len(Written)]
         /\ WordsPlaced /\ OffsetsPlaced /\ DataPlaced /\ Typed
<1>1. pc \in Behind \ {"filter", "index"}
  BY DEF Complete, Behind
<1> QED
  BY <1>1, Counts DEF WriteInv, InputInv, BlocksInv, DataCounted

Token(m) ==
  [key |-> Written[m][1],
   value_offset |-> Off[m - 1] + SizesSize + KeySize[Written[m][1]],
   value_size |-> ValueSize[Written[m][2]]]

(* From where an entry begins the reader gets its key and value, and where *)
(* the next one begins.                                                    *)
LEMMA EntryRead ==
  ASSUME WriteInv, Complete, NEW m \in 1 .. Len(Written)
  PROVE  /\ KeyAt(Off[m - 1]) = Token(m)
         /\ GetValue(Token(m)) = Written[m][2]
         /\ Token(m).value_offset + Token(m).value_size = Off[m]
         /\ <<Token(m).key, GetValue(Token(m))>> = Written[m]
<1> DEFINE kv == Written[m]
           o == Off[m - 1]
<1>1. /\ kv \in Key \X Entry /\ o \in Nat /\ Off[m] = o + EntryBytes(kv)
  <2>1. m - 1 \in 0 .. Len(Written)
    BY AtEnd
  <2> QED
    BY <2>1, AtEnd, OffIs
<1>2. EntryPlaced(file, o, kv)
  BY AtEnd DEF DataPlaced
<1> PICK e : e = kv
  OBVIOUS
<1>3. Token(m) = [key |-> e[1], value_offset |-> o + SizesSize + KeySize[e[1]],
                  value_size |-> ValueSize[e[2]]]
  BY DEF Token
<1> HIDE DEF kv, o
<1>4. /\ e[1] \in Key /\ e[2] \in Entry /\ e = <<e[1], e[2]>>
      /\ KeySize[e[1]] \in Nat \ {0} /\ ValueSize[e[2]] \in Nat
      /\ (ValueSize[e[2]] = 0 <=> e[2] = Empty)
      /\ EntryBytes(e) = KeySize[e[1]] + ValueSize[e[2]] + SizesSize /\ SizesSize \in Nat
  BY <1>1, Sizes DEF EntryBytes
<1>5. Pread("sizes", o) = SizesPiece(e) /\ Pread("key", o + SizesSize) = KeyPiece(e)
  BY <1>2 DEF EntryPlaced, Pread, SizesPiece, KeyPiece
<1>6. KeyAt(o) = Token(m)
  BY <1>3, <1>5 DEF KeyAt, SizesPiece, KeyPiece
<1>7. GetValue(Token(m)) = e[2]
  <2>1. CASE e[2] = Empty
    BY <1>3, <1>4, <2>1 DEF GetValue
  <2>2. CASE e[2] # Empty
    <3>1. Pread("value", o + SizesSize + KeySize[e[1]]) = ValuePiece(e)
      BY <1>2, <2>2 DEF EntryPlaced, Pread, ValuePiece
    <3> QED
      BY <1>3, <1>4, <2>2, <3>1 DEF GetValue, ValuePiece
  <2> QED
    BY <2>1, <2>2
<1>8. Token(m).value_offset + Token(m).value_size = Off[m]
  <2>1. Token(m).value_offset = o + SizesSize + KeySize[e[1]] /\ Token(m).value_size = ValueSize[e[2]]
    BY <1>3
  <2> QED
    BY <1>1, <1>4, <2>1
<1>9. Token(m).key = e[1]
  BY <1>3
<1> QED
  BY <1>4, <1>6, <1>7, <1>8, <1>9 DEF kv, o

LEMMA IndexRead ==
  ASSUME WriteInv, Complete
  PROVE  /\ meta.kv_count = Len(Written)
         /\ \A i \in 0 .. Len(Written) - 1 :
              /\ GetIthKey(i) = Token(i + 1)
              /\ <<GetIthKey(i).key, GetValue(GetIthKey(i))>> = Written[i + 1]
<1>1. meta.kv_count = Len(Written) /\ meta.index_offset = IndexStart
  BY MetaRead DEF MetaPiece
<1>2. ASSUME NEW i \in 0 .. Len(Written) - 1 PROVE GetIthKey(i) = Token(i + 1)
  <2>1. i + 1 \in 1 .. Len(Written) /\ i + 1 - 1 = i
    BY AtEnd
  <2>2. /\ IndexStart + i * OffsetSize \in DOMAIN file
        /\ file[IndexStart + i * OffsetSize] = [is |-> "offset", offset |-> Off[i]]
    <3>1. /\ IndexStart + (i + 1 - 1) * OffsetSize \in DOMAIN file
          /\ file[IndexStart + (i + 1 - 1) * OffsetSize]
               = [is |-> "offset", offset |-> Off[i + 1 - 1]]
      BY <2>1, AtEnd DEF OffsetsPlaced
    <3> QED
      BY <2>1, <3>1
  <2>3. Pread("offset", IndexStart + i * OffsetSize).offset = Off[i]
    BY <2>2 DEF Pread
  <2>4. KeyAt(Off[i + 1 - 1]) = Token(i + 1)
    BY <2>1, EntryRead
  <2> QED
    BY <1>1, <2>1, <2>3, <2>4 DEF GetIthKey
<1>3. ASSUME NEW i \in 0 .. Len(Written) - 1
      PROVE  <<GetIthKey(i).key, GetValue(GetIthKey(i))>> = Written[i + 1]
  <2>1. i + 1 \in 1 .. Len(Written)
    BY AtEnd
  <2>2. <<Token(i + 1).key, GetValue(Token(i + 1))>> = Written[i + 1]
    BY <2>1, EntryRead
  <2> QED
    BY <1>2, <2>2
<1> QED
  BY <1>1, <1>2, <1>3

(* The bits in the file are those in memory. *)
LEMMA FilterRead ==
  ASSUME WriteInv, Complete, NEW k \in Key
  PROVE  TestHashes(k) <=> Answers(k)
<1>1. /\ meta.filter_hash_func_count = Hashes /\ meta.filter_bits_count = Bits
      /\ meta.filter_offset = DataEnd
  BY MetaRead DEF MetaPiece
<1>2. /\ Bits \in Nat \ {0} /\ WordBits \in Nat \ {0}
  BY BitsPositive, Sizes DEF WriteInv
<1>3. ASSUME NEW p \in Positions(k, Bits, Hashes)
      PROVE  GetFilterIthBit(p) <=> Test(filter, p)
  <2>1. p \in Nat /\ p < Bits
    BY <1>2, PositionsBelow
  <2>2. p \div WordBits \in Nat /\ p \div WordBits <= CeilDiv(Bits, WordBits) - 1
    BY <1>2, <2>1, Quotient, QuotientBelow
  <2>3. p \div WordBits \in 0 .. Words - 1
    <3>1. Words \in Nat /\ Words = CeilDiv(Bits, WordBits)
      BY FilterSize DEF Words
    <3> QED
      BY <2>2, <3>1
  <2> DEFINE w == p \div WordBits
  <2>4. /\ DataEnd + w * WordSize \in DOMAIN file
        /\ file[DataEnd + w * WordSize] = [is |-> "word", bits |-> filter[w]]
    BY <2>3, AtEnd DEF WordsPlaced
  <2> HIDE DEF w
  <2>5. Pread("word", DataEnd + w * WordSize).bits = filter[w]
    BY <2>4 DEF Pread
  <2> QED
    BY <1>1, <2>5 DEF GetFilterIthBit, Test, w
<1>4. TestHashes(k) <=> \A i \in 0 .. Hashes - 1 : GetFilterIthBit(CalculateIthHash(k, i, Bits))
  BY <1>1 DEF TestHashes, CalculateIthHash
<1>5. TestHashes(k) <=> \A p \in Positions(k, Bits, Hashes) : GetFilterIthBit(p)
  BY <1>4 DEF Positions
<1> QED
  BY <1>3, <1>5 DEF Answers, Found

----------------------------------------------------------------------------
(* The iterator stands on the last entry it has shown. *)
Shown ==
  /\ seen \in Seq(Key \X Entry)
  /\ Len(seen) \in 1 .. Len(Written)
  /\ \A m \in 1 .. Len(seen) : seen[m] = Written[m]
  /\ \A m \in Nat : m = Len(seen) => it = Token(m)
IterInv == pc \in {"reading", "read"} => Shown

LEMMA TokenStays == ASSUME UNCHANGED input PROVE \A m : Token(m)' = Token(m)
BY InputStays DEF Token

(* It is at the end on the last entry only, for every entry has bytes.     *)
LEMMA EndIsLast ==
  ASSUME WriteInv, Complete, Shown
  PROVE  /\ it.value_offset + it.value_size = Off[Len(seen)]
         /\ IsEnd <=> Len(seen) = Len(Written)
<1>1. it.value_offset + it.value_size = Off[Len(seen)]
  <2>1. Len(seen) \in 1 .. Len(Written) /\ it = Token(Len(seen))
    BY AtEnd DEF Shown
  <2> QED
    BY <2>1, EntryRead
<1>2. meta.filter_offset = Off[Len(Written)]
  BY MetaRead, AtEnd DEF MetaPiece
<1>3. Len(seen) \in 0 .. Len(Written) /\ Len(Written) \in 0 .. Len(Written) /\ Typed
      /\ Len(Written) \in Nat
  BY AtEnd DEF Shown
<1>4. Len(seen) < Len(Written) => Off[Len(seen)] # Off[Len(Written)]
  <2>1. ASSUME Len(seen) < Len(Written)
        PROVE  Off[Len(seen)] \in Nat /\ Off[Len(Written)] \in Nat /\ Off[Len(seen)] < Off[Len(Written)]
    BY <1>3, <2>1, OffGrows
  <2> QED
    BY <2>1
<1> QED
  BY <1>1, <1>2, <1>3, <1>4 DEF IsEnd

(* The next entry begins where the value ends. *)
LEMMA BeginShows == ASSUME WriteInv, Begin PROVE Shown'
<1>1. Complete /\ UNCHANGED input /\ it' = KeyAt(0) /\ seen' = <<<<it'.key, GetValue(it')>>>>
  BY DEF Begin, Complete
<1>2. Typed /\ Len(Written) \in Nat /\ 1 \in 1 .. Len(Written) /\ Off[1 - 1] = 0
  <2>1. Typed /\ Len(Written) \in Nat /\ Len(Written) > 0
    BY <1>1, AtEnd
  <2> QED
    BY <2>1, OffIs
<1>3. it' = Token(1) /\ <<it'.key, GetValue(it')>> = Written[1]
  BY <1>1, <1>2, EntryRead
<1>4. Written[1] \in Key \X Entry
  BY <1>2, OffIs
<1>5. seen' = <<Written[1]>>
  BY <1>1, <1>3
<1>6. Written' = Written /\ Token(1)' = Token(1)
  BY <1>1, InputStays, TokenStays
<1>7. seen' \in Seq(Key \X Entry) /\ Len(seen') = 1 /\ seen'[1] = Written[1]
  BY <1>4, <1>5
<1> QED
  BY <1>2, <1>3, <1>6, <1>7 DEF Shown

LEMMA AdvanceShows == ASSUME WriteInv, Shown, Advance PROVE Shown'
<1> PICK last : last = Len(seen)
  OBVIOUS
<1>1. /\ Complete /\ UNCHANGED input /\ ~IsEnd
      /\ it' = KeyAt(it.value_offset + it.value_size)
      /\ seen' = Append(seen, <<it'.key, GetValue(it')>>)
  BY DEF Advance, Complete
<1>2. Typed /\ Len(Written) \in Nat /\ last \in 1 .. Len(Written) /\ seen \in Seq(Key \X Entry)
  BY <1>1, AtEnd DEF Shown
<1>3. it.value_offset + it.value_size = Off[last] /\ last # Len(Written)
  BY <1>1, EndIsLast
<1>4. last + 1 \in 1 .. Len(Written) /\ last + 1 - 1 = last /\ last \in Nat
  BY <1>2, <1>3
<1>5. it' = Token(last + 1) /\ <<it'.key, GetValue(it')>> = Written[last + 1]
  BY <1>1, <1>3, <1>4, EntryRead
<1>6. Written[last + 1] \in Key \X Entry
  BY <1>2, <1>4, OffIs
<1>7. /\ seen' \in Seq(Key \X Entry) /\ Len(seen') = last + 1
      /\ seen'[last + 1] = Written[last + 1]
      /\ \A m \in 1 .. last : seen'[m] = seen[m]
  <2>1. seen' = Append(seen, Written[last + 1])
    BY <1>1, <1>5
  <2> QED
    BY <1>2, <1>4, <1>6, <2>1
<1>8. \A m \in 1 .. last : seen[m] = Written[m]
  BY DEF Shown
<1>9. Written' = Written /\ Token(last + 1)' = Token(last + 1)
  <2>1. \A m : Token(m)' = Token(m)
    BY <1>1, TokenStays
  <2> QED
    BY <1>1, <2>1, InputStays
<1>10. Len(seen') \in 1 .. Len(Written') /\ \A m \in Nat : m = Len(seen') => it' = Token(m)'
  BY <1>4, <1>5, <1>7, <1>9
<1>11. \A m \in 1 .. last + 1 : m \in 1 .. last \/ m = last + 1
  BY <1>4
<1>12. \A m \in 1 .. Len(seen') : seen'[m] = Written'[m]
  BY <1>7, <1>8, <1>9, <1>11
<1> QED
  BY <1>7, <1>10, <1>12 DEF Shown

LEMMA IterInvStep == ASSUME WriteInv, IterInv, [Next]_vars PROVE IterInv'
<1>1. CASE Begin
  BY <1>1, BeginShows DEF IterInv
<1>2. CASE Advance
  BY <1>2, AdvanceShows DEF IterInv, Advance
<1>3. ASSUME UNCHANGED <<input, it, seen>>, pc \in {"reading", "read"}
      PROVE  Shown'
  <2>1. Written' = Written /\ \A m : Token(m)' = Token(m)
    BY <1>3, InputStays, TokenStays
  <2> QED
    BY <1>3, <2>1 DEF IterInv, Shown
<1>4. CASE Exhausted
  BY <1>3, <1>4 DEF IterInv, Exhausted
<1>5. CASE UNCHANGED vars
  BY <1>3, <1>5 DEF IterInv, vars
<1>6. CASE SkipEntry \/ FlushEntry \/ MergeEntry \/ EndOfData \/ MakeFilterBlockInFd
           \/ WriteIndexBlock \/ WriteMetaBlock
  <2>1. pc' \notin {"reading", "read"}
    BY <1>6 DEF SkipEntry, FlushEntry, MergeEntry, EndOfData, MakeFilterBlockInFd,
                WriteIndexBlock, WriteMetaBlock
  <2> QED
    BY <2>1 DEF IterInv
<1> QED
  BY <1>1, <1>2, <1>4, <1>5, <1>6 DEF Next

----------------------------------------------------------------------------
(* The theorems about the file. *)

FileInv == WriteInv /\ IterInv

LEMMA FileInvInit == Init => FileInv
BY WriteInvInit DEF FileInv, IterInv, Init

LEMMA FileInvStep == FileInv /\ [Next]_vars => FileInv'
BY WriteInvStep, IterInvStep DEF FileInv

LEMMA FileIndexed == FileInv => IndexLeadsToEntries
BY IndexRead DEF FileInv, IndexLeadsToEntries

LEMMA FileIterated == FileInv => IteratorFollowsEntries
<1> SUFFICES ASSUME FileInv, pc \in {"reading", "read"}
             PROVE  seen = SubSeq(Written, 1, Len(seen)) /\ (IsEnd <=> Len(seen) = Len(Written))
  BY DEF IteratorFollowsEntries
<1>1. WriteInv /\ Complete /\ Shown
  BY DEF FileInv, IterInv, Complete
<1>2. Written \in Seq(Key \X Entry)
  BY <1>1, AtEnd, OffIs
<1>3. seen = SubSeq(Written, 1, Len(seen))
  BY <1>1, <1>2 DEF Shown
<1> QED
  BY <1>1, <1>3, EndIsLast

LEMMA FileFiltered == FileInv => FilterKeepsItsAnswers
<1> SUFFICES ASSUME FileInv, Complete PROVE FilterKeepsItsAnswers
  BY DEF FilterKeepsItsAnswers
<1>1. WriteInv
  BY DEF FileInv
<1>2. \A k \in Key : TestHashes(k) <=> Answers(k)
  BY <1>1, FilterRead
<1>3. /\ Written \in Seq(Key \X Entry) /\ kv_count = Len(Written)
      /\ \A m \in 1 .. Len(Written) : Written[m] \in Key \X Entry
  BY <1>1, AtEnd, OffIs
<1>4. \A m \in DOMAIN Written : Written[m][1] \in Key /\ Answers(Written[m][1])
  BY <1>1, <1>3 DEF WriteInv, FilterInv
<1> QED
  BY <1>2, <1>4 DEF FilterKeepsItsAnswers, Answers

(* Whatever the keys, the values and their sizes, and whichever writer     *)
(* wrote the file: the i-th offset of the index block leads to the i-th    *)
(* entry that was written.                                                 *)
THEOREM IndexIsCorrect == Spec => []IndexLeadsToEntries
BY FileInvInit, FileInvStep, FileIndexed, PTL DEF Spec

(* The iterator of a merge shows every entry that was written, in order,   *)
(* and is at the end on the last one only.                                 *)
THEOREM IteratorIsCorrect == Spec => []IteratorFollowsEntries
BY FileInvInit, FileInvStep, FileIterated, PTL DEF Spec

(* The filter read from the file denies no key that was written, and       *)
(* answers for every key what it answered in memory.                       *)
THEOREM FilterIsKept == Spec => []FilterKeepsItsAnswers
BY FileInvInit, FileInvStep, FileFiltered, PTL DEF Spec

----------------------------------------------------------------------------
(* The searches over the file.  The reader's table is what was written.    *)

LEMMA KeptSorted == ASSUME InputInv PROVE Sorted(Written)
<1> DEFINE N == Len(input.entries)
           P(i) == /\ Sorted(Kept[i])
                   /\ \A m \in 1 .. Len(Kept[i]), j \in 1 .. N :
                        i < j => Kept[i][m][1] < input.entries[j][1]
           T == {i \in 0 .. N : P(i)}
<1>1. /\ N \in Nat /\ Kept \in [0 .. N -> Seq(Key \X Entry)] /\ Kept[0] = <<>>
      /\ \A i \in 1 .. N : Kept[i] = IF Skipped(input.entries[i]) THEN Kept[i - 1]
                                     ELSE Append(Kept[i - 1], input.entries[i])
      /\ Written = Kept[N]
  <2>1. N \in Nat /\ Typed
    BY DEF InputInv, Typed
  <2> QED
    BY <2>1, KeptIs
<1>2. /\ \A i \in 1 .. N : input.entries[i] \in Key \X Entry
      /\ \A i, j \in 1 .. N : i < j => input.entries[i][1] < input.entries[j][1]
  BY DEF InputInv, Typed, Sorted
<1> HIDE DEF N
<1>3. 0 \in T
  <2>1. Len(Kept[0]) = 0 /\ DOMAIN Kept[0] = {}
    BY <1>1
  <2> QED
    BY <1>1, <2>1 DEF Sorted
<1>4. ASSUME NEW i \in 1 .. N, i - 1 \in T PROVE i \in T
  <2>1. P(i - 1) /\ i \in 0 .. N /\ i - 1 \in 0 .. N /\ i \in Nat /\ i - 1 < i
    BY <1>1, <1>4
  <2>2. CASE Kept[i] = Kept[i - 1]
    BY <2>1, <2>2
  <2>3. CASE Kept[i] = Append(Kept[i - 1], input.entries[i])
    <3>1. PICK s \in Seq(Key \X Entry) : s = Kept[i - 1]
      BY <1>1, <2>1
    <3>2. PICK kv \in Key \X Entry : kv = input.entries[i]
      BY <1>2
    <3>3. PICK t : t = Append(s, kv)
      OBVIOUS
    <3>4. /\ Len(s) \in Nat /\ Len(t) = Len(s) + 1 /\ DOMAIN t = 1 .. Len(s) + 1
          /\ DOMAIN s = 1 .. Len(s)
          /\ t[Len(s) + 1] = kv /\ \A m \in 1 .. Len(s) : t[m] = s[m]
      BY <3>3
    <3>5. /\ \A m, q \in 1 .. Len(s) : m < q => s[m][1] < s[q][1]
          /\ \A m \in 1 .. Len(s) : s[m][1] < kv[1]
          /\ \A m \in 1 .. Len(s), j \in 1 .. N : i < j => s[m][1] < input.entries[j][1]
      <4>1. /\ Sorted(s)
            /\ \A m \in 1 .. Len(s), j \in 1 .. N :
                 i - 1 < j => s[m][1] < input.entries[j][1]
        BY <2>1, <3>1
      <4>2. \A m \in 1 .. Len(s) : s[m][1] < input.entries[i][1]
        BY <2>1, <4>1
      <4>3. \A m \in 1 .. Len(s), j \in 1 .. N : i < j => s[m][1] < input.entries[j][1]
        BY <1>1, <2>1, <4>1
      <4> QED
        BY <3>2, <3>4, <4>1, <4>2, <4>3 DEF Sorted
    <3>6. \A j \in 1 .. N : i < j => kv[1] < input.entries[j][1]
      BY <1>2, <3>2
    <3>7. \A m \in 1 .. Len(s) + 1 : m \in 1 .. Len(s) \/ m = Len(s) + 1
      BY <3>4
    <3>8. ASSUME NEW m \in 1 .. Len(s) + 1, NEW q \in 1 .. Len(s) + 1, m < q
          PROVE  t[m][1] < t[q][1]
      <4>1. m \in 1 .. Len(s)
        BY <3>4, <3>8
      <4> QED
        BY <3>4, <3>5, <3>7, <3>8, <4>1
    <3>9. ASSUME NEW m \in 1 .. Len(s) + 1, NEW j \in 1 .. N, i < j
          PROVE  t[m][1] < input.entries[j][1]
      BY <3>4, <3>5, <3>6, <3>7, <3>9
    <3>10. Kept[i] = t
      BY <2>3, <3>1, <3>2, <3>3
    <3> QED
      BY <2>1, <3>4, <3>8, <3>9, <3>10 DEF Sorted
  <2> QED
    BY <1>1, <2>2, <2>3
<1> HIDE DEF T
<1>5. 0 .. N \subseteq T
  BY <1>1, <1>3, <1>4, CountUp
<1>6. N \in T
  BY <1>1, <1>5
<1> QED
  BY <1>1, <1>6 DEF T

----------------------------------------------------------------------------
(* The searches: over any increasing table, and so over the entries that   *)
(* are read from a file.                                                   *)

(* What the constants are: keys are integers in the order of their bytes;  *)
(* an absent bound is no key, and a tombstone, a value and no entry differ. *)
ReaderConstants ==
  /\ Key \subseteq Int
  /\ nullopt \notin Key
  /\ nullopt \notin Reader!Entry
  /\ Empty \notin Value

Table == EntriesRead \in Seq(Key \X Reader!Entry) /\ EntriesRead # <<>> /\ Reader!Sorted(EntriesRead)

(* The entries outside the borders are smaller and greater than the key.   *)
Outside(key) ==
  \A i \in DOMAIN EntriesRead :
    /\ i <= l => EntriesRead[i][1] < key
    /\ i >= r => EntriesRead[i][1] > key

FindBorders == call = "find" => Outside(request.key)

LowerBorders ==
  call = "lower" => Outside(request.range.lower) /\ accumulated = request.old

(* The scan has set or erased the keys of the range it has passed, no      *)
(* other, and no entry from its place on is below the range.               *)
Overlaid ==
  /\ l <= Len(EntriesRead)
  /\ \A i \in DOMAIN EntriesRead : i > l => Reader!AboveLower(EntriesRead[i][1], request.range)
  /\ \A i \in DOMAIN EntriesRead :
       i <= l /\ Reader!InRange(EntriesRead[i][1], request.range) =>
         accumulated[EntriesRead[i][1]] = IF EntriesRead[i][2] = Empty THEN nullopt ELSE EntriesRead[i][2]
  /\ \A k \in Key :
       (\A i \in DOMAIN EntriesRead :
          i <= l /\ EntriesRead[i][1] = k => ~Reader!InRange(k, request.range)) =>
         accumulated[k] = request.old[k]

(* The scan ends behind the table or at a key above the range.             *)
NothingLeft ==
  \A i \in DOMAIN EntriesRead : i > l => ~Reader!InRange(EntriesRead[i][1], request.range)

ScanOverlays == call \in {"scan", "accumulated"} => Overlaid
ScanIsOver == call = "accumulated" => NothingLeft

SearchInv ==
  /\ Reader!TypeOK
  /\ Table
  /\ Reader!ProbesInside
  /\ FindBorders
  /\ LowerBorders
  /\ ScanOverlays
  /\ ScanIsOver
  /\ Reader!FindAnswersEntry

----------------------------------------------------------------------------
(* A probe is strictly between the borders. *)
LEMMA Midpoint ==
  ASSUME NEW a \in Nat, NEW b \in Nat, a + 1 < b
  PROVE  /\ (a + b) \div 2 \in Nat
         /\ a < (a + b) \div 2
         /\ (a + b) \div 2 < b
  BY SMT

(* The entries of a table are pairs of a key and an entry. *)
LEMMA EntriesTyped ==
  ASSUME EntriesRead \in Seq(Key \X Reader!Entry), NEW i \in DOMAIN EntriesRead
  PROVE  EntriesRead[i][1] \in Key /\ EntriesRead[i][2] \in Reader!Entry
  <1>1. EntriesRead[i] \in Key \X Reader!Entry
    OBVIOUS
  <1> QED
    BY <1>1

(* The probe of a search whose borders have not met is an entry. *)
LEMMA ProbeTyped ==
  ASSUME Reader!TypeOK, Table, Reader!ProbesInside, call \in {"find", "lower"}, l + 1 < r
  PROVE  /\ Reader!m \in DOMAIN EntriesRead
         /\ Reader!m \in Nat /\ l < Reader!m /\ Reader!m < r
         /\ Reader!KeyAt(Reader!m - 1) = EntriesRead[Reader!m][1]
         /\ Reader!EntryAt(Reader!m - 1) = EntriesRead[Reader!m][2]
  <1>1. l \in Nat /\ r \in Nat /\ r <= Len(EntriesRead) + 1 /\ Len(EntriesRead) \in Nat
    BY DEF Reader!TypeOK, Table, Reader!ProbesInside, Reader!BehindLast, Reader!kv_count
  <1>2. Reader!m \in Nat /\ l < Reader!m /\ Reader!m < r
    BY <1>1, Midpoint DEF Reader!m
  <1>3. Reader!m \in DOMAIN EntriesRead
    BY <1>1, <1>2 DEF Table
  <1>4. Reader!m - 1 + 1 = Reader!m
    BY <1>2
  <1> QED
    BY <1>2, <1>3, <1>4 DEF Reader!KeyAt, Reader!EntryAt

LEMMA SearchInit == Reader!Init => SearchInv
  BY DEF Reader!Init, Reader!Idle, SearchInv, Reader!TypeOK, Table, Reader!ProbesInside,
         FindBorders, LowerBorders,
         ScanOverlays, ScanIsOver, Reader!FindAnswersEntry, Reader!Nothing, Reader!Result, Reader!Entry

(* No call touches the table. *)
LEMMA TableStays == ASSUME Table, EntriesRead' = EntriesRead PROVE Table'
  BY DEF Table, Reader!Sorted

(* Borders that did not meet have the next probe between them. *)
LEMMA ProbeBetween ==
  ASSUME NEW a \in Nat, NEW b \in Nat, NEW k \in Nat, a < b, b <= k + 1, a + 1 # b
  PROVE  (a + b) \div 2 \in 1 .. k
  <1>1. a + 1 < b
    OBVIOUS
  <1> QED
    BY <1>1, Midpoint

LEMMA NextProbe ==
  ASSUME Table, l' \in Nat, r' \in Nat, l' < r', r' <= Len(EntriesRead) + 1, EntriesRead' = EntriesRead
  PROVE  Reader!ProbesInside'
  <1>1. Len(EntriesRead) \in Nat
    BY DEF Table
  <1>2. l' + 1 # r' => Reader!m' \in 1 .. Len(EntriesRead)
    BY <1>1, ProbeBetween DEF Reader!m
  <1> QED
    BY <1>1, <1>2 DEF Reader!ProbesInside, Reader!BehindLast, Reader!kv_count

LEMMA StartFindStep ==
  ASSUME SearchInv, ReaderConstants, NEW key \in Key, Reader!StartFind(key)
  PROVE  SearchInv'
  <1> USE DEF Reader!StartFind
  <1>1. Reader!TypeOK'
    BY DEF SearchInv, Reader!TypeOK, Reader!FindRequest, Reader!BehindLast, Reader!kv_count, Table
  <1>2. Table'
    BY TableStays DEF SearchInv
  <1>3. Len(EntriesRead) \in Nat /\ Len(EntriesRead) > 0 /\ DOMAIN EntriesRead = 1 .. Len(EntriesRead)
    BY DEF SearchInv, Table
  <1>4. r' = Len(EntriesRead) + 1 /\ l' = 0
    BY DEF Reader!BehindLast, Reader!kv_count
  <1>5. Reader!ProbesInside'
    BY <1>2, <1>3, <1>4, NextProbe DEF SearchInv
  <1>6. FindBorders'
    BY <1>3, <1>4 DEF FindBorders, Outside
  <1> QED
    BY <1>1, <1>2, <1>5, <1>6 DEF SearchInv, LowerBorders, ScanOverlays, ScanIsOver,
                                  Reader!FindAnswersEntry

(* A probe moves one border: the entries behind it are known to be smaller *)
(* or greater, for the table is sorted.                                    *)
LEMMA MoveRight ==
  ASSUME Reader!TypeOK, Table, ReaderConstants, NEW key \in Key,
         NEW p \in DOMAIN EntriesRead, key < EntriesRead[p][1]
  PROVE  \A i \in DOMAIN EntriesRead : i >= p => EntriesRead[i][1] > key
  <1> SUFFICES ASSUME NEW i \in DOMAIN EntriesRead, i >= p PROVE EntriesRead[i][1] > key
    OBVIOUS
  <1>1. EntriesRead[i][1] \in Int /\ EntriesRead[p][1] \in Int /\ key \in Int
    BY EntriesTyped DEF Table, ReaderConstants
  <1>2. i = p \/ EntriesRead[p][1] < EntriesRead[i][1]
    BY DEF Table, Reader!Sorted
  <1> QED
    BY <1>1, <1>2

LEMMA MoveLeft ==
  ASSUME Reader!TypeOK, Table, ReaderConstants, NEW key \in Key,
         NEW p \in DOMAIN EntriesRead, key > EntriesRead[p][1]
  PROVE  \A i \in DOMAIN EntriesRead : i <= p => EntriesRead[i][1] < key
  <1> SUFFICES ASSUME NEW i \in DOMAIN EntriesRead, i <= p PROVE EntriesRead[i][1] < key
    OBVIOUS
  <1>1. EntriesRead[i][1] \in Int /\ EntriesRead[p][1] \in Int /\ key \in Int
    BY EntriesTyped DEF Table, ReaderConstants
  <1>2. i = p \/ EntriesRead[i][1] < EntriesRead[p][1]
    BY DEF Table, Reader!Sorted
  <1> QED
    BY <1>1, <1>2

LEMMA FindStepKeeps == ASSUME SearchInv, ReaderConstants, Reader!FindStep PROVE SearchInv'
  <1> USE DEF SearchInv
  <1>1. call = "find" /\ request \in Reader!FindRequest /\ request.key \in Key /\ EntriesRead' = EntriesRead
        /\ request' = request /\ accumulated' = accumulated
    BY DEF Reader!FindStep, Reader!FindLeft, Reader!FindRight, Reader!FindHit, Reader!FindMiss,
           Reader!TypeOK, Reader!FindRequest
  <1>2. Table'
    BY <1>1, TableStays
  <1>3. Outside(request.key)
    BY <1>1 DEF FindBorders
  <1>4. l \in Nat /\ r \in Nat /\ l < r /\ r <= Len(EntriesRead) + 1 /\ Len(EntriesRead) \in Nat
        /\ DOMAIN EntriesRead = 1 .. Len(EntriesRead)
    BY <1>1 DEF Reader!TypeOK, Reader!ProbesInside, Reader!BehindLast, Reader!kv_count, Table
  <1>5. l + 1 # r => l + 1 < r
    BY <1>4
  <1>6. l + 1 # r => /\ Reader!m \in DOMAIN EntriesRead
                     /\ Reader!m \in Nat /\ l < Reader!m /\ Reader!m < r
                     /\ Reader!KeyAt(Reader!m - 1) = EntriesRead[Reader!m][1]
                     /\ Reader!EntryAt(Reader!m - 1) = EntriesRead[Reader!m][2]
    BY <1>1, <1>5, ProbeTyped
  <1>7. CASE Reader!FindLeft
    <2>1. Reader!TypeOK'
      BY <1>6, <1>7 DEF Reader!TypeOK, Reader!FindLeft
    <2>2. Reader!ProbesInside'
      BY <1>1, <1>4, <1>6, <1>7, NextProbe DEF Reader!FindLeft
    <2>3. FindBorders'
      BY <1>1, <1>3, <1>6, <1>7, MoveRight DEF Reader!FindLeft, FindBorders, Outside
    <2> QED
      BY <1>2, <1>7, <2>1, <2>2, <2>3
      DEF Reader!FindLeft, LowerBorders, ScanOverlays, ScanIsOver, Reader!FindAnswersEntry
  <1>8. CASE Reader!FindRight
    <2>1. Reader!TypeOK'
      BY <1>6, <1>8 DEF Reader!TypeOK, Reader!FindRight
    <2>2. Reader!ProbesInside'
      BY <1>1, <1>4, <1>6, <1>8, NextProbe DEF Reader!FindRight
    <2>3. FindBorders'
      BY <1>1, <1>3, <1>6, <1>8, MoveLeft DEF Reader!FindRight, FindBorders, Outside
    <2> QED
      BY <1>2, <1>8, <2>1, <2>2, <2>3
      DEF Reader!FindRight, LowerBorders, ScanOverlays, ScanIsOver, Reader!FindAnswersEntry
  <1>9. CASE Reader!FindHit
    <2>1. answer' = EntriesRead[Reader!m][2] /\ request.key = EntriesRead[Reader!m][1] /\ Reader!m \in DOMAIN EntriesRead
      BY <1>6, <1>9 DEF Reader!FindHit
    <2>2. EntriesRead[Reader!m] \in Key \X Reader!Entry
      BY <2>1 DEF Table
    <2>3. EntriesRead[Reader!m] = <<request.key, answer'>> /\ answer' \in Reader!Entry
      BY <2>1, <2>2
    <2>4. Reader!TypeOK'
      BY <1>1, <1>9, <2>3 DEF Reader!TypeOK, Reader!FindHit
    <2>5. Reader!FindAnswersEntry'
      BY <1>1, <2>1, <2>3 DEF Reader!FindAnswersEntry, ReaderConstants
    <2> QED
      BY <1>2, <1>9, <2>4, <2>5
      DEF Reader!FindHit, Reader!ProbesInside, FindBorders, LowerBorders, ScanOverlays, ScanIsOver
  <1>10. CASE Reader!FindMiss
    <2>1. Reader!TypeOK'
      BY <1>1, <1>10 DEF Reader!TypeOK, Reader!FindMiss
    <2>2. ASSUME NEW i \in DOMAIN EntriesRead PROVE EntriesRead[i][1] # request.key
      <3>1. i <= l \/ i >= r
        BY <1>4, <1>10 DEF Reader!FindMiss
      <3>2. EntriesRead[i][1] \in Int /\ request.key \in Int
        BY <1>1, EntriesTyped DEF Table, ReaderConstants
      <3> QED
        BY <1>3, <3>1, <3>2 DEF Outside
    <2>3. Reader!FindAnswersEntry'
      BY <1>1, <1>10, <2>2 DEF Reader!FindAnswersEntry, Reader!FindMiss
    <2> QED
      BY <1>2, <1>10, <2>1, <2>3
      DEF Reader!FindMiss, Reader!ProbesInside, FindBorders, LowerBorders, ScanOverlays,
          ScanIsOver
  <1> QED
    BY <1>7, <1>8, <1>9, <1>10, Reader!FindStep DEF Reader!FindStep

(* An absent lower bound is below every key. *)
LEMMA StartFindRangeStep ==
  ASSUME SearchInv, ReaderConstants, NEW range \in Reader!KeyRange, NEW old \in Reader!Result,
         Reader!StartFindRange(range, old)
  PROVE  SearchInv'
  <1> USE DEF Reader!StartFindRange
  <1>1. Reader!TypeOK'
    BY DEF SearchInv, Reader!TypeOK, Reader!RangeRequest, Reader!BehindLast, Reader!kv_count,
           Table
  <1>2. Table'
    BY TableStays DEF SearchInv
  <1>3. Len(EntriesRead) \in Nat /\ Len(EntriesRead) > 0 /\ DOMAIN EntriesRead = 1 .. Len(EntriesRead)
    BY DEF SearchInv, Table
  <1>4. r' = Len(EntriesRead) + 1 /\ l' = 0
    BY DEF Reader!BehindLast, Reader!kv_count
  <1>5. Reader!ProbesInside'
    BY <1>2, <1>3, <1>4, NextProbe DEF SearchInv
  <1>6. LowerBorders'
    BY <1>3, <1>4 DEF LowerBorders, Outside
  <1>7. ScanOverlays'
    BY <1>3, <1>4 DEF ScanOverlays, Overlaid, Reader!AboveLower, Reader!InRange
  <1> QED
    BY <1>1, <1>2, <1>5, <1>6, <1>7 DEF SearchInv, FindBorders, ScanIsOver,
                                        Reader!FindAnswersEntry

(* What the search for the lower bound leaves to the scan. *)
LEMMA ScanStarts ==
  ASSUME Reader!TypeOK, ReaderConstants, Table, Table', l' \in 0 .. Len(EntriesRead),
         EntriesRead' = EntriesRead, request' = request, request \in Reader!RangeRequest,
         accumulated' = accumulated, accumulated = request.old,
         \A i \in DOMAIN EntriesRead : i <= l' => ~Reader!AboveLower(EntriesRead[i][1], request.range),
         \A i \in DOMAIN EntriesRead : i > l' => Reader!AboveLower(EntriesRead[i][1], request.range)
  PROVE  Overlaid'
  BY DEF Overlaid, Reader!InRange, Reader!AboveLower, Reader!AboveUpper

LEMMA LowerStepKeeps ==
  ASSUME SearchInv, ReaderConstants, Reader!LowerLeft \/ Reader!LowerRight \/ Reader!LowerHit \/ Reader!LowerMiss
  PROVE  SearchInv'
  <1> USE DEF SearchInv
  <1>1. /\ call = "lower" /\ request \in Reader!RangeRequest /\ request.range \in Reader!KeyRange
        /\ request.range.lower \in Key
        /\ EntriesRead' = EntriesRead /\ request' = request /\ accumulated' = accumulated
        /\ answer' = answer
    BY DEF Reader!LowerLeft, Reader!LowerRight, Reader!LowerHit, Reader!LowerMiss, Reader!TypeOK,
           Reader!RangeRequest, Reader!KeyRange
  <1> DEFINE lower == request.range.lower
  <1>2. Table'
    BY <1>1, TableStays
  <1>3. Outside(lower) /\ accumulated = request.old
    BY <1>1 DEF LowerBorders
  <1>4. /\ l \in Nat /\ r \in Nat /\ l < r /\ r <= Len(EntriesRead) + 1 /\ Len(EntriesRead) \in Nat
        /\ DOMAIN EntriesRead = 1 .. Len(EntriesRead)
    BY <1>1 DEF Reader!TypeOK, Reader!ProbesInside, Reader!BehindLast, Reader!kv_count, Table
  <1>5. l + 1 < r => /\ Reader!m \in DOMAIN EntriesRead
                     /\ Reader!m \in Nat /\ l < Reader!m /\ Reader!m < r
                     /\ Reader!KeyAt(Reader!m - 1) = EntriesRead[Reader!m][1]
    BY <1>1, ProbeTyped
  <1>6. lower \in Int /\ lower # nullopt /\ \A i \in DOMAIN EntriesRead : EntriesRead[i][1] \in Int
    BY <1>1, EntriesTyped DEF Table, ReaderConstants
  <1> HIDE DEF lower
  <1>7. CASE Reader!LowerLeft
    <2>1. Reader!TypeOK'
      BY <1>5, <1>7 DEF Reader!TypeOK, Reader!LowerLeft
    <2>2. Reader!ProbesInside'
      BY <1>1, <1>4, <1>5, <1>7, NextProbe DEF Reader!LowerLeft
    <2>3. LowerBorders'
      BY <1>1, <1>3, <1>5, <1>7, MoveRight DEF Reader!LowerLeft, LowerBorders, Outside, lower
    <2> QED
      BY <1>2, <1>7, <2>1, <2>2, <2>3
      DEF Reader!LowerLeft, FindBorders, ScanOverlays, ScanIsOver, Reader!FindAnswersEntry
  <1>8. CASE Reader!LowerRight
    <2>1. Reader!TypeOK'
      BY <1>5, <1>8 DEF Reader!TypeOK, Reader!LowerRight
    <2>2. Reader!ProbesInside'
      BY <1>1, <1>4, <1>5, <1>8, NextProbe DEF Reader!LowerRight
    <2>3. LowerBorders'
      BY <1>1, <1>3, <1>5, <1>8, MoveLeft DEF Reader!LowerRight, LowerBorders, Outside, lower
    <2> QED
      BY <1>2, <1>8, <2>1, <2>2, <2>3
      DEF Reader!LowerRight, FindBorders, ScanOverlays, ScanIsOver, Reader!FindAnswersEntry
  <1>9. CASE Reader!LowerHit
    <2>1. /\ lower = EntriesRead[Reader!m][1] /\ Reader!m \in DOMAIN EntriesRead /\ Reader!m \in Nat
          /\ l' = IF request.range.including_lower THEN Reader!m - 1 ELSE Reader!m
      BY <1>5, <1>9 DEF Reader!LowerHit, lower
    <2>2. Reader!TypeOK'
      BY <1>4, <1>9, <2>1 DEF Reader!TypeOK, Reader!LowerHit
    <2>3. \A i \in DOMAIN EntriesRead :
            (i < Reader!m => EntriesRead[i][1] < lower) /\ (i > Reader!m => EntriesRead[i][1] > lower)
      BY <2>1, <1>4, <1>6 DEF Table, Reader!Sorted
    <2>4. \A i \in DOMAIN EntriesRead : i <= l' => ~Reader!AboveLower(EntriesRead[i][1], request.range)
      BY <1>4, <1>6, <2>1, <2>3 DEF Reader!AboveLower, lower
    <2>5. \A i \in DOMAIN EntriesRead : i > l' => Reader!AboveLower(EntriesRead[i][1], request.range)
      BY <1>4, <1>6, <2>1, <2>3 DEF Reader!AboveLower, lower
    <2>6. Overlaid'
      BY <1>1, <1>2, <1>3, <1>4, <2>1, <2>4, <2>5, ScanStarts
    <2> QED
      BY <1>2, <1>9, <2>2, <2>6
      DEF Reader!LowerHit, Reader!ProbesInside, FindBorders, LowerBorders, ScanOverlays,
          ScanIsOver, Reader!FindAnswersEntry
  <1>10. CASE Reader!LowerMiss
    <2>1. l' = l /\ r = l + 1
      BY <1>4, <1>10 DEF Reader!LowerMiss
    <2>2. Reader!TypeOK'
      BY <1>10 DEF Reader!TypeOK, Reader!LowerMiss
    <2>4. \A i \in DOMAIN EntriesRead : i <= l' => ~Reader!AboveLower(EntriesRead[i][1], request.range)
      BY <1>3, <1>4, <1>6, <2>1 DEF Outside, Reader!AboveLower, lower
    <2>5. \A i \in DOMAIN EntriesRead : i > l' => Reader!AboveLower(EntriesRead[i][1], request.range)
      BY <1>3, <1>4, <1>6, <2>1 DEF Outside, Reader!AboveLower, lower
    <2>6. Overlaid'
      BY <1>1, <1>2, <1>3, <1>4, <2>1, <2>4, <2>5, ScanStarts
    <2> QED
      BY <1>2, <1>10, <2>2, <2>6
      DEF Reader!LowerMiss, Reader!ProbesInside, FindBorders, LowerBorders, ScanOverlays,
          ScanIsOver, Reader!FindAnswersEntry
  <1> QED
    BY <1>7, <1>8, <1>9, <1>10

LEMMA ScanEntryKeeps ==
  ASSUME SearchInv, ReaderConstants, Reader!ScanEntry
  PROVE  SearchInv'
  <1> USE DEF SearchInv, Reader!ScanEntry
  <1>1. Table' /\ EntriesRead' = EntriesRead /\ request' = request /\ request \in Reader!RangeRequest /\ Overlaid
    BY TableStays DEF Reader!TypeOK, ScanOverlays
  <1>2. /\ l \in Nat /\ Len(EntriesRead) \in Nat /\ DOMAIN EntriesRead = 1 .. Len(EntriesRead)
        /\ l < Len(EntriesRead) /\ l' = l + 1
    BY DEF Reader!TypeOK, Table, Reader!kv_count
  <1> DEFINE p == l + 1  key == EntriesRead[p][1]  entry == EntriesRead[p][2]
             new == IF entry = Empty THEN nullopt ELSE entry
  <1>3. p \in DOMAIN EntriesRead
    BY <1>2
  <1>4. key \in Key /\ entry \in Reader!Entry
    BY <1>3, EntriesTyped DEF Table
  <1>5. accumulated \in Reader!Result /\ accumulated' = [accumulated EXCEPT ![key] = new]
        /\ new \in Value \cup {nullopt}
    BY <1>4 DEF Reader!TypeOK, Reader!KeyAt, Reader!EntryAt, Reader!Accumulate, Reader!Entry
  <1>6. /\ accumulated' \in Reader!Result /\ accumulated'[key] = new
        /\ \A k \in Key : k # key => accumulated'[k] = accumulated[k]
    BY <1>4, <1>5 DEF Reader!Result
  <1>7. Reader!TypeOK'
    BY <1>1, <1>2, <1>6 DEF Reader!TypeOK
  <1>8. Reader!InRange(key, request.range)
    BY <1>1, <1>2, <1>3 DEF Overlaid, Reader!InRange, Reader!KeyAt
  <1>9. \A i \in DOMAIN EntriesRead : EntriesRead[i][1] = key => i = p
    <2> SUFFICES ASSUME NEW i \in DOMAIN EntriesRead, i # p PROVE EntriesRead[i][1] # key
      OBVIOUS
    <2>1. EntriesRead[i][1] \in Int /\ key \in Int
      BY <1>3, EntriesTyped DEF Table, ReaderConstants
    <2>2. i < p \/ p < i
      BY <1>2
    <2>3. EntriesRead[i][1] < key \/ key < EntriesRead[i][1]
      BY <1>3, <2>2 DEF Table, Reader!Sorted
    <2> QED
      BY <2>1, <2>3
  <1> HIDE DEF p, key, entry, new
  <1>10. \A i \in DOMAIN EntriesRead : i > l' => Reader!AboveLower(EntriesRead[i][1], request.range)
    BY <1>1, <1>2 DEF Overlaid
  <1>11. ASSUME NEW i \in DOMAIN EntriesRead, i <= l', Reader!InRange(EntriesRead[i][1], request.range)
         PROVE  accumulated'[EntriesRead[i][1]] = IF EntriesRead[i][2] = Empty THEN nullopt ELSE EntriesRead[i][2]
    <2>1. CASE i = p
      BY <2>1, <1>6 DEF key, entry, new
    <2>2. CASE i # p
      <3>1. i <= l /\ EntriesRead[i][1] # key
        BY <1>2, <1>9, <1>11, <2>2 DEF p
      <3>2. EntriesRead[i][1] \in Key
        BY EntriesTyped DEF Table
      <3>3. accumulated[EntriesRead[i][1]] = IF EntriesRead[i][2] = Empty THEN nullopt ELSE EntriesRead[i][2]
        BY <1>1, <1>11, <3>1 DEF Overlaid
      <3> QED
        BY <1>6, <3>1, <3>2, <3>3
    <2> QED
      BY <2>1, <2>2
  <1>12. ASSUME NEW k \in Key,
                \A i \in DOMAIN EntriesRead : i <= l' /\ EntriesRead[i][1] = k => ~Reader!InRange(k, request.range)
         PROVE  accumulated'[k] = request.old[k]
    <2>1. k # key
      BY <1>2, <1>3, <1>8, <1>12 DEF p, key
    <2>2. \A i \in DOMAIN EntriesRead : i <= l /\ EntriesRead[i][1] = k => ~Reader!InRange(k, request.range)
      BY <1>2, <1>12
    <2>3. accumulated[k] = request.old[k]
      BY <1>1, <2>2 DEF Overlaid
    <2> QED
      BY <1>6, <2>1, <2>3
  <1>13. Overlaid'
    BY <1>1, <1>2, <1>10, <1>11, <1>12 DEF Overlaid, Reader!InRange, Reader!AboveLower,
                                           Reader!AboveUpper
  <1> QED
    BY <1>1, <1>7, <1>13
    DEF Reader!ProbesInside, FindBorders, LowerBorders, ScanOverlays, ScanIsOver,
        Reader!FindAnswersEntry

(* The first key above the upper bound has only greater ones behind it. *)
LEMMA ScanEndKeeps ==
  ASSUME SearchInv, ReaderConstants, Reader!ScanEnd
  PROVE  SearchInv'
  <1> USE DEF SearchInv, Reader!ScanEnd
  <1>1. Table' /\ request \in Reader!RangeRequest /\ request.range \in Reader!KeyRange /\ Overlaid
    BY TableStays DEF Reader!TypeOK, ScanOverlays, Reader!RangeRequest
  <1>2. l \in Nat /\ Len(EntriesRead) \in Nat /\ DOMAIN EntriesRead = 1 .. Len(EntriesRead)
    BY DEF Reader!TypeOK, Table
  <1>3. ASSUME NEW i \in DOMAIN EntriesRead, i > l
        PROVE  ~Reader!InRange(EntriesRead[i][1], request.range)
    <2>1. l < Len(EntriesRead) /\ l + 1 \in DOMAIN EntriesRead
      BY <1>2, <1>3
    <2>2. Reader!AboveUpper(EntriesRead[l + 1][1], request.range)
      BY <2>1 DEF Reader!KeyAt, Reader!kv_count
    <2>3. i = l + 1 \/ EntriesRead[l + 1][1] < EntriesRead[i][1]
      <3>1. i = l + 1 \/ l + 1 < i
        BY <1>2, <1>3
      <3>2. Reader!Sorted(EntriesRead)
        BY DEF Table
      <3> HIDE DEF SearchInv, Reader!ScanEnd
      <3> QED
        BY <1>3, <2>1, <3>1, <3>2 DEF Reader!Sorted
    <2>4. EntriesRead[i][1] \in Int /\ EntriesRead[l + 1][1] \in Int
      BY <2>1, EntriesTyped DEF Table, ReaderConstants
    <2>5. request.range.upper # nullopt /\ request.range.upper \in Int
      BY <1>1, <2>2 DEF Reader!AboveUpper, Reader!KeyRange, ReaderConstants
    <2>6. Reader!AboveUpper(EntriesRead[i][1], request.range)
      BY <2>2, <2>3, <2>4, <2>5 DEF Reader!AboveUpper
    <2> QED
      BY <2>6 DEF Reader!InRange
  <1>4. Reader!TypeOK'
    BY DEF Reader!TypeOK
  <1>5. Overlaid'
    BY <1>1 DEF Overlaid, Reader!InRange, Reader!AboveLower, Reader!AboveUpper
  <1>6. NothingLeft'
    BY <1>3 DEF NothingLeft, Reader!InRange, Reader!AboveLower, Reader!AboveUpper
  <1> QED
    BY <1>1, <1>4, <1>5, <1>6
    DEF Reader!ProbesInside, FindBorders, LowerBorders, ScanOverlays, ScanIsOver,
        Reader!FindAnswersEntry

LEMMA ReturnKeeps == ASSUME SearchInv, Reader!Return PROVE SearchInv'
  <1>1. Table' /\ Reader!TypeOK'
    BY TableStays DEF SearchInv, Reader!Return, Reader!TypeOK, Reader!Nothing, Reader!Result
  <1> QED
    BY <1>1 DEF SearchInv, Reader!Return, Reader!ProbesInside, FindBorders, LowerBorders,
                ScanOverlays,
                ScanIsOver, Reader!FindAnswersEntry

LEMMA SearchStep == ASSUME SearchInv, ReaderConstants, [Reader!Next]_(Reader!vars) PROVE SearchInv'
  <1>1. CASE Reader!Call
    BY <1>1, StartFindStep, StartFindRangeStep DEF Reader!Call
  <1>2. CASE Reader!FindStep
    BY <1>2, FindStepKeeps
  <1>3. CASE Reader!RangeStep
    BY <1>3, LowerStepKeeps, ScanEntryKeeps, ScanEndKeeps DEF Reader!RangeStep
  <1>4. CASE Reader!Return
    BY <1>4, ReturnKeeps
  <1>5. CASE UNCHANGED Reader!vars
    <2> USE <1>5 DEF Reader!vars, SearchInv
    <2>1. Table' /\ Reader!TypeOK'
      BY DEF Table, Reader!Sorted, Reader!TypeOK
    <2>2. Reader!ProbesInside'
      BY DEF Reader!ProbesInside, Reader!BehindLast, Reader!kv_count, Reader!m
    <2>3. FindBorders' /\ LowerBorders'
      BY DEF FindBorders, LowerBorders, Outside
    <2>4. ScanOverlays'
      BY DEF ScanOverlays, Overlaid, Reader!InRange, Reader!AboveLower, Reader!AboveUpper
    <2>5. ScanIsOver'
      BY DEF ScanIsOver, NothingLeft, Reader!InRange, Reader!AboveLower, Reader!AboveUpper
    <2>6. Reader!FindAnswersEntry'
      BY DEF Reader!FindAnswersEntry
    <2> QED
      BY <2>1, <2>2, <2>3, <2>4, <2>5, <2>6
  <1> QED
    BY <1>1, <1>2, <1>3, <1>4, <1>5 DEF Reader!Next

----------------------------------------------------------------------------
(* What a finished FindRange has scanned is the whole range. *)
LEMMA OverlaidIsRange ==
  ASSUME SearchInv
  PROVE  Reader!FindRangeOverlays
  <1> SUFFICES ASSUME call = "accumulated" PROVE Reader!FindRangeOverlays
    BY DEF Reader!FindRangeOverlays
  <1>1. Overlaid /\ NothingLeft
    BY DEF SearchInv, ScanOverlays, ScanIsOver
  <1>2. l \in Nat /\ DOMAIN EntriesRead \subseteq Nat
    BY DEF SearchInv, Reader!TypeOK, Table
  <1>3. \A i \in DOMAIN EntriesRead : Reader!InRange(EntriesRead[i][1], request.range) => i <= l
    BY <1>1, <1>2 DEF NothingLeft
  <1> QED
    BY <1>1, <1>3 DEF Overlaid, Reader!FindRangeOverlays

----------------------------------------------------------------------------

LEMMA EntriesAreWritten == ASSUME WriteInv, pc = "read" PROVE EntriesRead = Written
<1>1. /\ Complete /\ Written \in Seq(Key \X Entry) /\ Len(Written) \in Nat
  <2>1. Complete
    BY DEF Complete
  <2> QED
    BY <2>1, AtEnd, OffIs
<1>2. /\ meta.kv_count = Len(Written)
      /\ \A i \in 0 .. Len(Written) - 1 :
           <<GetIthKey(i).key, GetValue(GetIthKey(i))>> = Written[i + 1]
  BY <1>1, IndexRead
<1>3. EntriesRead = [i \in 1 .. Len(Written) |-> <<GetIthKey(i - 1).key, GetValue(GetIthKey(i - 1))>>]
  BY <1>2 DEF EntriesRead
<1>4. ASSUME NEW i \in 1 .. Len(Written)
      PROVE  <<GetIthKey(i - 1).key, GetValue(GetIthKey(i - 1))>> = Written[i]
  <2>1. i - 1 \in 0 .. Len(Written) - 1 /\ i - 1 + 1 = i
    BY <1>1
  <2> QED
    BY <1>2, <2>1
<1>5. EntriesRead = [i \in 1 .. Len(Written) |-> Written[i]]
  BY <1>3, <1>4
<1> QED
  BY <1>1, <1>5

LEMMA ReaderConstantsHold == ReaderConstants
BY KeyAssumption, SentinelAssumption DEF ReaderConstants, Reader!Entry, Entry

LEMMA TableToSearch == WriteInv /\ pc = "read" /\ Reader!Idle => SearchInv
<1> SUFFICES ASSUME WriteInv, pc = "read", Reader!Idle PROVE SearchInv
  OBVIOUS
<1>1. EntriesRead = Written
  BY EntriesAreWritten
<1>2. Written \in Seq(Key \X Entry) /\ Written # <<>>
  <2>1. Complete
    BY DEF Complete
  <2>2. Written \in Seq(Key \X Entry) /\ Len(Written) > 0
    BY <2>1, AtEnd, OffIs
  <2> QED
    BY <2>2
<1>3. Sorted(Written)
  BY KeptSorted DEF WriteInv
<1>4. Reader!Init
  BY <1>1, <1>2, <1>3 DEF Reader!Init, Reader!Sorted, Sorted, Reader!Entry, Entry
<1> QED
  BY <1>4, SearchInit

LEMMA TableToSearchPrimed ==
  WriteInv' /\ (pc = "read")' /\ Reader!Idle' => SearchInv'
BY TableToSearch, PTL

(* A search begins when the table is complete and its keys are sorted; from *)
(* then on no step touches the file.                                        *)
SearchesInv == IF pc = "read" THEN SearchInv ELSE Reader!Idle

TableInv == FileInv /\ SearchesInv

LEMMA TableInvInit == TableInit => TableInv
<1> SUFFICES ASSUME TableInit PROVE TableInv
  OBVIOUS
<1>1. FileInv
  BY FileInvInit DEF TableInit
<1>2. pc # "read"
  BY DEF TableInit, Init
<1>3. Reader!Idle
  BY DEF TableInit
<1> QED
  BY <1>1, <1>2, <1>3 DEF TableInv, SearchesInv

LEMMA EntriesReadStay == ASSUME UNCHANGED vars PROVE EntriesRead' = EntriesRead
<1>1. file' = file /\ st_size' = st_size /\ pc' = pc
  BY DEF vars
<1>2. \A kind, o : Pread(kind, o)' = Pread(kind, o)
  BY <1>1 DEF Pread
<1>3. meta' = meta
  BY <1>1, <1>2 DEF meta
<1>4. \A o : KeyAt(o)' = KeyAt(o)
  BY <1>2 DEF KeyAt
<1>5. \A i : GetIthKey(i)' = GetIthKey(i)
  BY <1>2, <1>3, <1>4 DEF GetIthKey
<1>6. \A token : GetValue(token)' = GetValue(token)
  BY <1>2 DEF GetValue
<1> DEFINE shown(i) == <<GetIthKey(i).key, GetValue(GetIthKey(i))>>
<1>7. \A i : shown(i)' = shown(i)
  BY <1>5, <1>6
<1> QED
  BY <1>1, <1>3, <1>7 DEF EntriesRead

LEMMA TableInvStep == TableInv /\ [TableNext]_tableVars => TableInv'
<1> SUFFICES ASSUME TableInv, [TableNext]_tableVars PROVE TableInv'
  OBVIOUS
<1>1. FileInv /\ SearchesInv
  BY DEF TableInv
<1>2. [Next]_vars
  BY DEF TableNext, Search, tableVars
<1>3. FileInv'
  BY <1>1, <1>2, FileInvStep
<1>4. CASE pc = "read" /\ UNCHANGED vars /\ [Reader!Next]_searchVars
  <2>1. [Reader!Next]_(Reader!vars)
    BY <1>4, EntriesReadStay DEF searchVars, Reader!vars
  <2>2. SearchInv
    BY <1>1, <1>4 DEF SearchesInv
  <2>3. SearchInv'
    BY <2>1, <2>2, ReaderConstantsHold, SearchStep
  <2>4. pc' = "read"
    BY <1>4 DEF vars
  <2> QED
    BY <1>3, <2>3, <2>4 DEF TableInv, SearchesInv
<1>5. CASE UNCHANGED searchVars /\ pc # "read"
  <2>1. Reader!Idle'
    BY <1>1, <1>5 DEF SearchesInv, searchVars, Reader!Idle, Reader!Nothing
  <2>2. (pc = "read")' => SearchInv'
    BY <1>3, <2>1, TableToSearchPrimed DEF FileInv
  <2> QED
    BY <1>3, <2>1, <2>2 DEF TableInv, SearchesInv
<1>6. CASE UNCHANGED searchVars /\ pc = "read"
  <2>1. UNCHANGED vars
    BY <1>2, <1>6 DEF Next, SkipEntry, FlushEntry, MergeEntry, EndOfData, MakeFilterBlockInFd,
                      WriteIndexBlock, WriteMetaBlock, Begin, Advance, Exhausted
  <2> QED
    BY <1>4, <1>6, <2>1
<1> QED
  BY <1>1, <1>4, <1>5, <1>6 DEF TableNext, Search, tableVars

(* Find over the file: its binary search, through the index and the meta   *)
(* block that either writer wrote, answers exactly the entry written for   *)
(* the key.                                                                *)
THEOREM FileFindIsCorrect == TableSpec => []FindAnswersEntry
<1>1. TableInv => FindAnswersEntry
  BY DEF TableInv, SearchesInv, FindAnswersEntry, Reader!FindAnswersEntry, SearchInv, Reader!Idle
<1> QED
  BY <1>1, TableInvInit, TableInvStep, PTL DEF TableSpec

(* FindRange over the file overlays exactly the entries that were written  *)
(* inside the range.                                                       *)
THEOREM FileFindRangeIsCorrect == TableSpec => []FindRangeOverlays
<1>1. ASSUME TableInv PROVE FindRangeOverlays
  <2>1. Reader!Idle \/ Reader!FindRangeOverlays
    BY <1>1, OverlaidIsRange DEF TableInv, SearchesInv
  <2> QED
    BY <2>1 DEF FindRangeOverlays, Reader!FindRangeOverlays, Reader!Idle
<1> QED
  BY <1>1, TableInvInit, TableInvStep, PTL DEF TableSpec

(* Over the file too a search keeps its variables typed and its probes     *)
(* inside the table, whatever the table's length and the order of the      *)
(* calls.                                                                  *)
THEOREM FileSearchesStayInside == TableSpec => [](Reader!TypeOK /\ Reader!ProbesInside)
<1>1. ASSUME TableInv PROVE Reader!TypeOK /\ Reader!ProbesInside
  <2>1. CASE pc = "read"
    BY <1>1, <2>1 DEF TableInv, SearchesInv, SearchInv
  <2>2. CASE pc # "read"
    <3>1. Reader!Idle
      BY <1>1, <2>2 DEF TableInv, SearchesInv
    <3>2. EntriesRead \in Seq(Key \X Reader!Entry)
      <4>1. DOMAIN EntriesRead = {}
        BY <2>2 DEF EntriesRead
      <4>2. EntriesRead = [i \in 1 .. 0 |-> i]
        BY <2>2 DEF EntriesRead
      <4> QED
        BY <4>2
    <3> QED
      BY <3>1, <3>2 DEF Reader!Idle, Reader!TypeOK, Reader!ProbesInside, Reader!Nothing,
                        Reader!Result
  <2> QED
    BY <2>1, <2>2
<1> QED
  BY <1>1, TableInvInit, TableInvStep, PTL DEF TableSpec
=============================================================================
