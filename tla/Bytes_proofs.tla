---------------------------- MODULE Bytes_proofs ----------------------------
(***************************************************************************)
(* The two places where bytes are laid out by hand.                        *)
(*                                                                         *)
(* KVBuffer: whatever was appended, cleared or has failed before, the      *)
(* buffer gives every entry back, and compares keys of at most a slice as  *)
(* std::map would.  Why: appending leaves every byte where it is, and byte *)
(* p of what was appended is byte p % slice_size of slice p \div           *)
(* slice_size, wherever the pieces were cut.                               *)
(*                                                                         *)
(* SaveLoad: a file that was written to the end is read back as the tree   *)
(* that was saved, and a shorter one as what is whole in it.               *)
(* Why: a file is always a beginning of the whole one, and while what is   *)
(* left of it is whole the constructor stands where the next part begins.  *)
(***************************************************************************)
EXTENDS KVBuffer, SaveLoad, LeastNaturals, SequenceTheorems, TLAPS

----------------------------------------------------------------------------
(* Places: the byte p lies in slice p \div slice_size. *)

LEMMA SliceProduct ==
  ASSUME NEW a \in Nat, NEW b \in Nat
  PROVE  a * b \in Nat /\ (a + 1) * b = a * b + b
OBVIOUS

LEMMA SliceProductGrows ==
  ASSUME NEW a \in Nat, NEW c \in Nat, NEW b \in Nat, a <= c
  PROVE  a * b <= c * b
OBVIOUS

LEMMA Place ==
  ASSUME NEW p \in Nat
  PROVE  /\ p \div slice_size \in Nat /\ p % slice_size \in 0 .. slice_size - 1
         /\ p = (p \div slice_size) * slice_size + (p % slice_size)
<1>0. slice_size \in Nat \ {0}
  BY SliceAssumption
<1>1. p % slice_size \in 0 .. slice_size - 1
  BY <1>0
<1>2. p = (p \div slice_size) * slice_size + (p % slice_size)
  BY <1>0
<1>3. p \div slice_size \in Int
  BY <1>0
<1>4. p \div slice_size >= 0
  BY <1>0
<1> QED
  BY <1>1, <1>2, <1>3, <1>4

(* There is only one way to write a place as a slice and a rest. *)
LEMMA OnePlace ==
  ASSUME NEW q \in Nat, NEW r \in 0 .. slice_size - 1
  PROVE  /\ q * slice_size + r \in Nat
         /\ (q * slice_size + r) \div slice_size = q
         /\ (q * slice_size + r) % slice_size = r
<1>0. slice_size \in Nat \ {0}
  BY SliceAssumption
<1>1. q * slice_size \in Nat
  BY <1>0, SliceProduct
<1> DEFINE p == q * slice_size + r
           d == p \div slice_size
           m == p % slice_size
<1>2. p \in Nat
  BY <1>0, <1>1
<1>3. d \in Nat /\ m \in 0 .. slice_size - 1 /\ p = d * slice_size + m
  BY <1>2, Place
<1>4. d = q
  <2> HIDE DEF d, m
  <2>1. CASE d < q
    <3>1. (d + 1) * slice_size <= q * slice_size
      BY <1>0, <1>3, <2>1, SliceProductGrows
    <3>2. (d + 1) * slice_size = d * slice_size + slice_size /\ d * slice_size \in Nat
      BY <1>0, <1>3, SliceProduct
    <3> QED
      BY <1>0, <1>1, <1>3, <3>1, <3>2
  <2>2. CASE q < d
    <3>1. (q + 1) * slice_size <= d * slice_size
      BY <1>0, <1>3, <2>2, SliceProductGrows
    <3>2. (q + 1) * slice_size = q * slice_size + slice_size /\ d * slice_size \in Nat
      BY <1>0, <1>3, SliceProduct
    <3> QED
      BY <1>0, <1>1, <1>3, <3>1, <3>2
  <2> QED
    BY <1>3, <2>1, <2>2
<1>5. m = r
  <2> HIDE DEF d, m
  <2> QED
    BY <1>0, <1>1, <1>3, <1>4
<1> QED
  BY <1>2, <1>4, <1>5

(* What lies at or behind the start of slice q lies in slice q or behind.  *)
LEMMA SliceOf ==
  ASSUME NEW p \in Nat, NEW q \in Nat
  PROVE  /\ q * slice_size <= p => q <= p \div slice_size
         /\ p < q * slice_size => p \div slice_size < q
<1>0. slice_size \in Nat \ {0}
  BY SliceAssumption
<1>1. PICK d \in Nat, m \in 0 .. slice_size - 1 :
        d = p \div slice_size /\ p = d * slice_size + m
  BY Place
<1>2. d * slice_size \in Nat /\ q * slice_size \in Nat /\ (d + 1) * slice_size = d * slice_size + slice_size
  BY <1>0, SliceProduct
<1>3. d < q => (d + 1) * slice_size <= q * slice_size
  BY <1>0, SliceProductGrows
<1>4. q <= d => q * slice_size <= d * slice_size
  BY <1>0, SliceProductGrows
<1> QED
  BY <1>0, <1>1, <1>2, <1>3, <1>4

LEMMA LessOf ==
  ASSUME NEW a \in Int, NEW b \in Int
  PROVE  Min({a, b}) = (IF a <= b THEN a ELSE b) /\ Max({a, b}) = (IF a >= b THEN a ELSE b)
BY DEF Min, Max

----------------------------------------------------------------------------
(* Slices, and what they hold. *)

IsSlices(sl) ==
  /\ sl \in Seq(Seq(Nat)) /\ sl # <<>>
  /\ \A i \in 1 .. Len(sl) : Len(sl[i]) <= slice_size

(* sl2 has everything that sl has, in its place; the slices it has beyond  *)
(* those are full, the last one excepted.                                  *)
Grows(sl, sl2) ==
  /\ Len(sl) <= Len(sl2)
  /\ \A i \in 1 .. Len(sl) - 1 : sl2[i] = sl[i]
  /\ Len(sl[Len(sl)]) <= Len(sl2[Len(sl)])
  /\ \A b \in 1 .. Len(sl[Len(sl)]) : sl2[Len(sl)][b] = sl[Len(sl)][b]
  /\ \A i \in Len(sl) .. Len(sl2) - 1 : Len(sl2[i]) = slice_size

(* From offset on the slices are full and hold bytes.  *)
Holds(sl, offset, bytes) ==
  /\ offset + Len(bytes) <= GetTotalKVSizeInBytes(sl)
  /\ \A i \in (offset \div slice_size) + 1 .. Len(sl) - 1 : Len(sl[i]) = slice_size
  /\ \A n \in 1 .. Len(bytes) :
       sl[((offset + n - 1) \div slice_size) + 1][((offset + n - 1) % slice_size) + 1] = bytes[n]

LEMMA TotalIs ==
  ASSUME NEW sl, IsSlices(sl)
  PROVE  /\ Len(sl) \in Nat \ {0} /\ Len(sl[Len(sl)]) \in 0 .. slice_size
         /\ sl[Len(sl)] \in Seq(Nat)
         /\ (Len(sl) - 1) * slice_size \in Nat
         /\ GetTotalKVSizeInBytes(sl) = (Len(sl) - 1) * slice_size + Len(sl[Len(sl)])
         /\ GetTotalKVSizeInBytes(sl) \in Nat
         /\ Len(sl) * slice_size = (Len(sl) - 1) * slice_size + slice_size
<1>0. slice_size \in Nat \ {0}
  BY SliceAssumption
<1>1. Len(sl) \in Nat \ {0} /\ sl[Len(sl)] \in Seq(Nat) /\ Len(sl[Len(sl)]) <= slice_size
  BY DEF IsSlices
<1>2. Len(sl) - 1 \in Nat /\ (Len(sl) - 1) + 1 = Len(sl) /\ Len(sl[Len(sl)]) \in Nat
  BY <1>1
<1>3. (Len(sl) - 1) * slice_size \in Nat
      /\ ((Len(sl) - 1) + 1) * slice_size = (Len(sl) - 1) * slice_size + slice_size
  BY <1>0, <1>2, SliceProduct
<1>4. GetTotalKVSizeInBytes(sl) = (Len(sl) - 1) * slice_size + Len(sl[Len(sl)])
  BY DEF GetTotalKVSizeInBytes, Back
<1> QED
  BY <1>0, <1>1, <1>2, <1>3, <1>4

(* A byte below the total lies in a slice, if those before the last that   *)
(* are asked for are full.                                                 *)
LEMMA InSlices ==
  ASSUME NEW sl, IsSlices(sl), NEW q \in Nat, NEW r \in 0 .. slice_size - 1,
         q * slice_size + r < GetTotalKVSizeInBytes(sl),
         q + 1 < Len(sl) => Len(sl[q + 1]) = slice_size
  PROVE  q + 1 \in 1 .. Len(sl) /\ r + 1 \in 1 .. Len(sl[q + 1])
<1>0. slice_size \in Nat \ {0}
  BY SliceAssumption
<1> DEFINE k == Len(sl)
           z == Len(sl[k])
<1>1. /\ k \in Nat \ {0} /\ z \in 0 .. slice_size /\ (k - 1) * slice_size \in Nat
      /\ GetTotalKVSizeInBytes(sl) = (k - 1) * slice_size + z
      /\ k * slice_size = (k - 1) * slice_size + slice_size
  BY TotalIs
<1>2. q * slice_size \in Nat
  BY <1>0, SliceProduct
<1>3. k <= q => k * slice_size <= q * slice_size
  BY <1>0, <1>1, SliceProductGrows
<1> HIDE DEF k, z
<1>4. q + 1 <= k
  BY <1>0, <1>1, <1>2, <1>3
<1>5. CASE q + 1 < k
  <2>1. Len(sl[q + 1]) = slice_size
    BY <1>5 DEF k
  <2> QED
    BY <1>0, <1>4, <2>1 DEF k
<1>6. CASE q + 1 = k
  <2>1. q = k - 1
    BY <1>1, <1>6
  <2>2. q * slice_size = (k - 1) * slice_size
    BY <2>1
  <2>3. r < z
    BY <1>0, <1>1, <1>2, <2>2
  <2> QED
    BY <1>1, <1>6, <2>3 DEF k, z
<1> QED
  BY <1>1, <1>4, <1>5, <1>6

(* The n-th byte behind offset is byte r of slice q. *)
IsPlace(offset, n, q, r) == offset + n - 1 = q * slice_size + r

LEMMA ByteHeld ==
  ASSUME NEW sl, IsSlices(sl), NEW offset \in Nat, NEW bytes \in Seq(Nat),
         Holds(sl, offset, bytes), NEW q \in Nat, NEW r \in 0 .. slice_size - 1,
         NEW n \in 1 .. Len(bytes), IsPlace(offset, n, q, r)
  PROVE  /\ q + 1 \in 1 .. Len(sl) /\ r + 1 \in 1 .. Len(sl[q + 1])
         /\ sl[q + 1][r + 1] = bytes[n]
<1>0. slice_size \in Nat \ {0}
  BY SliceAssumption
<1>9. offset + n - 1 = q * slice_size + r
  BY DEF IsPlace
<1>1. (q * slice_size + r) \div slice_size = q /\ (q * slice_size + r) % slice_size = r
  BY OnePlace
<1>2. /\ offset + Len(bytes) <= GetTotalKVSizeInBytes(sl)
      /\ \A i \in (offset \div slice_size) + 1 .. Len(sl) - 1 : Len(sl[i]) = slice_size
      /\ sl[((offset + n - 1) \div slice_size) + 1][((offset + n - 1) % slice_size) + 1] = bytes[n]
  BY DEF Holds
<1>3. sl[q + 1][r + 1] = bytes[n]
  BY <1>1, <1>2, <1>9
<1>4. offset \div slice_size \in Nat /\ offset = (offset \div slice_size) * slice_size + (offset % slice_size)
      /\ offset % slice_size \in 0 .. slice_size - 1
  BY Place
<1>5. offset \div slice_size <= q
  <2>1. q * slice_size \in Nat /\ (q + 1) * slice_size = q * slice_size + slice_size
    BY <1>0, SliceProduct
  <2>2. offset < (q + 1) * slice_size
    <3>1. Len(bytes) \in Nat /\ n \in Nat /\ n >= 1
      OBVIOUS
    <3> QED
      BY <1>0, <1>9, <2>1, <3>1
  <2>3. offset \div slice_size < q + 1
    <3>1. q + 1 \in Nat
      OBVIOUS
    <3> QED
      BY <2>2, <3>1, SliceOf
  <2> QED
    BY <1>4, <2>3
<1>6. q + 1 < Len(sl) => Len(sl[q + 1]) = slice_size
  <2>1. Len(sl) \in Nat
    BY TotalIs
  <2>2. q + 1 < Len(sl) => q + 1 \in (offset \div slice_size) + 1 .. Len(sl) - 1
    BY <1>4, <1>5, <2>1
  <2> QED
    BY <1>2, <2>2
<1>7. q * slice_size + r < GetTotalKVSizeInBytes(sl)
  <2>1. GetTotalKVSizeInBytes(sl) \in Nat /\ Len(bytes) \in Nat /\ n \in Nat /\ n <= Len(bytes)
    BY TotalIs
  <2>2. q * slice_size + r < offset + Len(bytes)
    <3>1. q * slice_size \in Nat /\ r \in Nat
      BY <1>0, SliceProduct
    <3> QED
      BY <1>9, <2>1, <3>1
  <2>3. q * slice_size + r \in Nat
    BY OnePlace
  <2> QED
    BY <1>2, <2>1, <2>2, <2>3
<1>8. q + 1 \in 1 .. Len(sl) /\ r + 1 \in 1 .. Len(sl[q + 1])
  BY <1>6, <1>7, InSlices
<1> QED
  BY <1>3, <1>8

LEMMA BytesHeld ==
  ASSUME NEW sl, IsSlices(sl), NEW offset \in Nat, NEW bytes \in Seq(Nat), Holds(sl, offset, bytes)
  PROVE  \A q \in Nat, r \in 0 .. slice_size - 1, n \in 1 .. Len(bytes) :
           IsPlace(offset, n, q, r) => sl[q + 1][r + 1] = bytes[n]
<1>1. SUFFICES ASSUME NEW q \in Nat, NEW r \in 0 .. slice_size - 1, NEW n \in 1 .. Len(bytes),
                      IsPlace(offset, n, q, r)
               PROVE  sl[q + 1][r + 1] = bytes[n]
  OBVIOUS
<1>2. offset + n - 1 = q * slice_size + r
  BY <1>1 DEF IsPlace
<1>3. (q * slice_size + r) \div slice_size = q /\ (q * slice_size + r) % slice_size = r
  BY OnePlace
<1>4. sl[((offset + n - 1) \div slice_size) + 1][((offset + n - 1) % slice_size) + 1] = bytes[n]
  BY DEF Holds
<1> QED
  BY <1>2, <1>3, <1>4

LEMMA GrowsTotal ==
  ASSUME NEW sl, NEW sl2, IsSlices(sl), IsSlices(sl2), Grows(sl, sl2)
  PROVE  GetTotalKVSizeInBytes(sl) <= GetTotalKVSizeInBytes(sl2)
<1>0. slice_size \in Nat \ {0}
  BY SliceAssumption
<1> DEFINE k == Len(sl)
           z == Len(sl[k])
           l == Len(sl2)
           y == Len(sl2[l])
<1>1. /\ k \in Nat \ {0} /\ z \in 0 .. slice_size /\ (k - 1) * slice_size \in Nat
      /\ GetTotalKVSizeInBytes(sl) = (k - 1) * slice_size + z
      /\ k * slice_size = (k - 1) * slice_size + slice_size
  BY TotalIs
<1>2. /\ l \in Nat \ {0} /\ y \in 0 .. slice_size /\ (l - 1) * slice_size \in Nat
      /\ GetTotalKVSizeInBytes(sl2) = (l - 1) * slice_size + y
  BY TotalIs
<1>3. k <= l /\ z <= Len(sl2[k])
  BY DEF Grows
<1> HIDE DEF k, z, l, y
<1>4. CASE k = l
  <2>1. z <= y
    BY <1>3, <1>4 DEF y
  <2> QED
    BY <1>1, <1>2, <1>4, <2>1
<1>5. CASE k < l
  <2>1. k * slice_size <= (l - 1) * slice_size
    BY <1>0, <1>1, <1>2, <1>5, SliceProductGrows
  <2> QED
    BY <1>0, <1>1, <1>2, <2>1
<1> QED
  BY <1>1, <1>2, <1>3, <1>4, <1>5

LEMMA GrowsHolds ==
  ASSUME NEW sl, NEW sl2, IsSlices(sl), IsSlices(sl2), Grows(sl, sl2),
         NEW offset \in Nat, NEW bytes \in Seq(Nat), Holds(sl, offset, bytes)
  PROVE  Holds(sl2, offset, bytes)
<1>0. slice_size \in Nat \ {0}
  BY SliceAssumption
<1>1. GetTotalKVSizeInBytes(sl) <= GetTotalKVSizeInBytes(sl2)
  BY GrowsTotal
<1>2. /\ GetTotalKVSizeInBytes(sl) \in Nat /\ GetTotalKVSizeInBytes(sl2) \in Nat
      /\ Len(sl) \in Nat \ {0} /\ Len(sl2) \in Nat \ {0} /\ Len(bytes) \in Nat
  BY TotalIs
<1>3. offset + Len(bytes) <= GetTotalKVSizeInBytes(sl2)
  BY <1>1, <1>2 DEF Holds
<1>4. ASSUME NEW i \in (offset \div slice_size) + 1 .. Len(sl2) - 1 PROVE Len(sl2[i]) = slice_size
  <2>1. offset \div slice_size \in Nat
    BY Place
  <2>2. CASE i < Len(sl)
    <3>1. i \in (offset \div slice_size) + 1 .. Len(sl) - 1 /\ i \in 1 .. Len(sl) - 1
      BY <1>2, <2>1, <2>2
    <3> QED
      BY <3>1 DEF Holds, Grows
  <2>3. CASE i >= Len(sl)
    <3>1. i \in Len(sl) .. Len(sl2) - 1
      BY <1>2, <2>1, <2>3
    <3> QED
      BY <3>1 DEF Grows
  <2> QED
    BY <1>2, <2>1, <2>2, <2>3
<1>5. ASSUME NEW n \in 1 .. Len(bytes)
      PROVE  sl2[((offset + n - 1) \div slice_size) + 1][((offset + n - 1) % slice_size) + 1] = bytes[n]
  <2>1. offset + n - 1 \in Nat
    BY <1>2
  <2>2. PICK q \in Nat, r \in 0 .. slice_size - 1 :
          /\ q = (offset + n - 1) \div slice_size /\ r = (offset + n - 1) % slice_size
          /\ offset + n - 1 = q * slice_size + r
    BY <2>1, Place
  <2>6. IsPlace(offset, n, q, r)
    BY <2>2 DEF IsPlace
  <2>3. q + 1 \in 1 .. Len(sl) /\ r + 1 \in 1 .. Len(sl[q + 1]) /\ sl[q + 1][r + 1] = bytes[n]
    BY <2>6, ByteHeld
  <2>4. CASE q + 1 = Len(sl)
    <3>1. sl2[q + 1][r + 1] = sl[q + 1][r + 1]
      BY <2>3, <2>4 DEF Grows
    <3> QED
      BY <2>2, <2>3, <3>1
  <2>5. CASE q + 1 # Len(sl)
    <3>1. q + 1 \in 1 .. Len(sl) - 1
      BY <1>2, <2>3, <2>5
    <3>2. sl2[q + 1] = sl[q + 1]
      BY <3>1 DEF Grows
    <3> QED
      BY <2>2, <2>3, <3>2
  <2> QED
    BY <2>4, <2>5
<1> QED
  BY <1>3, <1>4, <1>5 DEF Holds

LEMMA GrowsTwice ==
  ASSUME NEW sl, NEW sl2, NEW sl3, IsSlices(sl), IsSlices(sl2), IsSlices(sl3),
         Grows(sl, sl2), Grows(sl2, sl3)
  PROVE  Grows(sl, sl3)
<1> DEFINE k == Len(sl)
           l == Len(sl2)
           m == Len(sl3)
<1>1. k \in Nat \ {0} /\ l \in Nat \ {0} /\ m \in Nat \ {0} /\ k <= l /\ l <= m
  BY TotalIs DEF Grows
<1>2. ASSUME NEW i \in 1 .. k - 1 PROVE sl3[i] = sl[i]
  <2>1. i \in 1 .. l - 1
    BY <1>1
  <2> QED
    BY <1>2, <2>1 DEF Grows
<1>3. Len(sl[k]) <= Len(sl3[k]) /\ \A b \in 1 .. Len(sl[k]) : sl3[k][b] = sl[k][b]
  <2>1. /\ Len(sl[k]) <= Len(sl2[k])
        /\ \A b \in 1 .. Len(sl[k]) : sl2[k][b] = sl[k][b]
    BY DEF Grows
  <2>2. CASE k = l
    <3>1. /\ Len(sl2[k]) <= Len(sl3[k])
          /\ \A b \in 1 .. Len(sl2[k]) : sl3[k][b] = sl2[k][b]
      BY <2>2 DEF Grows
    <3>2. Len(sl[k]) \in Nat /\ Len(sl2[k]) \in Nat /\ Len(sl3[k]) \in Nat
      BY <1>1 DEF IsSlices
    <3>3. \A b \in 1 .. Len(sl[k]) : b \in 1 .. Len(sl2[k])
      BY <2>1, <3>2
    <3> QED
      BY <2>1, <3>1, <3>2, <3>3
  <2>3. CASE k # l
    <3>1. k \in 1 .. l - 1
      BY <1>1, <2>3
    <3>2. sl3[k] = sl2[k]
      BY <3>1 DEF Grows
    <3> QED
      BY <2>1, <3>2
  <2> QED
    BY <2>2, <2>3
<1>4. ASSUME NEW i \in k .. m - 1 PROVE Len(sl3[i]) = slice_size
  <2>1. CASE i < l
    <3>1. i \in k .. l - 1 /\ i \in 1 .. l - 1
      BY <1>1, <2>1
    <3> QED
      BY <3>1 DEF Grows
  <2>2. CASE i >= l
    <3>1. i \in l .. m - 1
      BY <1>1, <2>2
    <3> QED
      BY <3>1 DEF Grows
  <2> QED
    BY <1>1, <2>1, <2>2
<1> QED
  BY <1>1, <1>2, <1>3, <1>4 DEF Grows

(* What is held together is held in parts, and the other way round.        *)
LEMMA HoldsParts ==
  ASSUME NEW sl, IsSlices(sl), NEW offset \in Nat, NEW s \in Seq(Nat), NEW t \in Seq(Nat),
         Holds(sl, offset, s \o t)
  PROVE  Holds(sl, offset, s) /\ Holds(sl, offset + Len(s), t)
<1>0. slice_size \in Nat \ {0}
  BY SliceAssumption
<1>1. /\ Len(s) \in Nat /\ Len(t) \in Nat /\ Len(s \o t) = Len(s) + Len(t)
      /\ GetTotalKVSizeInBytes(sl) \in Nat
  BY TotalIs
<1>2. /\ offset + Len(s \o t) <= GetTotalKVSizeInBytes(sl)
      /\ \A i \in (offset \div slice_size) + 1 .. Len(sl) - 1 : Len(sl[i]) = slice_size
      /\ \A n \in 1 .. Len(s \o t) :
           sl[((offset + n - 1) \div slice_size) + 1][((offset + n - 1) % slice_size) + 1] = (s \o t)[n]
  BY DEF Holds
<1>3. \A n \in 1 .. Len(s) : n \in 1 .. Len(s \o t) /\ (s \o t)[n] = s[n]
  BY <1>1
<1>4. \A n \in 1 .. Len(t) :
        /\ Len(s) + n \in 1 .. Len(s \o t) /\ (s \o t)[Len(s) + n] = t[n]
        /\ offset + (Len(s) + n) - 1 = (offset + Len(s)) + n - 1
  BY <1>1
<1>5. Holds(sl, offset, s)
  <2>1. offset + Len(s) <= GetTotalKVSizeInBytes(sl)
    BY <1>1, <1>2
  <2> QED
    BY <1>2, <1>3, <2>1 DEF Holds
<1>6. Holds(sl, offset + Len(s), t)
  <2>1. (offset + Len(s)) + Len(t) <= GetTotalKVSizeInBytes(sl)
    BY <1>1, <1>2
  <2>2. \A i \in ((offset + Len(s)) \div slice_size) + 1 .. Len(sl) - 1 : Len(sl[i]) = slice_size
    <3>1. PICK F \in Nat, r \in 0 .. slice_size - 1 :
            F = offset \div slice_size /\ offset = F * slice_size + r
      BY Place
    <3>2. F * slice_size \in Nat
      BY <1>0, SliceProduct
    <3>3. F * slice_size <= offset + Len(s) /\ offset + Len(s) \in Nat
      BY <1>0, <1>1, <3>1, <3>2
    <3>4. F <= (offset + Len(s)) \div slice_size /\ (offset + Len(s)) \div slice_size \in Nat
      BY <3>3, SliceOf, Place
    <3>5. Len(sl) \in Nat
      BY TotalIs
    <3>6. \A i \in ((offset + Len(s)) \div slice_size) + 1 .. Len(sl) - 1 : i \in F + 1 .. Len(sl) - 1
      BY <3>4, <3>5
    <3> QED
      BY <1>2, <3>1, <3>6
  <2>3. ASSUME NEW n \in 1 .. Len(t)
        PROVE  sl[(((offset + Len(s)) + n - 1) \div slice_size) + 1]
                 [(((offset + Len(s)) + n - 1) % slice_size) + 1] = t[n]
    <3> DEFINE p == offset + (Len(s) + n) - 1
    <3>1. sl[(p \div slice_size) + 1][(p % slice_size) + 1] = t[n]
      BY <1>2, <1>4
    <3>2. p = (offset + Len(s)) + n - 1
      BY <1>4
    <3> HIDE DEF p
    <3> QED
      BY <3>1, <3>2
  <2> QED
    BY <2>1, <2>2, <2>3 DEF Holds
<1> QED
  BY <1>5, <1>6

LEMMA HoldsBoth ==
  ASSUME NEW sl, IsSlices(sl), NEW offset \in Nat, NEW s \in Seq(Nat), NEW t \in Seq(Nat),
         Holds(sl, offset, s), Holds(sl, offset + Len(s), t)
  PROVE  Holds(sl, offset, s \o t)
<1>1. Len(s) \in Nat /\ Len(t) \in Nat /\ Len(s \o t) = Len(s) + Len(t)
  OBVIOUS
<1>2. offset + Len(s \o t) <= GetTotalKVSizeInBytes(sl)
  <2>1. (offset + Len(s)) + Len(t) <= GetTotalKVSizeInBytes(sl) /\ GetTotalKVSizeInBytes(sl) \in Nat
    BY TotalIs DEF Holds
  <2> QED
    BY <1>1, <2>1
<1>3. ASSUME NEW n \in 1 .. Len(s \o t)
      PROVE  sl[((offset + n - 1) \div slice_size) + 1][((offset + n - 1) % slice_size) + 1] = (s \o t)[n]
  <2>1. CASE n <= Len(s)
    <3>1. n \in 1 .. Len(s) /\ (s \o t)[n] = s[n]
      BY <1>1, <2>1
    <3> QED
      BY <3>1 DEF Holds
  <2>2. CASE n > Len(s)
    <3>1. /\ n - Len(s) \in 1 .. Len(t) /\ (s \o t)[n] = t[n - Len(s)]
          /\ (offset + Len(s)) + (n - Len(s)) - 1 = offset + n - 1
      BY <1>1, <2>2
    <3> DEFINE p == (offset + Len(s)) + (n - Len(s)) - 1
    <3>2. sl[(p \div slice_size) + 1][(p % slice_size) + 1] = t[n - Len(s)]
      BY <3>1 DEF Holds
    <3>3. p = offset + n - 1
      BY <3>1
    <3> HIDE DEF p
    <3> QED
      BY <3>1, <3>2, <3>3
  <2> QED
    BY <1>1, <2>1, <2>2
<1> QED
  BY <1>2, <1>3 DEF Holds

----------------------------------------------------------------------------
(* Appending. *)

LEMMA FilledIs ==
  ASSUME NEW sl, IsSlices(sl), NEW bytes \in Seq(Nat)
  PROVE  /\ IsSlices(Filled(sl, bytes)) /\ Grows(sl, Filled(sl, bytes))
         /\ Room(sl) \in 0 .. slice_size /\ Room(sl) = slice_size - Len(sl[Len(sl)])
         /\ Len(Filled(sl, bytes)) = Len(sl)
         /\ \A n \in 1 .. Len(sl) - 1 : Filled(sl, bytes)[n] = sl[n]
         /\ Len(Filled(sl, bytes)[Len(sl)])
              = (IF Room(sl) <= Len(bytes) THEN slice_size ELSE Len(sl[Len(sl)]) + Len(bytes))
         /\ \A n \in 1 .. Len(bytes) :
              n <= Room(sl) => Filled(sl, bytes)[Len(sl)][Len(sl[Len(sl)]) + n] = bytes[n]
<1>0. slice_size \in Nat \ {0}
  BY SliceAssumption
<1> DEFINE k == Len(sl)
           m == Min({Room(sl), Len(bytes)})
           add == SubSeq(bytes, 1, m)
           f == Filled(sl, bytes)
<1>1. /\ k \in Nat \ {0} /\ Len(sl[k]) \in 0 .. slice_size /\ sl[k] \in Seq(Nat)
      /\ Len(bytes) \in Nat
  BY TotalIs
<1>2. Room(sl) = slice_size - Len(sl[k]) /\ Room(sl) \in 0 .. slice_size
  BY <1>0, <1>1 DEF Room, Back
<1>3. m = (IF Room(sl) <= Len(bytes) THEN Room(sl) ELSE Len(bytes)) /\ m \in 0 .. Len(bytes)
      /\ m <= Room(sl)
  <2>1. Room(sl) \in Nat /\ Len(bytes) \in Nat
    BY <1>0, <1>1, <1>2
  <2>2. m = (IF Room(sl) <= Len(bytes) THEN Room(sl) ELSE Len(bytes))
    BY <2>1, LessOf
  <2> HIDE DEF m
  <2> QED
    BY <2>1, <2>2
<1>4. /\ add \in Seq(Nat) /\ Len(add) = m /\ \A n \in 1 .. m : add[n] = bytes[n]
  <2> HIDE DEF m
  <2>1. m \in Int /\ \A i \in 1 .. m : bytes[i] \in Nat
    BY <1>3
  <2>2. /\ SubSeq(bytes, 1, m) \in Seq(Nat)
        /\ Len(SubSeq(bytes, 1, m)) = (IF 1 <= m THEN m - 1 + 1 ELSE 0)
        /\ \A i \in 1 .. m - 1 + 1 : SubSeq(bytes, 1, m)[i] = bytes[1 + i - 1]
    BY <2>1, SubSeqProperties
  <2> QED
    BY <1>3, <2>2
<1>5. /\ f \in Seq(Seq(Nat)) /\ f # <<>> /\ Len(f) = k
      /\ f[k] = sl[k] \o add /\ \A n \in 1 .. k - 1 : f[n] = sl[n]
  <2> HIDE DEF add
  <2>1. sl[k] \o add \in Seq(Nat) /\ sl \in Seq(Seq(Nat)) /\ k \in 1 .. Len(sl)
    BY <1>1, <1>4 DEF IsSlices
  <2>2. f = [sl EXCEPT ![k] = sl[k] \o add]
    BY DEF Filled, add
  <2> DEFINE one == sl[k] \o add
  <2>3. f = [sl EXCEPT ![k] = one] /\ one \in Seq(Nat) /\ sl \in Seq(Seq(Nat)) /\ k \in 1 .. Len(sl)
    BY <2>1, <2>2
  <2> HIDE DEF f, one
  <2>4. f \in Seq(Seq(Nat)) /\ Len(f) = Len(sl) /\ f[k] = one
        /\ \A n \in 1 .. Len(sl) : n # k => f[n] = sl[n]
    BY <2>3
  <2>5. Len(sl) = k /\ k \in Nat \ {0}
    BY <1>1, <2>3
  <2>6. f # <<>> /\ \A n \in 1 .. k - 1 : n \in 1 .. Len(sl) /\ n # k
    BY <2>4, <2>5
  <2> QED
    BY <2>4, <2>5, <2>6 DEF one
<1> HIDE DEF add, f
<1>6. /\ Len(f[k]) = Len(sl[k]) + m
      /\ \A b \in 1 .. Len(sl[k]) : f[k][b] = sl[k][b]
      /\ \A n \in 1 .. m : f[k][Len(sl[k]) + n] = add[n]
  <2> HIDE DEF m
  <2>1. \A s, t \in Seq(Nat) :
          /\ Len(s \o t) = Len(s) + Len(t)
          /\ \A b \in 1 .. Len(s) : (s \o t)[b] = s[b]
          /\ \A n \in 1 .. Len(t) : (s \o t)[Len(s) + n] = t[n]
    OBVIOUS
  <2> DEFINE s == sl[k]
  <2>2. s \in Seq(Nat) /\ add \in Seq(Nat)
    BY <1>1, <1>4
  <2>3. f[k] = s \o add /\ Len(add) = m
    BY <1>4, <1>5
  <2> HIDE DEF s
  <2>4. /\ Len(s \o add) = Len(s) + Len(add)
        /\ \A b \in 1 .. Len(s) : (s \o add)[b] = s[b]
        /\ \A n \in 1 .. Len(add) : (s \o add)[Len(s) + n] = add[n]
    BY <2>1, <2>2
  <2>5. /\ Len(f[k]) = Len(s) + m
        /\ \A b \in 1 .. Len(s) : f[k][b] = s[b]
        /\ \A n \in 1 .. m : f[k][Len(s) + n] = add[n]
    BY <2>3, <2>4
  <2> QED
    BY <2>5 DEF s
<1>7. Len(f[k]) = (IF Room(sl) <= Len(bytes) THEN slice_size ELSE Len(sl[k]) + Len(bytes))
      /\ Len(f[k]) <= slice_size /\ Len(f[k]) >= Len(sl[k])
  <2> HIDE DEF m
  <2>2. Len(f[k]) = Len(sl[k]) + m
    BY <1>6
  <2>3. /\ m \in Nat /\ Len(sl[k]) \in Nat /\ Len(sl[k]) <= slice_size /\ slice_size \in Nat
        /\ Room(sl) \in Nat /\ Len(bytes) \in Nat /\ Room(sl) = slice_size - Len(sl[k])
    BY <1>0, <1>1, <1>2, <1>3
  <2>4. Len(f[k]) \in Nat
    BY <2>2, <2>3
  <2>5. CASE Room(sl) <= Len(bytes)
    <3>1. m = Room(sl)
      BY <1>3, <2>5
    <3> QED
      BY <2>2, <2>3, <2>5, <3>1
  <2>6. CASE ~(Room(sl) <= Len(bytes))
    <3>1. m = Len(bytes)
      BY <1>3, <2>6
    <3> QED
      BY <2>2, <2>3, <2>6, <3>1
  <2> QED
    BY <2>5, <2>6
<1>8. IsSlices(f)
  <2>1. ASSUME NEW i \in 1 .. Len(f) PROVE Len(f[i]) <= slice_size
    <3>1. CASE i = k
      BY <1>7, <3>1
    <3>2. CASE i # k
      <4>1. i \in 1 .. k - 1 /\ i \in 1 .. Len(sl)
        BY <1>1, <1>5, <3>2
      <4> QED
        BY <1>5, <4>1 DEF IsSlices
    <3> QED
      BY <3>1, <3>2
  <2> QED
    BY <1>5, <2>1 DEF IsSlices
<1>9. Grows(sl, f)
  <2>1. \A i \in Len(sl) .. Len(f) - 1 : FALSE
    BY <1>1, <1>5
  <2>2. Len(sl) <= Len(f)
    BY <1>1, <1>5
  <2> QED
    BY <1>5, <1>6, <1>7, <2>1, <2>2 DEF Grows
<1>10. \A n \in 1 .. Len(bytes) : n <= Room(sl) => f[k][Len(sl[k]) + n] = bytes[n]
  <2>1. \A n \in 1 .. Len(bytes) : n <= Room(sl) => n \in 1 .. m
    <3> HIDE DEF m
    <3> QED
      BY <1>1, <1>2, <1>3
  <2> HIDE DEF m
  <2> QED
    BY <1>4, <1>6, <2>1
<1> QED
  BY <1>2, <1>5, <1>7, <1>8, <1>9, <1>10 DEF f

(* The rest in pieces of a slice each, the last one excepted.              *)
LEMMA PiecesAre ==
  ASSUME NEW bytes \in Seq(Nat), NEW q \in Nat, NEW r \in 1 .. slice_size,
         Len(bytes) = q * slice_size + r
  PROVE  /\ Pieces(bytes) \in Seq(Seq(Nat)) /\ Len(Pieces(bytes)) = q + 1
         /\ \A n \in 1 .. q : Len(Pieces(bytes)[n]) = slice_size
         /\ Len(Pieces(bytes)[q + 1]) = r
         /\ \A n \in 1 .. q + 1 : \A b \in 1 .. Len(Pieces(bytes)[n]) :
              /\ (n - 1) * slice_size + b \in 1 .. Len(bytes)
              /\ Pieces(bytes)[n][b] = bytes[(n - 1) * slice_size + b]
<1>0. slice_size \in Nat \ {0}
  BY SliceAssumption
<1> DEFINE p == Pieces(bytes)
           Ends(n) == Min({n * slice_size, Len(bytes)})
           Piece(n) == SubSeq(bytes, (n - 1) * slice_size + 1, Ends(n))
<1>1. (Len(bytes) + slice_size - 1) \div slice_size = q + 1
  <2>1. q * slice_size \in Nat /\ (q + 1) * slice_size = q * slice_size + slice_size
    BY <1>0, SliceProduct
  <2>2. Len(bytes) + slice_size - 1 = (q + 1) * slice_size + (r - 1) /\ r - 1 \in 0 .. slice_size - 1
    BY <1>0, <2>1
  <2> QED
    BY <2>2, OnePlace
<1>2. p = [n \in 1 .. q + 1 |-> Piece(n)]
  BY <1>1 DEF Pieces
<1>3. ASSUME NEW n \in 1 .. q + 1
      PROVE  LET size == IF n = q + 1 THEN r ELSE slice_size IN
             /\ Piece(n) \in Seq(Nat) /\ Len(Piece(n)) = size
             /\ \A b \in 1 .. size :
                  /\ (n - 1) * slice_size + b \in 1 .. Len(bytes)
                  /\ Piece(n)[b] = bytes[(n - 1) * slice_size + b]
  <2> DEFINE size == IF n = q + 1 THEN r ELSE slice_size
             start == (n - 1) * slice_size
  <2>1. /\ n - 1 \in Nat /\ start \in Nat /\ q * slice_size \in Nat
        /\ n * slice_size = start + slice_size
    <3>1. n - 1 \in Nat /\ (n - 1) + 1 = n
      OBVIOUS
    <3> QED
      BY <1>0, <3>1, SliceProduct
  <2>2. size \in 1 .. slice_size
    BY <1>0
  <2> HIDE DEF start
  <2>3. Ends(n) = start + size /\ start + size <= Len(bytes)
    <3>0. Len(bytes) \in Nat /\ n * slice_size \in Nat
      BY <1>0, <2>1
    <3>1. CASE n = q + 1
      <4>1. start = q * slice_size
        BY <3>1 DEF start
      <4>2. n * slice_size >= Len(bytes)
        BY <1>0, <2>1, <4>1
      <4>3. Ends(n) = Len(bytes)
        BY <3>0, <4>2, LessOf
      <4> QED
        BY <3>1, <4>1, <4>3
    <3>2. CASE n # q + 1
      <4>1. n \in Nat /\ n <= q
        BY <3>2
      <4>2. n * slice_size <= q * slice_size
        BY <1>0, <4>1, SliceProductGrows
      <4>3. n * slice_size <= Len(bytes)
        BY <1>0, <2>1, <3>0, <4>2
      <4>4. Ends(n) = n * slice_size
        BY <3>0, <4>3, LessOf
      <4> QED
        BY <2>1, <3>2, <4>3, <4>4
    <3> QED
      BY <3>1, <3>2
  <2> HIDE DEF size, Ends
  <2>4. \A b \in 1 .. size : start + b \in 1 .. Len(bytes)
    BY <1>0, <2>1, <2>2, <2>3
  <2>5. Piece(n) = SubSeq(bytes, start + 1, start + size)
    BY <2>3 DEF start
  <2> HIDE DEF Piece
  <2>6. /\ Piece(n) \in Seq(Nat) /\ Len(Piece(n)) = size
        /\ \A b \in 1 .. size : Piece(n)[b] = bytes[start + b]
    <3>1. \A i \in start + 1 .. start + size : i \in 1 .. Len(bytes)
      BY <1>0, <2>1, <2>2, <2>3
    <3>2. \A i \in start + 1 .. start + size : bytes[i] \in Nat
      BY <3>1
    <3>3. start + 1 \in Int /\ start + size \in Int
      BY <1>0, <2>1, <2>2
    <3>4. /\ Piece(n) \in Seq(Nat)
          /\ Len(Piece(n)) = (IF start + 1 <= start + size THEN (start + size) - (start + 1) + 1 ELSE 0)
          /\ \A i \in 1 .. (start + size) - (start + 1) + 1 : Piece(n)[i] = bytes[(start + 1) + i - 1]
      <4>1. /\ SubSeq(bytes, start + 1, start + size) \in Seq(Nat)
            /\ Len(SubSeq(bytes, start + 1, start + size))
                 = (IF start + 1 <= start + size THEN (start + size) - (start + 1) + 1 ELSE 0)
            /\ \A i \in 1 .. (start + size) - (start + 1) + 1 :
                 SubSeq(bytes, start + 1, start + size)[i] = bytes[(start + 1) + i - 1]
        <5>1. PICK x, y \in Int : x = start + 1 /\ y = start + size
          BY <3>3
        <5>2. \A i \in x .. y : bytes[i] \in Nat
          BY <3>2, <5>1
        <5>3. /\ SubSeq(bytes, x, y) \in Seq(Nat)
              /\ Len(SubSeq(bytes, x, y)) = (IF x <= y THEN y - x + 1 ELSE 0)
              /\ \A i \in 1 .. y - x + 1 : SubSeq(bytes, x, y)[i] = bytes[x + i - 1]
          BY <5>2, SubSeqProperties
        <5> QED
          BY <5>1, <5>3
      <4> QED
        BY <2>5, <4>1, Zenon
    <3>5. (start + size) - (start + 1) + 1 = size /\ start + 1 <= start + size
      BY <1>0, <2>1, <2>2
    <3>6. \A i \in 1 .. size : (start + 1) + i - 1 = start + i
      BY <1>0, <2>1, <2>2
    <3> QED
      BY <3>4, <3>5, <3>6
  <2> QED
    BY <2>4, <2>6 DEF size, start
<1> HIDE DEF Piece, p
<1>4. /\ p \in Seq(Seq(Nat)) /\ Len(p) = q + 1
      /\ \A n \in 1 .. q + 1 : p[n] = Piece(n)
  <2>1. \A n \in 1 .. q + 1 : Piece(n) \in Seq(Nat)
    BY <1>3
  <2>2. \A n \in 1 .. q + 1 : p[n] = Piece(n)
    BY <1>2
  <2>3. p \in Seq(Seq(Nat)) /\ Len(p) = q + 1
    <3>1. p \in [1 .. q + 1 -> Seq(Nat)] /\ q + 1 \in Nat
      BY <1>2, <2>1
    <3> QED
      BY <3>1
  <2> QED
    BY <2>2, <2>3
<1>5. \A n \in 1 .. q : n \in 1 .. q + 1 /\ n # q + 1
  OBVIOUS
<1>6. q + 1 \in 1 .. q + 1
  OBVIOUS
<1>7. \A n \in 1 .. q : Len(p[n]) = slice_size
  <2>1. ASSUME NEW n \in 1 .. q PROVE Len(p[n]) = slice_size
    <3>1. n \in 1 .. q + 1 /\ n # q + 1
      BY <1>5
    <3>2. p[n] = Piece(n) /\ Len(Piece(n)) = slice_size
      BY <1>3, <1>4, <3>1
    <3> QED
      BY <3>2
  <2> QED
    BY <2>1
<1>8. Len(p[q + 1]) = r
  BY <1>3, <1>4, <1>6
<1>9. ASSUME NEW n \in 1 .. q + 1, NEW b \in 1 .. Len(p[n])
      PROVE  /\ (n - 1) * slice_size + b \in 1 .. Len(bytes)
             /\ p[n][b] = bytes[(n - 1) * slice_size + b]
  <2>1. Len(p[n]) = IF n = q + 1 THEN r ELSE slice_size
    BY <1>3, <1>4
  <2>2. p[n] = Piece(n)
    BY <1>4
  <2>3. /\ (n - 1) * slice_size + b \in 1 .. Len(bytes)
        /\ Piece(n)[b] = bytes[(n - 1) * slice_size + b]
    <3>1. b \in 1 .. IF n = q + 1 THEN r ELSE slice_size
      BY <2>1
    <3> QED
      BY <1>3, <3>1
  <2> QED
    BY <2>2, <2>3
<1> QED
  BY <1>4, <1>7, <1>8, <1>9 DEF p

LEMMA AppendIs ==
  ASSUME NEW sl, IsSlices(sl), NEW bytes \in Seq(Nat)
  PROVE  /\ IsSlices(Appended(sl, bytes)) /\ Grows(sl, Appended(sl, bytes))
         /\ Holds(Appended(sl, bytes), GetTotalKVSizeInBytes(sl), bytes)
         /\ GetTotalKVSizeInBytes(Appended(sl, bytes)) = GetTotalKVSizeInBytes(sl) + Len(bytes)
<1>0. slice_size \in Nat \ {0}
  BY SliceAssumption
<1> DEFINE k == Len(sl)
           z == Len(sl[k])
           room == Room(sl)
           f == Filled(sl, bytes)
           T == GetTotalKVSizeInBytes(sl)
           rest == SubSeq(bytes, room + 1, Len(bytes))
           a == Appended(sl, bytes)
<1>1. /\ k \in Nat \ {0} /\ z \in 0 .. slice_size
      /\ (k - 1) * slice_size \in Nat /\ T = (k - 1) * slice_size + z
      /\ k * slice_size = (k - 1) * slice_size + slice_size
  BY TotalIs
<1>2. /\ IsSlices(f) /\ Grows(sl, f) /\ room \in 0 .. slice_size /\ room = slice_size - z
      /\ Len(f) = k
      /\ Len(f[k]) = (IF room <= Len(bytes) THEN slice_size ELSE z + Len(bytes))
      /\ \A n \in 1 .. Len(bytes) : n <= room => f[k][z + n] = bytes[n]
  BY FilledIs
<1>3. a = f \o Pieces(rest)
  BY DEF Appended
<1>4. Len(bytes) \in Nat /\ \A n \in 1 .. Len(bytes) : bytes[n] \in Nat
  OBVIOUS
<1> HIDE DEF k, z, room, f, T, a
<1>5. T \div slice_size >= k - 1 /\ T \div slice_size \in Nat /\ T \in Nat
  <2>1. T \in Nat /\ k - 1 \in Nat /\ (k - 1) * slice_size <= T
    BY <1>0, <1>1
  <2> QED
    BY <2>1, SliceOf, Place
<1>6. ASSUME IsSlices(a), Grows(sl, a), GetTotalKVSizeInBytes(a) = T + Len(bytes),
             \A n \in 1 .. Len(bytes) : \E q \in Nat, r \in 0 .. slice_size - 1 :
                T + n - 1 = q * slice_size + r /\ a[q + 1][r + 1] = bytes[n]
      PROVE  Holds(a, T, bytes)
  <2>1. ASSUME NEW n \in 1 .. Len(bytes)
        PROVE  a[((T + n - 1) \div slice_size) + 1][((T + n - 1) % slice_size) + 1] = bytes[n]
    <3>1. PICK q \in Nat, r \in 0 .. slice_size - 1 :
             T + n - 1 = q * slice_size + r /\ a[q + 1][r + 1] = bytes[n]
      BY <1>6
    <3>2. (q * slice_size + r) \div slice_size = q /\ (q * slice_size + r) % slice_size = r
      BY OnePlace
    <3> QED
      BY <3>1, <3>2
  <2>2. \A i \in (T \div slice_size) + 1 .. Len(a) - 1 : Len(a[i]) = slice_size
    <3>1. Len(a) \in Nat
      BY <1>6, TotalIs
    <3>2. \A i \in (T \div slice_size) + 1 .. Len(a) - 1 : i \in k .. Len(a) - 1
      BY <1>1, <1>5, <3>1
    <3>3. \A i \in k .. Len(a) - 1 : Len(a[i]) = slice_size
      BY <1>6 DEF Grows, k
    <3> QED
      BY <3>2, <3>3
  <2>3. T + Len(bytes) <= GetTotalKVSizeInBytes(a)
    BY <1>4, <1>5, <1>6
  <2> QED
    BY <2>1, <2>2, <2>3 DEF Holds
<1>7. ASSUME NEW n \in 1 .. Len(bytes), n <= room
      PROVE  /\ k - 1 \in Nat /\ z + n - 1 \in 0 .. slice_size - 1 /\ n \in Nat
             /\ T + n - 1 = (k - 1) * slice_size + (z + n - 1)
             /\ (z + n - 1) + 1 \in 1 .. Len(f[k]) /\ f[k][(z + n - 1) + 1] = bytes[n]
  <2>1. n \in Nat /\ n >= 1 /\ n <= Len(bytes) /\ (z + n - 1) + 1 = z + n
    BY <1>0, <1>1, <1>4
  <2>2. f[k][z + n] = bytes[n]
    BY <1>2, <1>7
  <2>3. z + n \in 1 .. Len(f[k])
    <3>1. Len(f[k]) = (IF room <= Len(bytes) THEN slice_size ELSE z + Len(bytes))
          /\ room = slice_size - z /\ z \in Nat
      BY <1>0, <1>1, <1>2
    <3> QED
      BY <1>0, <1>4, <1>7, <2>1, <3>1
  <2> QED
    BY <1>0, <1>1, <1>2, <1>7, <2>1, <2>2, <2>3
<1>8. CASE Len(bytes) <= room
  <2>1. rest = <<>>
    <3>1. room + 1 \in Int /\ Len(bytes) \in Int /\ Len(bytes) < room + 1
      BY <1>0, <1>2, <1>4, <1>8
    <3> QED
      BY <3>1, SubSeqEmpty
  <2>2. Pieces(rest) = <<>>
    <3>1. (0 + slice_size - 1) \div slice_size = 0
      <4>1. 0 \in Nat /\ slice_size - 1 \in 0 .. slice_size - 1 /\ 0 + slice_size - 1 = 0 * slice_size + (slice_size - 1)
        BY <1>0
      <4> QED
        BY <4>1, OnePlace
    <3> HIDE DEF rest
    <3>2. Len(rest) = 0
      BY <2>1
    <3>3. Pieces(rest) = [n \in 1 .. 0 |->
            SubSeq(rest, (n - 1) * slice_size + 1, Min({n * slice_size, Len(rest)}))]
      BY <3>1, <3>2 DEF Pieces
    <3> QED
      BY <3>3
  <2>3. a = f
    <3>1. f \in Seq(Seq(Nat))
      BY <1>2 DEF IsSlices
    <3> QED
      BY <1>3, <2>2, <3>1
  <2>4. Len(f[k]) = z + Len(bytes)
    <3>1. Len(f[k]) = (IF room <= Len(bytes) THEN slice_size ELSE z + Len(bytes))
          /\ room \in 0 .. slice_size /\ room = slice_size - z
      BY <1>2
    <3> QED
      BY <1>0, <1>1, <1>4, <1>8, <3>1
  <2>5. GetTotalKVSizeInBytes(a) = T + Len(bytes)
    <3>1. GetTotalKVSizeInBytes(f) = (k - 1) * slice_size + Len(f[k])
      BY <1>2, TotalIs
    <3> QED
      BY <1>1, <1>4, <2>3, <2>4, <3>1
  <2>6. ASSUME NEW n \in 1 .. Len(bytes)
        PROVE  \E q \in Nat, r \in 0 .. slice_size - 1 :
                 T + n - 1 = q * slice_size + r /\ a[q + 1][r + 1] = bytes[n]
    <3>1. n <= room
      BY <1>0, <1>2, <1>4, <1>8
    <3>2. /\ k - 1 \in Nat /\ z + n - 1 \in 0 .. slice_size - 1
          /\ T + n - 1 = (k - 1) * slice_size + (z + n - 1)
          /\ f[k][(z + n - 1) + 1] = bytes[n]
      BY <1>7, <3>1
    <3>3. (k - 1) + 1 = k
      BY <1>1
    <3>4. a[(k - 1) + 1][(z + n - 1) + 1] = bytes[n]
      BY <2>3, <3>2, <3>3
    <3> QED
      BY <3>2, <3>4
  <2>7. Holds(a, T, bytes)
    BY <1>2, <1>6, <2>3, <2>5, <2>6
  <2> QED
    BY <1>2, <2>3, <2>5, <2>7 DEF a, T
<1>9. CASE Len(bytes) > room
  <2> DEFINE R == Len(bytes) - room
             q == (R - 1) \div slice_size
             r == ((R - 1) % slice_size) + 1
             p == Pieces(rest)
  <2>1. R \in Nat \ {0} /\ R - 1 \in Nat /\ Len(bytes) = room + R
    BY <1>0, <1>2, <1>4, <1>9
  <2>2. q \in Nat /\ r \in 1 .. slice_size /\ R = q * slice_size + r
    <3> HIDE DEF R
    <3>1. /\ q \in Nat /\ (R - 1) % slice_size \in 0 .. slice_size - 1
          /\ R - 1 = q * slice_size + ((R - 1) % slice_size)
      BY <2>1, Place
    <3>2. q * slice_size \in Nat
      BY <1>0, <3>1, SliceProduct
    <3>3. PICK m \in 0 .. slice_size - 1 : m = (R - 1) % slice_size
      BY <3>1
    <3>4. r = m + 1 /\ R - 1 = q * slice_size + m
      BY <3>1, <3>3
    <3> HIDE DEF q, r
    <3> QED
      BY <1>0, <2>1, <3>1, <3>2, <3>4
  <2> HIDE DEF R, q, r
  <2>3. rest \in Seq(Nat) /\ Len(rest) = R /\ \A n \in 1 .. R : rest[n] = bytes[room + n]
    <3>1. room + 1 \in Int /\ Len(bytes) \in Int /\ \A i \in room + 1 .. Len(bytes) : bytes[i] \in Nat
      BY <1>0, <1>2, <1>4
    <3>2. /\ rest \in Seq(Nat)
          /\ Len(rest) = (IF room + 1 <= Len(bytes) THEN Len(bytes) - (room + 1) + 1 ELSE 0)
          /\ \A i \in 1 .. Len(bytes) - (room + 1) + 1 : rest[i] = bytes[(room + 1) + i - 1]
      BY <3>1, SubSeqProperties
    <3>3. Len(bytes) - (room + 1) + 1 = R /\ room + 1 <= Len(bytes)
      BY <1>0, <1>2, <1>4, <2>1
    <3>4. \A i \in 1 .. R : (room + 1) + i - 1 = room + i
      BY <1>0, <1>2, <2>1
    <3> QED
      BY <3>2, <3>3, <3>4
  <2> HIDE DEF rest
  <2>4. /\ p \in Seq(Seq(Nat)) /\ Len(p) = q + 1
        /\ \A n \in 1 .. q : Len(p[n]) = slice_size
        /\ Len(p[q + 1]) = r
        /\ \A n \in 1 .. q + 1 : \A b \in 1 .. Len(p[n]) :
             /\ (n - 1) * slice_size + b \in 1 .. R
             /\ p[n][b] = rest[(n - 1) * slice_size + b]
    <3>1. rest \in Seq(Nat) /\ Len(rest) = R
      BY <2>3
    <3>2. Len(rest) = q * slice_size + r
      BY <2>2, <3>1
    <3>3. /\ p \in Seq(Seq(Nat)) /\ Len(p) = q + 1
          /\ \A n \in 1 .. q : Len(p[n]) = slice_size
          /\ Len(p[q + 1]) = r
          /\ \A n \in 1 .. q + 1 : \A b \in 1 .. Len(p[n]) :
               /\ (n - 1) * slice_size + b \in 1 .. Len(rest)
               /\ p[n][b] = rest[(n - 1) * slice_size + b]
      BY <2>2, <3>1, <3>2, PiecesAre
    <3> HIDE DEF p
    <3> QED
      BY <3>1, <3>3
  <2> HIDE DEF p
  <2>5. /\ a \in Seq(Seq(Nat)) /\ Len(a) = k + q + 1
        /\ \A i \in 1 .. k : a[i] = f[i]
        /\ \A n \in 1 .. q + 1 : a[k + n] = p[n]
    <3>1. f \in Seq(Seq(Nat))
      BY <1>2 DEF IsSlices
    <3>2. \A s, t \in Seq(Seq(Nat)) :
            /\ s \o t \in Seq(Seq(Nat)) /\ Len(s \o t) = Len(s) + Len(t)
            /\ \A i \in 1 .. Len(s) : (s \o t)[i] = s[i]
            /\ \A n \in 1 .. Len(t) : (s \o t)[Len(s) + n] = t[n]
      OBVIOUS
    <3>3. a = f \o p
      BY <1>3 DEF p
    <3>4. /\ a \in Seq(Seq(Nat)) /\ Len(a) = Len(f) + Len(p)
          /\ \A i \in 1 .. Len(f) : a[i] = f[i]
          /\ \A n \in 1 .. Len(p) : a[Len(f) + n] = p[n]
      <4>1. p \in Seq(Seq(Nat))
        BY <2>4
      <4> QED
        BY <3>1, <3>2, <3>3, <4>1
    <3>5. Len(f) = k /\ Len(p) = q + 1
      BY <1>2, <2>4
    <3>6. k + (q + 1) = k + q + 1
      BY <1>1, <2>2
    <3> QED
      BY <3>4, <3>5, <3>6
  <2>6. Len(f[k]) = slice_size
    BY <1>0, <1>2, <1>4, <1>9
  <2>7. \A n \in 1 .. q + 1 : Len(p[n]) <= slice_size
    <3>1. \A n \in 1 .. q + 1 : n = q + 1 \/ n \in 1 .. q
      BY <2>2
    <3> QED
      BY <1>0, <2>2, <2>4, <3>1
  <2>8. IsSlices(a)
    <3>1. ASSUME NEW i \in 1 .. Len(a) PROVE Len(a[i]) <= slice_size
      <4>1. CASE i <= k
        <5>1. i \in 1 .. k
          BY <1>1, <4>1
        <5> QED
          BY <1>2, <2>5, <5>1 DEF IsSlices
      <4>2. CASE i > k
        <5>1. i - k \in 1 .. q + 1 /\ k + (i - k) = i
          BY <1>1, <2>2, <2>5, <4>2
        <5> QED
          BY <2>5, <2>7, <5>1
      <4> QED
        BY <1>1, <4>1, <4>2
    <3>2. a # <<>>
      BY <1>1, <2>2, <2>5
    <3> QED
      BY <2>5, <3>1, <3>2 DEF IsSlices
  <2>9. Grows(f, a)
    <3>1. \A i \in 1 .. k : a[i] = f[i]
      BY <2>5
    <3>2. k \in 1 .. k /\ Len(f) <= Len(a) /\ \A i \in 1 .. k - 1 : i \in 1 .. k
      BY <1>1, <1>2, <2>2, <2>5
    <3>3. ASSUME NEW i \in k .. Len(a) - 1 PROVE Len(a[i]) = slice_size
      <4>1. CASE i = k
        BY <2>6, <3>1, <3>2, <4>1
      <4>2. CASE i # k
        <5>1. i - k \in 1 .. q /\ i - k \in 1 .. q + 1 /\ k + (i - k) = i
          <6>1. Len(a) = k + q + 1 /\ k \in Nat /\ q \in Nat
            BY <1>1, <2>2, <2>5
          <6> QED
            BY <4>2, <6>1
        <5>2. a[k + (i - k)] = p[i - k] /\ Len(p[i - k]) = slice_size
          BY <2>4, <2>5, <5>1
        <5> QED
          BY <5>1, <5>2
      <4> QED
        BY <4>1, <4>2
    <3>4. Len(f[k]) <= Len(a[k])
      BY <1>0, <2>6, <3>1, <3>2
    <3> QED
      BY <1>2, <3>1, <3>2, <3>3, <3>4 DEF Grows
  <2>10. Grows(sl, a)
    BY <1>2, <2>8, <2>9, GrowsTwice
  <2>11. GetTotalKVSizeInBytes(a) = T + Len(bytes)
    <3>1. GetTotalKVSizeInBytes(a) = (Len(a) - 1) * slice_size + Len(a[Len(a)])
      BY <2>8, TotalIs
    <3>2. Len(a) - 1 = k + q /\ a[Len(a)] = p[q + 1]
      <4>1. q + 1 \in 1 .. q + 1 /\ Len(a) = k + (q + 1) /\ Len(a) - 1 = k + q
        BY <1>1, <2>2, <2>5
      <4> QED
        BY <2>5, <4>1
    <3>3. (k + q) * slice_size = k * slice_size + q * slice_size /\ q * slice_size \in Nat
      BY <1>0, <1>1, <2>2
    <3>4. GetTotalKVSizeInBytes(a) = k * slice_size + q * slice_size + r
      BY <2>4, <3>1, <3>2, <3>3
    <3> QED
      BY <1>0, <1>1, <1>2, <2>1, <2>2, <3>3, <3>4
  <2>12. ASSUME NEW n \in 1 .. Len(bytes)
        PROVE  \E d \in Nat, m \in 0 .. slice_size - 1 :
                 T + n - 1 = d * slice_size + m /\ a[d + 1][m + 1] = bytes[n]
    <3>1. CASE n <= room
      <4>1. /\ k - 1 \in Nat /\ z + n - 1 \in 0 .. slice_size - 1
            /\ T + n - 1 = (k - 1) * slice_size + (z + n - 1)
            /\ f[k][(z + n - 1) + 1] = bytes[n]
        BY <1>7, <3>1
      <4>2. (k - 1) + 1 = k /\ k \in 1 .. k
        BY <1>1
      <4>3. a[(k - 1) + 1][(z + n - 1) + 1] = bytes[n]
        BY <2>5, <4>1, <4>2
      <4> QED
        BY <4>1, <4>3
    <3>2. CASE n > room
      <4>1. n - room - 1 \in Nat /\ n - room - 1 < R /\ n \in Nat
        <5>1. room \in Nat /\ n \in Nat /\ n <= Len(bytes)
          BY <1>0, <1>2, <1>4
        <5> QED
          BY <1>4, <2>1, <3>2, <5>1
      <4>12. PICK x \in Nat : x = n - room - 1
        BY <4>1
      <4>2. PICK d \in Nat, m \in 0 .. slice_size - 1 : x = d * slice_size + m
        BY Place
      <4>13. n = room + (x + 1) /\ n - room = x + 1 /\ x < R
        BY <1>0, <1>2, <4>1, <4>12
      <4>3. d * slice_size \in Nat /\ q * slice_size \in Nat
            /\ (k + d) * slice_size = k * slice_size + d * slice_size
        BY <1>0, <1>1, <2>2
      <4>4. d <= q
        <5>1. q < d => (q + 1) * slice_size <= d * slice_size
          BY <1>0, <2>2, SliceProductGrows
        <5>2. (q + 1) * slice_size = q * slice_size + slice_size
          BY <1>0, <2>2, SliceProduct
        <5>3. x < R /\ x = d * slice_size + m /\ R = q * slice_size + r
              /\ r <= slice_size /\ m >= 0 /\ m \in Int /\ r \in Int /\ R \in Nat
          BY <1>0, <2>1, <2>2, <4>2, <4>13
        <5>4. PICK u, v \in Nat : u = d * slice_size /\ v = q * slice_size
          BY <4>3
        <5>5. q < d => v + slice_size <= u
          BY <5>1, <5>2, <5>4
        <5>6. x < R /\ x = u + m /\ R = v + r
          BY <5>3, <5>4
        <5>7. ~(q < d)
          BY <1>0, <5>3, <5>5, <5>6
        <5> QED
          BY <2>2, <5>7
      <4>5. d + 1 \in 1 .. q + 1 /\ m + 1 \in 1 .. Len(p[d + 1])
        <5>1. d + 1 \in 1 .. q + 1
          BY <2>2, <4>4
        <5>2. CASE d = q
          <6>1. m < r
            BY <1>0, <2>1, <2>2, <4>2, <4>3, <4>13, <5>2
          <6> QED
            BY <1>0, <2>2, <2>4, <5>1, <5>2, <6>1
        <5>3. CASE d # q
          <6>1. d + 1 \in 1 .. q
            BY <2>2, <4>4, <5>3
          <6> QED
            BY <1>0, <2>4, <5>1, <6>1
        <5> QED
          BY <5>2, <5>3
      <4>6. p[d + 1][m + 1] = rest[((d + 1) - 1) * slice_size + (m + 1)]
            /\ ((d + 1) - 1) * slice_size + (m + 1) \in 1 .. R
        BY <2>4, <4>5
      <4>7. ((d + 1) - 1) * slice_size + (m + 1) = n - room
        <5>1. (d + 1) - 1 = d
          OBVIOUS
        <5>2. d * slice_size + (m + 1) = x + 1
          BY <1>0, <4>2, <4>3
        <5>4. d * slice_size + (m + 1) = n - room
          BY <4>13, <5>2
        <5> QED
          BY <5>1, <5>4
      <4>8. p[d + 1][m + 1] = bytes[n]
        <5>1. n - room \in 1 .. R /\ room + (n - room) = n
          <6>1. room \in Nat /\ n \in Nat
            BY <1>0, <1>2, <4>1
          <6>2. n - room \in 1 .. R
            BY <4>6, <4>7
          <6> QED
            BY <6>1, <6>2
        <5> QED
          BY <2>3, <4>6, <4>7, <5>1
      <4>9. a[(k + d) + 1][m + 1] = bytes[n]
        <5>1. (k + d) + 1 = k + (d + 1)
          BY <1>1
        <5> QED
          BY <2>5, <4>5, <4>8, <5>1
      <4>10. T + n - 1 = (k + d) * slice_size + m
        <5>1. T + n - 1 = k * slice_size + x
          BY <1>0, <1>1, <1>2, <4>1, <4>13
        <5>2. k * slice_size \in Nat
          BY <1>0, <1>1
        <5> QED
          BY <1>0, <4>2, <4>3, <5>1, <5>2
      <4>11. PICK e \in Nat : e = k + d
        BY <1>1
      <4> WITNESS e \in Nat, m \in 0 .. slice_size - 1
      <4> QED
        BY <4>9, <4>10, <4>11
    <3>3. n <= room \/ n > room
      <4>1. n \in Nat /\ room \in Nat
        BY <1>0, <1>2, <1>4
      <4> QED
        BY <4>1
    <3> QED
      BY <3>1, <3>2, <3>3
  <2>13. Holds(a, T, bytes)
    BY <1>6, <2>8, <2>10, <2>11, <2>12
  <2> QED
    BY <2>8, <2>10, <2>11, <2>13 DEF a, T
<1> QED
  BY <1>0, <1>2, <1>4, <1>8, <1>9

----------------------------------------------------------------------------
(* Reading. *)

(* t is the part of s of size n behind start. *)
IsPart(t, s, start, n) ==
  /\ t \in Seq(Nat) /\ Len(t) = n
  /\ \A b \in 1 .. n : t[b] = s[start + b]

(* A sequence is put together from its parts.                              *)
LEMMA ThreeParts ==
  ASSUME NEW s \in Seq(Nat), NEW t1, NEW t2, NEW t3, NEW n1 \in Nat, NEW n2 \in Nat, NEW n3 \in Nat,
         Len(s) = n1 + n2 + n3,
         IsPart(t1, s, 0, n1), IsPart(t2, s, n1, n2), IsPart(t3, s, n1 + n2, n3)
  PROVE  t1 \o t2 \o t3 = s
<1>7. /\ t1 \in Seq(Nat) /\ t2 \in Seq(Nat) /\ t3 \in Seq(Nat)
      /\ Len(t1) = n1 /\ Len(t2) = n2 /\ Len(t3) = n3
      /\ \A b \in 1 .. n1 : t1[b] = s[b]
      /\ \A b \in 1 .. n2 : t2[b] = s[n1 + b]
      /\ \A b \in 1 .. n3 : t3[b] = s[(n1 + n2) + b]
  <2>1. \A b \in 1 .. n1 : 0 + b = b
    OBVIOUS
  <2> QED
    BY <2>1 DEF IsPart
<1>0. \A v, w \in Seq(Nat) :
        /\ v \o w \in Seq(Nat) /\ Len(v \o w) = Len(v) + Len(w)
        /\ \A b \in 1 .. Len(v) : (v \o w)[b] = v[b]
        /\ \A b \in 1 .. Len(w) : (v \o w)[Len(v) + b] = w[b]
  OBVIOUS
<1> DEFINE t == t1 \o t2
           u == t \o t3
<1>1. /\ t \in Seq(Nat) /\ Len(t) = Len(t1) + Len(t2)
      /\ \A b \in 1 .. Len(t1) : t[b] = t1[b]
      /\ \A b \in 1 .. Len(t2) : t[Len(t1) + b] = t2[b]
  BY <1>0, <1>7
<1> HIDE DEF t
<1>2. /\ u \in Seq(Nat) /\ Len(u) = Len(t) + Len(t3)
      /\ \A b \in 1 .. Len(t) : u[b] = t[b]
      /\ \A b \in 1 .. Len(t3) : u[Len(t) + b] = t3[b]
  BY <1>0, <1>1, <1>7
<1> HIDE DEF u
<1>3. PICK x, y, z \in Nat :
        /\ x = Len(t1) /\ y = Len(t2) /\ z = Len(t3)
        /\ x = n1 /\ y = n2 /\ z = n3
  BY <1>7
<1>4. Len(u) = x + y + z /\ Len(s) = x + y + z /\ Len(t) = x + y
  BY <1>1, <1>2, <1>3
<1>5. ASSUME NEW b \in 1 .. x + y + z PROVE u[b] = s[b]
  <2>1. CASE b <= x
    <3>1. b \in 1 .. x /\ b \in 1 .. x + y
      BY <1>3, <2>1
    <3>2. t1[b] = s[b]
      BY <1>3, <1>7, <3>1
    <3> QED
      BY <1>1, <1>2, <1>3, <1>4, <3>1, <3>2
  <2>2. CASE x < b /\ b <= x + y
    <3>1. b - x \in 1 .. y /\ x + (b - x) = b /\ b \in 1 .. x + y
      BY <1>3, <2>2
    <3>2. t[x + (b - x)] = t2[b - x] /\ t2[b - x] = s[x + (b - x)]
      BY <1>1, <1>3, <1>7, <3>1
    <3> QED
      BY <1>2, <1>4, <3>1, <3>2
  <2>3. CASE x + y < b
    <3>1. b - (x + y) \in 1 .. z /\ (x + y) + (b - (x + y)) = b
      BY <1>3, <2>3
    <3>2. u[(x + y) + (b - (x + y))] = t3[b - (x + y)] /\ t3[b - (x + y)] = s[(x + y) + (b - (x + y))]
      BY <1>2, <1>3, <1>4, <1>7, <3>1
    <3> QED
      BY <3>1, <3>2
  <2>4. b <= x \/ (x < b /\ b <= x + y) \/ x + y < b
    BY <1>3
  <2> QED
    BY <2>1, <2>2, <2>3, <2>4
<1>6. u = s
  <2>2. u \in Seq(Nat) /\ Len(u) = Len(s)
    BY <1>2, <1>4
  <2>3. \A b \in 1 .. Len(u) : u[b] = s[b]
    BY <1>4, <1>5
  <2> QED
    BY <2>2, <2>3, SeqEqual
<1> QED
  BY <1>6 DEF u, t

(* The parts that Write and Compare read: a part of the slice of offset,   *)
(* the full slices behind it, and a part of the slice of the end.          *)
LEMMA PartsAre ==
  ASSUME NEW offset \in Nat, NEW size \in Nat
  PROVE  LET F == First(offset)
             rem == offset % slice_size
             G == Final(offset, size)
             first == InFirst(offset, size)
             final == InFinal(offset, size)
         IN  /\ F \in Nat /\ rem \in 0 .. slice_size - 1 /\ offset = F * slice_size + rem
             /\ G \in Nat /\ F <= G /\ first \in 0 .. size /\ final \in Nat
             /\ rem + first <= slice_size
             /\ \/ G = F /\ first = size /\ final = 0
                \/ /\ F < G /\ first = slice_size - rem /\ final < slice_size
                   /\ (G - F - 1) * slice_size \in Nat
                   /\ size = first + (G - F - 1) * slice_size + final
<1>0. slice_size \in Nat \ {0}
  BY SliceAssumption
<1>1. PICK F \in Nat, rem \in 0 .. slice_size - 1 :
        /\ F = offset \div slice_size /\ rem = offset % slice_size
        /\ offset = F * slice_size + rem
  BY Place
<1>2. PICK G \in Nat, t \in 0 .. slice_size - 1 :
        /\ G = (offset + size) \div slice_size /\ offset + size = G * slice_size + t
  <2>1. offset + size \in Nat
    OBVIOUS
  <2> QED
    BY <2>1, Place
<1>3. First(offset) = F /\ Final(offset, size) = G
  BY <1>1, <1>2 DEF First, Final
<1>4. PICK f \in Nat : f = F * slice_size
  BY <1>0, SliceProduct
<1>5. F <= G
  <2>1. F * slice_size <= offset + size /\ offset + size \in Nat
    BY <1>0, <1>1, <1>4
  <2> QED
    BY <1>2, <2>1, SliceOf
<1>6. PICK first \in Int :
        /\ first = InFirst(offset, size)
        /\ first = (IF size <= slice_size - rem THEN size ELSE slice_size - rem)
  <2>1. slice_size - rem \in Int
    BY <1>0
  <2>2. Min({size, slice_size - rem}) = (IF size <= slice_size - rem THEN size ELSE slice_size - rem)
    BY <2>1, LessOf
  <2>3. InFirst(offset, size) = (IF size <= slice_size - rem THEN size ELSE slice_size - rem)
    BY <1>1, <2>2 DEF InFirst
  <2>4. InFirst(offset, size) \in Int
    BY <2>1, <2>3
  <2> QED
    BY <2>3, <2>4
<1>7. InFinal(offset, size) = (size - first) - (Max({0, (G - F) - 1}) * slice_size)
  BY <1>3, <1>6 DEF InFinal
<1>8. CASE G = F
  <2>1. G * slice_size = f
    BY <1>4, <1>8
  <2>2. rem + size = t
    BY <1>0, <1>1, <1>2, <1>4, <2>1
  <2>3. first = size
    BY <1>0, <1>6, <2>2
  <2>4. Max({0, (G - F) - 1}) = 0
    <3>1. (G - F) - 1 = -1
      BY <1>8
    <3>2. Max({0, -1}) = 0
      BY LessOf
    <3> QED
      BY <3>1, <3>2
  <2>5. InFinal(offset, size) = 0
    <3>1. InFinal(offset, size) = (size - first) - (0 * slice_size)
      BY <1>7, <2>4
    <3> QED
      BY <1>0, <2>3, <3>1
  <2>6. rem + first <= slice_size /\ first \in 0 .. size
    BY <1>0, <2>2, <2>3
  <2> QED
    BY <1>1, <1>2, <1>3, <1>6, <1>8, <2>3, <2>5, <2>6
<1>9. CASE F < G
  <2>1. PICK d \in Nat : d = (G - F) - 1 /\ G = (F + 1) + d
    BY <1>9
  <2>2. PICK m \in Nat : m = d * slice_size
    BY <1>0, SliceProduct
  <2>3. G * slice_size = f + slice_size + m
    <3>1. ((F + 1) + d) * slice_size = (F + 1) * slice_size + d * slice_size
      BY <1>0
    <3>2. (F + 1) * slice_size = F * slice_size + slice_size
      BY <1>0, SliceProduct
    <3> QED
      BY <1>4, <2>1, <2>2, <3>1, <3>2
  <2>4. size = (slice_size - rem) + m + t
    BY <1>0, <1>1, <1>2, <1>4, <2>3
  <2>5. first = slice_size - rem
    BY <1>0, <1>6, <2>4
  <2>6. Max({0, (G - F) - 1}) = d
    <3>1. d \in Int /\ 0 \in Int
      OBVIOUS
    <3>2. Max({0, d}) = (IF 0 >= d THEN 0 ELSE d)
      BY <3>1, LessOf
    <3>3. Max({0, d}) = d
      BY <3>2
    <3> QED
      BY <2>1, <3>3
  <2>7. InFinal(offset, size) = t
    <3>1. InFinal(offset, size) = (size - first) - m
      BY <1>7, <2>2, <2>6
    <3> QED
      BY <1>0, <2>4, <2>5, <3>1
  <2>8. rem + first <= slice_size /\ first \in 0 .. size
    BY <1>0, <2>4, <2>5
  <2>9. (G - F) - 1 = d /\ ((G - F) - 1) * slice_size = m
    BY <2>1, <2>2
  <2>10. /\ t \in Nat /\ t < slice_size /\ size = first + m + t
    BY <1>0, <1>2, <2>4, <2>5
  <2> QED
    BY <1>1, <1>3, <1>6, <1>9, <2>2, <2>5, <2>7, <2>8, <2>9, <2>10
<1> QED
  BY <1>5, <1>8, <1>9

LEMMA PartOf ==
  ASSUME NEW s, NEW m \in Nat, NEW n \in Nat, \A i \in m + 1 .. m + n : s[i] \in Nat
  PROVE  IsPart(SubSeq(s, m + 1, m + n), s, m, n)
<1>1. m + 1 \in Int /\ m + n \in Int
  OBVIOUS
<1>2. /\ SubSeq(s, m + 1, m + n) \in Seq(Nat)
      /\ Len(SubSeq(s, m + 1, m + n)) = (IF m + 1 <= m + n THEN (m + n) - (m + 1) + 1 ELSE 0)
      /\ \A i \in 1 .. (m + n) - (m + 1) + 1 : SubSeq(s, m + 1, m + n)[i] = s[(m + 1) + i - 1]
  BY <1>1, SubSeqProperties
<1>3. (m + n) - (m + 1) + 1 = n /\ (IF m + 1 <= m + n THEN n ELSE 0) = n
  OBVIOUS
<1>4. \A i \in 1 .. n : (m + 1) + i - 1 = m + i
  OBVIOUS
<1> DEFINE t == SubSeq(s, m + 1, m + n)
<1> HIDE DEF t
<1>5. t \in Seq(Nat) /\ Len(t) = n /\ \A i \in 1 .. n : t[i] = s[(m + 1) + i - 1]
  BY <1>2, <1>3 DEF t
<1> QED
  BY <1>4, <1>5 DEF IsPart, t

(* A part of one slice, read back.                                         *)
LEMMA BytesAre ==
  ASSUME IsSlices(slices), NEW offset \in Nat, NEW bytes \in Seq(Nat), Holds(slices, offset, bytes),
         NEW q \in Nat, NEW rem \in 0 .. slice_size - 1, NEW start \in Nat, NEW n \in Nat,
         start + n <= Len(bytes), offset + start = q * slice_size + rem, rem + n <= slice_size
  PROVE  IsPart(Bytes(q, rem, n), bytes, start, n)
<1>0. slice_size \in Nat \ {0} /\ q * slice_size \in Nat
  BY SliceAssumption, SliceProduct
<1>1. CASE n = 0
  BY <1>1 DEF Bytes, IsPart
<1>2. CASE n # 0
  <2> DEFINE s == slices[q + 1]
  <2>1. ASSUME NEW b \in 1 .. n
        PROVE  rem + b \in 1 .. Len(s) /\ s[rem + b] = bytes[start + b]
    <3>1. rem + b - 1 \in 0 .. slice_size - 1 /\ start + b \in 1 .. Len(bytes)
      BY <1>0
    <3>2. PICK r \in 0 .. slice_size - 1, k \in 1 .. Len(bytes) : r = rem + b - 1 /\ k = start + b
      BY <3>1
    <3>5. IsPlace(offset, k, q, r)
      BY <1>0, <3>2 DEF IsPlace
    <3>3. r + 1 \in 1 .. Len(s) /\ s[r + 1] = bytes[k]
      BY <3>5, ByteHeld
    <3>4. r + 1 = rem + b
      BY <1>0, <3>2
    <3> QED
      BY <3>2, <3>3, <3>4
  <2>2. q + 1 \in 1 .. Len(slices)
    <3>1. start + 1 \in 1 .. Len(bytes)
      BY <1>2
    <3>2. PICK k \in 1 .. Len(bytes) : k = start + 1
      BY <3>1
    <3>3. IsPlace(offset, k, q, rem)
      BY <1>0, <3>2 DEF IsPlace
    <3> QED
      BY <3>3, ByteHeld
  <2>3. s \in Seq(Nat)
    BY <2>2 DEF IsSlices
  <2> HIDE DEF s
  <2>4. \A i \in rem + 1 .. rem + n : s[i] \in Nat
    <3>1. ASSUME NEW i \in rem + 1 .. rem + n PROVE s[i] \in Nat
      <4>1. i - rem \in 1 .. n /\ rem + (i - rem) = i
        BY <1>0
      <4>2. i \in 1 .. Len(s)
        BY <2>1, <4>1
      <4> QED
        BY <2>3, <4>2
    <3> QED
      BY <3>1
  <2>5. Bytes(q, rem, n) = SubSeq(s, rem + 1, rem + n)
    BY <1>2 DEF Bytes, Slice, s
  <2>6. rem \in Nat
    BY <1>0
  <2>7. IsPart(Bytes(q, rem, n), s, rem, n)
    BY <2>4, <2>5, <2>6, PartOf
  <2> QED
    BY <2>1, <2>7 DEF IsPart
<1> QED
  BY <1>1, <1>2

LEMMA MiddleIs ==
  ASSUME IsSlices(slices), NEW offset \in Nat, NEW bytes \in Seq(Nat), Holds(slices, offset, bytes),
         First(offset) < Final(offset, Len(bytes))
  PROVE  LET first == InFirst(offset, Len(bytes))
             m == (Final(offset, Len(bytes)) - First(offset) - 1) * slice_size
             middle == MiddleSlices(offset, Len(bytes))
         IN  IsPart(middle, bytes, first, m)
<1>0. slice_size \in Nat \ {0} /\ Len(bytes) \in Nat
  BY SliceAssumption
<1> DEFINE F == First(offset)
           rem == offset % slice_size
           G == Final(offset, Len(bytes))
           first == InFirst(offset, Len(bytes))
           final == InFinal(offset, Len(bytes))
           m == (G - F - 1) * slice_size
           middle == MiddleSlices(offset, Len(bytes))
<1>1. /\ F \in Nat /\ rem \in 0 .. slice_size - 1 /\ offset = F * slice_size + rem
      /\ G \in Nat /\ F < G /\ first = slice_size - rem /\ final \in Nat
      /\ m \in Nat /\ Len(bytes) = first + m + final
  <2>1. F < G
    OBVIOUS
  <2>2. /\ F \in Nat /\ rem \in 0 .. slice_size - 1 /\ offset = F * slice_size + rem
        /\ G \in Nat /\ final \in Nat
        /\ \/ G = F
           \/ /\ first = slice_size - rem
              /\ m \in Nat /\ Len(bytes) = first + m + final
    BY <1>0, PartsAre
  <2> HIDE DEF F, rem, G, first, final, m
  <2> QED
    BY <2>1, <2>2
<1>2. middle = [b \in 1 .. m |-> slices[(F + 1 + ((b - 1) \div slice_size)) + 1][((b - 1) % slice_size) + 1]]
  BY DEF MiddleSlices, MiddleBytes, Slice
<1> HIDE DEF F, rem, G, first, final, m, middle
<1>3. ASSUME NEW b \in 1 .. m
      PROVE  middle[b] = bytes[first + b] /\ bytes[first + b] \in Nat
  <2>1. b - 1 \in Nat
    BY <1>1
  <2>2. PICK d \in Nat, r \in 0 .. slice_size - 1 :
          d = (b - 1) \div slice_size /\ r = (b - 1) % slice_size /\ b - 1 = d * slice_size + r
    BY <2>1, Place
  <2>3. first + b \in 1 .. Len(bytes)
    BY <1>0, <1>1
  <2>8. PICK k \in 1 .. Len(bytes) : k = first + b
    BY <2>3
  <2>5. PICK e \in Nat : e = F + 1 + d
    BY <1>1
  <2>4. IsPlace(offset, k, e, r)
    <3>1. (F + 1 + d) * slice_size = F * slice_size + slice_size + d * slice_size
          /\ F * slice_size \in Nat /\ d * slice_size \in Nat
      BY <1>0, <1>1
    <3>2. PICK u, v \in Nat : u = F * slice_size /\ v = d * slice_size
      BY <3>1
    <3>3. e * slice_size = u + slice_size + v
      BY <2>5, <3>1, <3>2
    <3>4. offset = u + rem /\ k = (slice_size - rem) + b /\ b = v + r + 1
      BY <1>0, <1>1, <2>1, <2>2, <2>8, <3>2
    <3> QED
      BY <1>0, <1>1, <3>3, <3>4 DEF IsPlace
  <2>6. slices[(F + 1 + d) + 1][r + 1] = bytes[first + b]
    <3>1. /\ IsSlices(slices) /\ Holds(slices, offset, bytes)
          /\ e \in Nat /\ r \in 0 .. slice_size - 1 /\ k \in 1 .. Len(bytes)
      BY <2>2, <2>5, <2>8
    <3>2. \A q \in Nat, s \in 0 .. slice_size - 1, j \in 1 .. Len(bytes) :
            IsPlace(offset, j, q, s) => slices[q + 1][s + 1] = bytes[j]
      BY BytesHeld, <3>1, SMTT(30)
    <3>3. slices[e + 1][r + 1] = bytes[k]
      BY <2>4, <3>1, <3>2
    <3> QED
      BY <2>5, <2>8, <3>3
  <2>7. bytes[first + b] \in Nat
    BY <2>3
  <2> QED
    BY <1>2, <2>2, <2>6, <2>7
<1>4. middle \in Seq(Nat) /\ Len(middle) = m
  <2>1. \A b \in 1 .. m : middle[b] \in Nat
    BY <1>3
  <2>2. middle \in [1 .. m -> Nat]
    BY <1>2, <2>1
  <2> QED
    BY <1>1, <2>2
<1> QED
  BY <1>3, <1>4 DEF F, G, first, m, middle, IsPart

(* Write gives back what the slices hold.                                  *)
LEMMA WriteIs ==
  ASSUME IsSlices(slices), NEW offset \in Nat, NEW bytes \in Seq(Nat), Holds(slices, offset, bytes)
  PROVE  Write(offset, Len(bytes)) = bytes
<1>0. slice_size \in Nat \ {0} /\ Len(bytes) \in Nat
  BY SliceAssumption
<1> DEFINE size == Len(bytes)
           F == First(offset)
           rem == offset % slice_size
           G == Final(offset, size)
           first == InFirst(offset, size)
           final == InFinal(offset, size)
           middle == MiddleSlices(offset, size)
           one == Bytes(F, rem, first)
           three == Bytes(G, 0, final)
<1>1. /\ F \in Nat /\ rem \in 0 .. slice_size - 1 /\ offset = F * slice_size + rem
      /\ G \in Nat /\ F <= G /\ first \in 0 .. size /\ final \in Nat
      /\ rem + first <= slice_size
      /\ \/ G = F /\ first = size /\ final = 0
         \/ /\ F < G /\ first = slice_size - rem /\ final < slice_size
            /\ (G - F - 1) * slice_size \in Nat
            /\ size = first + (G - F - 1) * slice_size + final
  BY <1>0, PartsAre
<1>2. Write(offset, size) = one \o middle \o three
  BY DEF Write
<1> HIDE DEF F, rem, G, first, final, size
<1>3. IsPart(one, bytes, 0, first)
  <2>1. 0 \in Nat /\ first \in Nat /\ 0 + first <= Len(bytes) /\ offset + 0 = F * slice_size + rem
    BY <1>0, <1>1 DEF size
  <2>2. offset + 0 = offset /\ 0 + first = first
    BY <2>1
  <2> QED
    BY <1>1, <2>1, <2>2, BytesAre
<1>4. CASE G = F
  <2>1. first = size /\ final = 0 /\ G = F
    BY <1>1, <1>4
  <2>2. middle = <<>>
    <3>1. (F - F - 1) * slice_size < 1
      <4>1. F - F - 1 = -1
        BY <1>1
      <4>2. (-1) * slice_size < 1
        BY <1>0
      <4> QED
        BY <4>1, <4>2
    <3>2. (F - F - 1) * slice_size \in Int
      BY <1>0, <1>1
    <3>3. 1 .. (G - F - 1) * slice_size = {}
      BY <2>1, <3>1, <3>2
    <3>4. MiddleBytes(offset, size) = {}
      BY <3>3 DEF MiddleBytes, F, G
    <3> QED
      BY <3>4 DEF MiddleSlices
  <2>3. three = <<>>
    BY <2>1 DEF Bytes
  <2>4. one \o <<>> \o <<>> = one
    <3>1. one \in Seq(Nat)
      BY <1>3 DEF IsPart
    <3> HIDE DEF one
    <3> QED
      BY <3>1
  <2>5. one = bytes
    <3>1. \A b \in 1 .. first : 0 + b = b
      OBVIOUS
    <3> HIDE DEF one
    <3> QED
      BY <1>3, <2>1, <3>1 DEF size, IsPart
  <2> QED
    BY <1>2, <2>2, <2>3, <2>4, <2>5 DEF size
<1>5. CASE F < G
  <2> DEFINE m == (G - F - 1) * slice_size
  <2>1. /\ first = slice_size - rem /\ final < slice_size /\ m \in Nat
        /\ size = first + m + final
    BY <1>1, <1>5
  <2>2. IsPart(middle, bytes, first, m)
    BY <1>5, MiddleIs DEF size, F, G, first
  <2>3. IsPart(three, bytes, first + m, final)
    <3>1. 0 \in 0 .. slice_size - 1 /\ first + m \in Nat /\ (first + m) + final <= Len(bytes)
          /\ 0 + final <= slice_size
      BY <1>0, <1>1, <2>1 DEF size
    <3>2. offset + (first + m) = G * slice_size + 0
      <4>1. PICK d \in Nat : G = F + 1 + d /\ d = G - F - 1
        BY <1>1, <1>5
      <4>2. (F + 1 + d) * slice_size = F * slice_size + slice_size + d * slice_size
            /\ F * slice_size \in Nat /\ d * slice_size \in Nat
        BY <1>0, <1>1
      <4>3. m = d * slice_size
        BY <4>1
      <4> QED
        BY <1>0, <1>1, <2>1, <4>1, <4>2, <4>3
    <3>3. PICK start \in Nat : start = first + m
      BY <3>1
    <3>4. start + final <= Len(bytes) /\ offset + start = G * slice_size + 0
          /\ 0 + final <= slice_size
      BY <3>1, <3>2, <3>3
    <3>5. IsPart(three, bytes, start, final)
      BY <1>1, <3>1, <3>4, BytesAre
    <3> HIDE DEF m, three
    <3> QED
      BY <3>3, <3>5
  <2> HIDE DEF m, one, middle, three
  <2>4. one \o middle \o three = bytes
    <3>1. Len(bytes) = first + m + final /\ first \in Nat /\ m \in Nat /\ final \in Nat
      BY <1>0, <1>1, <2>1 DEF size
    <3> QED
      BY <1>3, <2>2, <2>3, <3>1, ThreeParts, ZenonT(40)
  <2> QED
    BY <1>2, <2>4 DEF size
<1> QED
  BY <1>1, <1>4, <1>5

----------------------------------------------------------------------------
(* The invariant: every entry since the last Clear is held.                *)

BufferInv ==
  /\ IsSlices(slices)
  /\ nodes \in Seq(Node)
  /\ \A n \in 1 .. Len(nodes) :
       Holds(slices, nodes[n].key_offset, nodes[n].key \o nodes[n].value)

LEMMA BytesTyped == ASSUME NEW key \in Key, NEW value \in Value
                PROVE  key \in Seq(Nat) /\ key # <<>> /\ value \in Seq(Nat)
BY BytesAssumption

LEMMA FailedAppendIs ==
  ASSUME NEW sl, IsSlices(sl), NEW bytes \in Seq(Nat)
  PROVE  IsSlices(FailedAppend(sl, bytes)) /\ Grows(sl, FailedAppend(sl, bytes))
BY FilledIs DEF FailedAppend

LEMMA NodesKept ==
  ASSUME BufferInv, NEW sl2, IsSlices(sl2), Grows(slices, sl2), NEW n \in 1 .. Len(nodes)
  PROVE  Holds(sl2, nodes[n].key_offset, nodes[n].key \o nodes[n].value)
<1>1. nodes[n].key_offset \in Nat /\ nodes[n].key \in Key /\ nodes[n].value \in Value
  <2>1. nodes[n] \in Node
    BY DEF BufferInv
  <2> QED
    BY <2>1 DEF Node
<1>2. nodes[n].key \in Seq(Nat) /\ nodes[n].value \in Seq(Nat)
  BY <1>1, BytesTyped
<1>3. nodes[n].key \o nodes[n].value \in Seq(Nat)
  BY <1>2
<1>4. IsSlices(slices) /\ Holds(slices, nodes[n].key_offset, nodes[n].key \o nodes[n].value)
  BY DEF BufferInv
<1> QED
  BY <1>1, <1>3, <1>4, GrowsHolds

LEMMA BufferInit == Init => BufferInv
<1> SUFFICES ASSUME Init PROVE BufferInv
  OBVIOUS
<1>1. slices = <<<<>>>> /\ nodes = <<>>
  BY DEF Init
<1>2. IsSlices(slices)
  <2>1. <<>> \in Seq(Nat) /\ Len(<<>>) = 0 /\ 0 <= slice_size
    BY SliceAssumption
  <2>2. \A i \in 1 .. Len(slices) : slices[i] = <<>>
    BY <1>1
  <2>3. slices \in Seq(Seq(Nat)) /\ slices # <<>>
    BY <1>1, <2>1
  <2> QED
    BY <2>1, <2>2, <2>3 DEF IsSlices
<1>3. nodes \in Seq(Node) /\ \A n \in 1 .. Len(nodes) : FALSE
  BY <1>1
<1> QED
  BY <1>2, <1>3 DEF BufferInv

LEMMA WriteToNodeKeeps ==
  ASSUME BufferInv, NEW key \in Key, NEW value \in Value, WriteToNode(key, value)
  PROVE  BufferInv'
<1> DEFINE one == Appended(slices, key)
           two == Appended(one, value)
           T == GetTotalKVSizeInBytes(slices)
           node == [key_offset |-> T, key |-> key, value |-> value]
<1>1. key \in Seq(Nat) /\ value \in Seq(Nat) /\ IsSlices(slices) /\ T \in Nat
  BY BytesTyped, TotalIs DEF BufferInv
<1>2. slices' = two /\ nodes' = Append(nodes, node)
  BY DEF WriteToNode
<1>3. /\ IsSlices(one) /\ Grows(slices, one) /\ Holds(one, T, key)
      /\ GetTotalKVSizeInBytes(one) = T + Len(key)
  BY <1>1, AppendIs
<1> HIDE DEF one
<1>4. IsSlices(two) /\ Grows(one, two) /\ Holds(two, T + Len(key), value)
  BY <1>1, <1>3, AppendIs
<1> HIDE DEF two, T
<1>5. Grows(slices, two)
  BY <1>1, <1>3, <1>4, GrowsTwice
<1>6. Holds(two, T, key \o value)
  <2>1. Holds(two, T, key)
    BY <1>1, <1>3, <1>4, GrowsHolds
  <2> QED
    BY <1>1, <1>4, <2>1, HoldsBoth
<1>7. node \in Node
  BY <1>1 DEF Node
<1>8. /\ nodes' \in Seq(Node) /\ Len(nodes') = Len(nodes) + 1
      /\ \A n \in 1 .. Len(nodes) : nodes'[n] = nodes[n]
      /\ nodes'[Len(nodes) + 1] = node
  BY <1>2, <1>7 DEF BufferInv
<1>9. IsSlices(slices')
  BY <1>2, <1>4
<1>10. ASSUME NEW n \in 1 .. Len(nodes')
       PROVE  Holds(slices', nodes'[n].key_offset, nodes'[n].key \o nodes'[n].value)
  <2>1. CASE n \in 1 .. Len(nodes)
    <3>1. Holds(two, nodes[n].key_offset, nodes[n].key \o nodes[n].value)
      BY <1>4, <1>5, <2>1, NodesKept
    <3>2. nodes'[n] = nodes[n]
      BY <1>8, <2>1
    <3> QED
      BY <1>2, <3>1, <3>2
  <2>2. CASE n \notin 1 .. Len(nodes)
    <3>1. n = Len(nodes) + 1
      <4>1. Len(nodes) \in Nat
        BY DEF BufferInv
      <4> QED
        BY <1>8, <2>2, <4>1
    <3>2. nodes'[n] = node
      BY <1>8, <3>1
    <3>3. node.key_offset = T /\ node.key = key /\ node.value = value
      OBVIOUS
    <3> HIDE DEF node
    <3> QED
      BY <1>2, <1>6, <3>2, <3>3
  <2> QED
    BY <2>1, <2>2
<1> QED
  BY <1>8, <1>9, <1>10 DEF BufferInv

LEMMA ThrowKeeps ==
  ASSUME BufferInv, NEW key \in Key, NEW value \in Value, WriteToNodeThrows(key, value)
  PROVE  BufferInv'
<1>1. key \in Seq(Nat) /\ value \in Seq(Nat) /\ IsSlices(slices)
  BY BytesTyped DEF BufferInv
<1>2. nodes' = nodes
  BY DEF WriteToNodeThrows
<1>3. IsSlices(slices') /\ Grows(slices, slices')
  <2>1. CASE slices' = FailedAppend(slices, key)
    BY <1>1, <2>1, FailedAppendIs
  <2>2. CASE slices' = FailedAppend(Appended(slices, key), value)
    <3>1. IsSlices(Appended(slices, key)) /\ Grows(slices, Appended(slices, key))
      BY <1>1, AppendIs
    <3>2. IsSlices(slices') /\ Grows(Appended(slices, key), slices')
      BY <1>1, <2>2, <3>1, FailedAppendIs
    <3> QED
      BY <1>1, <3>1, <3>2, GrowsTwice
  <2> QED
    BY <2>1, <2>2 DEF WriteToNodeThrows
<1>4. \A n \in 1 .. Len(nodes) : Holds(slices', nodes[n].key_offset, nodes[n].key \o nodes[n].value)
  BY <1>3, NodesKept
<1> QED
  BY <1>2, <1>3, <1>4 DEF BufferInv

LEMMA ClearKeeps == ASSUME BufferInv, Clear PROVE BufferInv'
<1>1. slices' = [i \in DOMAIN slices |-> <<>>] /\ nodes' = <<>>
  BY DEF Clear
<1>2. slices \in Seq(Seq(Nat)) /\ slices # <<>>
  BY DEF BufferInv, IsSlices
<1>3. slices' = [i \in 1 .. Len(slices) |-> <<>>] /\ Len(slices) \in Nat \ {0}
  BY <1>1, <1>2
<1>4. <<>> \in Seq(Nat) /\ Len(<<>>) = 0 /\ 0 <= slice_size
  BY SliceAssumption
<1>5. /\ slices' \in Seq(Seq(Nat)) /\ Len(slices') = Len(slices)
      /\ \A i \in 1 .. Len(slices) : slices'[i] = <<>>
  BY <1>3, <1>4
<1>6. IsSlices(slices')
  <2>1. slices' # <<>>
    BY <1>3, <1>5
  <2> QED
    BY <1>4, <1>5, <2>1 DEF IsSlices
<1>7. nodes' \in Seq(Node) /\ \A n \in 1 .. Len(nodes') : FALSE
  BY <1>1
<1> QED
  BY <1>6, <1>7 DEF BufferInv

LEMMA BufferStep == BufferInv /\ [Next]_vars => BufferInv'
<1> SUFFICES ASSUME BufferInv, [Next]_vars PROVE BufferInv'
  OBVIOUS
<1>1. CASE Clear
  BY <1>1, ClearKeeps
<1>2. ASSUME NEW key \in Key, NEW value \in Value, WriteToNode(key, value) PROVE BufferInv'
  BY <1>2, WriteToNodeKeeps
<1>3. ASSUME NEW key \in Key, NEW value \in Value, WriteToNodeThrows(key, value) PROVE BufferInv'
  BY <1>3, ThrowKeeps
<1>4. CASE UNCHANGED vars
  BY <1>4 DEF vars, BufferInv
<1> QED
  BY <1>1, <1>2, <1>3, <1>4 DEF Next

LEMMA HeldReadsBack == BufferInv => ReadsBack
<1> SUFFICES ASSUME BufferInv, NEW n \in 1 .. Len(nodes)
             PROVE  LET node == nodes[n]
                        size == Len(node.key)
                    IN  /\ Write(node.key_offset, size) = node.key
                        /\ node.value # <<>> => Write(node.key_offset + size, Len(node.value)) = node.value
                        /\ Write(node.key_offset, size + Len(node.value)) = node.key \o node.value
  <2>1. BufferInv => DOMAIN nodes = 1 .. Len(nodes)
    BY DEF BufferInv
  <2> QED
    BY <2>1 DEF ReadsBack
<1>1. PICK offset \in Nat, key \in Key, value \in Value :
        offset = nodes[n].key_offset /\ key = nodes[n].key /\ value = nodes[n].value
  <2>1. nodes[n] \in Node
    BY DEF BufferInv
  <2> QED
    BY <2>1 DEF Node
<1>2. key \in Seq(Nat) /\ value \in Seq(Nat) /\ IsSlices(slices)
  BY BytesTyped DEF BufferInv
<1>3. Holds(slices, offset, key \o value)
  BY <1>1 DEF BufferInv
<1>4. Holds(slices, offset, key) /\ Holds(slices, offset + Len(key), value)
  BY <1>2, <1>3, HoldsParts
<1>5. key \o value \in Seq(Nat) /\ Len(key \o value) = Len(key) + Len(value)
      /\ offset + Len(key) \in Nat
  BY <1>2
<1>6. Write(offset, Len(key)) = key
  BY <1>2, <1>4, WriteIs
<1>7. Write(offset + Len(key), Len(value)) = value
  BY <1>2, <1>4, <1>5, WriteIs
<1>8. Write(offset, Len(key) + Len(value)) = key \o value
  <2>1. Write(offset, Len(key \o value)) = key \o value
    BY <1>2, <1>3, <1>5, WriteIs
  <2> QED
    BY <1>5, <2>1
<1> QED
  BY <1>1, <1>6, <1>7, <1>8

(* Whatever was appended, cleared or failed before, Write and WriteToFd    *)
(* give back the very bytes of every entry of the memtable, over all slice *)
(* borders: for every slice size, and for keys and values of every length. *)
THEOREM BufferReadsBack == Spec => []ReadsBack
<1>1. Init => BufferInv
  BY BufferInit
<1>2. BufferInv /\ [Next]_vars => BufferInv'
  BY BufferStep
<1>3. BufferInv => ReadsBack
  BY HeldReadsBack
<1> QED
  BY <1>1, <1>2, <1>3, PTL DEF Spec

----------------------------------------------------------------------------
(* Comparing. *)

LEMMA DifferIs ==
  ASSUME NEW s \in Seq(Nat), NEW t \in Seq(Nat)
  PROVE  \A n : n \in Differ(s, t) <=> n \in 1 .. Len(s) /\ n \in 1 .. Len(t) /\ s[n] # t[n]
BY DEF Differ

LEMMA MemcmpEqual ==
  ASSUME NEW s, NEW t, Differ(s, t) = {}
  PROVE  Memcmp(s, t) = 0
BY DEF Memcmp

(* The first difference decides.                                           *)
LEMMA MemcmpAt ==
  ASSUME NEW s \in Seq(Nat), NEW t \in Seq(Nat), NEW n \in Differ(s, t),
         \A i \in Differ(s, t) : n <= i
  PROVE  Memcmp(s, t) = (IF s[n] < t[n] THEN -1 ELSE 1)
<1>1. \A i \in Differ(s, t) : i \in Nat
  BY DifferIs
<1>2. Min(Differ(s, t)) = n
  <2>1. n \in Differ(s, t) /\ \A y \in Differ(s, t) : n <= y
    OBVIOUS
  <2>2. \A x \in Differ(s, t) : (\A y \in Differ(s, t) : x <= y) => x = n
    <3>1. \A a, b \in Nat : a <= b /\ b <= a => a = b
      OBVIOUS
    <3> QED
      BY <1>1, <2>1, <3>1, Zenon
  <2> QED
    BY <2>1, <2>2, Zenon DEF Min
<1> DEFINE d == Differ(s, t)
<1>3. d # {}
  OBVIOUS
<1>4. Memcmp(s, t) = (IF s[Min(d)] < t[Min(d)] THEN -1 ELSE 1)
  BY <1>3 DEF Memcmp
<1> QED
  BY <1>2, <1>4

LEMMA FirstDiffer ==
  ASSUME NEW s \in Seq(Nat), NEW t \in Seq(Nat), Differ(s, t) # {}
  PROVE  \E n \in Differ(s, t) : \A i \in Differ(s, t) : n <= i
<1>1. Differ(s, t) \subseteq Nat
  BY DifferIs
<1> QED
  BY <1>1, LeastNat

(* s starts with s1, of size f, and then s2, of size r. *)
IsCut(s, s1, s2, f, r) == IsPart(s1, s, 0, f) /\ IsPart(s2, s, f, r)

(* Comparing in two parts.                                                 *)
LEMMA MemcmpParts ==
  ASSUME NEW s \in Seq(Nat), NEW t \in Seq(Nat), NEW f \in Nat, NEW r \in Nat,
         f + r <= Len(s), f + r <= Len(t), f + r = Len(s) \/ f + r = Len(t),
         NEW s1, NEW s2, NEW t1, NEW t2, IsCut(s, s1, s2, f, r), IsCut(t, t1, t2, f, r)
  PROVE  /\ Memcmp(s1, t1) # 0 => Memcmp(s, t) = Memcmp(s1, t1)
         /\ Memcmp(s1, t1) = 0 => Memcmp(s, t) = Memcmp(s2, t2)
<1>1. /\ s1 \in Seq(Nat) /\ t1 \in Seq(Nat) /\ s2 \in Seq(Nat) /\ t2 \in Seq(Nat)
      /\ Len(s1) = f /\ Len(t1) = f /\ Len(s2) = r /\ Len(t2) = r
      /\ \A n \in 1 .. f : s1[n] = s[n] /\ t1[n] = t[n]
      /\ \A n \in 1 .. r : s2[n] = s[f + n] /\ t2[n] = t[f + n]
  <2>1. \A n \in 1 .. f : 0 + n = n
    OBVIOUS
  <2> QED
    BY <2>1 DEF IsPart, IsCut
<1>7. \A n : n \in Differ(s, t) <=> n \in 1 .. Len(s) /\ n \in 1 .. Len(t) /\ s[n] # t[n]
  BY DifferIs
<1>8. \A n : n \in Differ(s1, t1) <=> n \in 1 .. f /\ s1[n] # t1[n]
  <2>1. s1 \in Seq(Nat) /\ t1 \in Seq(Nat) /\ Len(s1) = f /\ Len(t1) = f
    BY <1>1
  <2>2. \A n : n \in Differ(s1, t1) <=> n \in 1 .. Len(s1) /\ n \in 1 .. Len(t1) /\ s1[n] # t1[n]
    BY <2>1, DifferIs
  <2> QED
    BY <2>1, <2>2
<1>9. \A n : n \in Differ(s2, t2) <=> n \in 1 .. r /\ s2[n] # t2[n]
  <2>1. s2 \in Seq(Nat) /\ t2 \in Seq(Nat) /\ Len(s2) = r /\ Len(t2) = r
    BY <1>1
  <2>2. \A n : n \in Differ(s2, t2) <=> n \in 1 .. Len(s2) /\ n \in 1 .. Len(t2) /\ s2[n] # t2[n]
    BY <2>1, DifferIs
  <2> QED
    BY <2>1, <2>2
<1>2. \A n : n \in Differ(s1, t1) <=> n \in 1 .. f /\ n \in Differ(s, t)
  <2>1. \A n \in 1 .. f : n \in 1 .. Len(s) /\ n \in 1 .. Len(t)
    OBVIOUS
  <2>2. \A n \in 1 .. f : s1[n] = s[n] /\ t1[n] = t[n]
    BY <1>1
  <2> QED
    BY <1>7, <1>8, <2>1, <2>2
<1>3. \A n \in 1 .. r : n \in Differ(s2, t2) <=> f + n \in Differ(s, t)
  <2>1. \A n \in 1 .. r : f + n \in 1 .. Len(s) /\ f + n \in 1 .. Len(t)
    OBVIOUS
  <2>2. \A n \in 1 .. r : s2[n] = s[f + n] /\ t2[n] = t[f + n]
    BY <1>1
  <2>3. ASSUME NEW n \in 1 .. r
        PROVE  n \in Differ(s2, t2) <=> f + n \in Differ(s, t)
    <3>1. n \in Differ(s2, t2) <=> s2[n] # t2[n]
      BY <1>9
    <3>2. f + n \in Differ(s, t) <=> s[f + n] # t[f + n]
      BY <1>7, <2>1
    <3> QED
      BY <2>2, <3>1, <3>2
  <2> QED
    BY <2>3
<1>4. \A n : n \in Differ(s, t) => n \in 1 .. f + r
  <2>1. \A n : n \in 1 .. Len(s) /\ n \in 1 .. Len(t) => n \in 1 .. f + r
    OBVIOUS
  <2> QED
    BY <2>1, DifferIs
<1>5. CASE Differ(s1, t1) # {}
  <2>1. PICK n \in Differ(s1, t1) : \A i \in Differ(s1, t1) : n <= i
    BY <1>1, <1>5, FirstDiffer
  <2>2. Memcmp(s1, t1) = (IF s1[n] < t1[n] THEN -1 ELSE 1)
    BY <1>1, <2>1, MemcmpAt
  <2>3. n \in 1 .. f /\ n \in Differ(s, t) /\ s1[n] = s[n] /\ t1[n] = t[n]
    BY <1>1, <1>2
  <2>4. \A i \in Differ(s, t) : n <= i
    <3>1. ASSUME NEW i \in Differ(s, t) PROVE n <= i
      <4>1. i \in 1 .. f + r
        BY <1>4
      <4>2. CASE i \in 1 .. f
        <5>1. i \in Differ(s1, t1)
          BY <1>2, <4>2
        <5> QED
          BY <2>1, <5>1
      <4>3. CASE i \notin 1 .. f
        <5>1. i > f /\ n <= f
          BY <2>3, <4>1, <4>3
        <5> QED
          BY <2>3, <4>1, <5>1
      <4> QED
        BY <4>2, <4>3
    <3> QED
      BY <3>1
  <2>5. Memcmp(s, t) = (IF s[n] < t[n] THEN -1 ELSE 1)
    BY <2>3, <2>4, MemcmpAt
  <2> QED
    BY <2>2, <2>3, <2>5
<1>6. CASE Differ(s1, t1) = {}
  <2>1. Memcmp(s1, t1) = 0
    BY <1>6, MemcmpEqual
  <2>2. \A i \in Differ(s, t) : i - f \in Differ(s2, t2) /\ i - f \in 1 .. r /\ f + (i - f) = i
    <3>1. ASSUME NEW i \in Differ(s, t)
          PROVE  i - f \in Differ(s2, t2) /\ i - f \in 1 .. r /\ f + (i - f) = i
      <4>1. i \in 1 .. f + r /\ i \notin 1 .. f
        BY <1>2, <1>4, <1>6
      <4>2. i - f \in 1 .. r /\ f + (i - f) = i
        BY <4>1
      <4> QED
        BY <1>3, <4>2
    <3> QED
      BY <3>1
  <2>3. CASE Differ(s2, t2) = {}
    <3>1. Differ(s, t) = {}
      BY <2>2, <2>3
    <3>2. Memcmp(s, t) = 0 /\ Memcmp(s2, t2) = 0
      BY <2>3, <3>1, MemcmpEqual
    <3> QED
      BY <2>1, <3>2
  <2>4. CASE Differ(s2, t2) # {}
    <3>1. PICK n \in Differ(s2, t2) : \A i \in Differ(s2, t2) : n <= i
      BY <1>1, <2>4, FirstDiffer
    <3>2. Memcmp(s2, t2) = (IF s2[n] < t2[n] THEN -1 ELSE 1)
      BY <1>1, <3>1, MemcmpAt
    <3>3. n \in 1 .. r
      BY <1>1, DifferIs
    <3>4. s2[n] = s[f + n] /\ t2[n] = t[f + n] /\ f + n \in Differ(s, t)
      BY <1>1, <1>3, <3>3
    <3>5. ASSUME NEW i \in Differ(s, t) PROVE f + n <= i
      <4>1. n <= i - f /\ i - f \in 1 .. r /\ f + (i - f) = i
        BY <2>2, <3>1
      <4>2. i \in Nat
        BY <1>4
      <4> QED
        BY <3>3, <4>1, <4>2
    <3>6. PICK k \in Differ(s, t) : k = f + n
      BY <3>4
    <3>7. Memcmp(s, t) = (IF s[k] < t[k] THEN -1 ELSE 1)
      BY <3>5, <3>6, MemcmpAt
    <3> QED
      BY <2>1, <3>2, <3>4, <3>6, <3>7
  <2> QED
    BY <2>3, <2>4
<1> QED
  BY <1>5, <1>6

(* A key of at most a slice meets one border at most, and so the loop over *)
(* the full slices, which would never end or go wrong, is not entered.     *)
LEMMA NoFullSlice ==
  ASSUME NEW offset \in Nat, NEW size \in Nat, size <= slice_size
  PROVE  ~(First(offset) + 1 < Final(offset, size))
<1>0. slice_size \in Nat \ {0}
  BY SliceAssumption
<1> DEFINE F == First(offset)
           rem == offset % slice_size
           G == Final(offset, size)
           first == InFirst(offset, size)
           final == InFinal(offset, size)
<1>1. /\ F \in Nat /\ rem \in 0 .. slice_size - 1 /\ G \in Nat /\ final \in Nat
      /\ \/ G = F
         \/ /\ first = slice_size - rem /\ (G - F - 1) * slice_size \in Nat
            /\ size = first + (G - F - 1) * slice_size + final
  BY PartsAre
<1> HIDE DEF F, rem, G, first, final
<1> SUFFICES ASSUME F + 1 < G PROVE FALSE
  BY DEF F, G
<1>2. PICK d \in Nat : G - F - 1 = d + 1
  <2>1. G - F - 2 \in Nat /\ G - F - 1 = (G - F - 2) + 1
    BY <1>1
  <2> QED
    BY <2>1
<1>3. (d + 1) * slice_size = d * slice_size + slice_size /\ d * slice_size \in Nat
  BY <1>0, SliceProduct
<1>4. PICK x \in Nat : x = d * slice_size
  BY <1>3
<1>5. (G - F - 1) * slice_size = x + slice_size
  BY <1>2, <1>3, <1>4
<1>6. size = (slice_size - rem) + (x + slice_size) + final
  BY <1>1, <1>5
<1> QED
  BY <1>0, <1>1, <1>4, <1>6

LEMMA CompareIs ==
  ASSUME IsSlices(slices), NEW offset \in Nat, NEW stored \in Seq(Nat), Holds(slices, offset, stored),
         NEW key \in Seq(Nat), NEW size \in Nat, size <= slice_size,
         size <= Len(key), size <= Len(stored), size = Len(key) \/ size = Len(stored)
  PROVE  CompareResults(key, offset, size) = {Memcmp(key, stored)}
<1>0. slice_size \in Nat \ {0}
  BY SliceAssumption
<1> DEFINE F == First(offset)
           rem == offset % slice_size
           G == Final(offset, size)
           first == InFirst(offset, size)
           final == InFinal(offset, size)
           s1 == SubSeq(key, 1, first)
           t1 == Bytes(F, rem, first)
           s2 == SubSeq(Beyond(key, first), 1, size - first)
           t2 == Bytes(G, 0, size - first)
<1>1. CompareResults(key, offset, size)
        = (IF Memcmp(s1, t1) # 0 THEN {Memcmp(s1, t1)} ELSE {Memcmp(s2, t2)})
  <2>1. ~(F + 1 < G)
    BY NoFullSlice
  <2> HIDE DEF first
  <2> QED
    BY <2>1 DEF CompareResults, first
<1>2. /\ F \in Nat /\ rem \in 0 .. slice_size - 1 /\ offset = F * slice_size + rem
      /\ G \in Nat /\ first \in 0 .. size /\ rem + first <= slice_size
      /\ \/ G = F /\ first = size
         \/ /\ F < G /\ first = slice_size - rem /\ final < slice_size /\ final \in Nat
            /\ (G - F - 1) * slice_size \in Nat
            /\ size = first + (G - F - 1) * slice_size + final
  BY PartsAre
<1>3. ~(F + 1 < G)
  BY NoFullSlice
<1> HIDE DEF F, rem, G, first, final, s1, s2, t1, t2
<1>4. PICK r \in Nat : r = size - first /\ first + r = size
  BY <1>2
<1>5. IsPart(s1, key, 0, first)
  <2>1. PICK zero \in Nat : zero = 0
    OBVIOUS
  <2>2. first \in Nat /\ \A i \in zero + 1 .. zero + first : key[i] \in Nat
    <3>1. first \in Nat /\ first <= size
      BY <1>2
    <3>2. \A i \in zero + 1 .. zero + first : i \in 1 .. Len(key)
      BY <2>1, <3>1
    <3> QED
      BY <3>1, <3>2
  <2>3. IsPart(SubSeq(key, zero + 1, zero + first), key, zero, first)
    BY <2>2, PartOf
  <2>4. zero + 1 = 1 /\ zero + first = first
    BY <2>1, <2>2
  <2> QED
    BY <2>1, <2>3, <2>4 DEF s1
<1>6. IsPart(t1, stored, 0, first)
  <2>1. first \in Nat /\ 0 + first <= Len(stored) /\ offset + 0 = F * slice_size + rem
    BY <1>2
  <2>2. PICK zero \in Nat : zero = 0
    OBVIOUS
  <2>3. zero + first <= Len(stored) /\ offset + zero = F * slice_size + rem
    BY <2>1, <2>2
  <2>4. IsPart(t1, stored, zero, first)
    BY <1>2, <2>1, <2>3, BytesAre DEF t1
  <2> QED
    BY <2>2, <2>4
<1>7. IsPart(s2, key, first, r)
  <2> DEFINE rest == SubSeq(key, first + 1, Len(key))
  <2>1. PICK m \in Nat : m = Len(key) - first /\ first + m = Len(key) /\ r <= m
    <3>1. first \in Nat /\ first <= size
      BY <1>2
    <3>2. Len(key) - first \in Nat /\ first + (Len(key) - first) = Len(key)
          /\ r <= Len(key) - first
      BY <1>4, <3>1
    <3> QED
      BY <3>2
  <2>2. first \in Nat /\ \A i \in first + 1 .. first + m : key[i] \in Nat
    BY <1>2, <2>1
  <2>3. IsPart(SubSeq(key, first + 1, first + m), key, first, m)
    BY <2>2, PartOf
  <2>4. IsPart(rest, key, first, m)
    BY <2>1, <2>3
  <2> HIDE DEF rest
  <2>5. PICK zero \in Nat : zero = 0
    OBVIOUS
  <2>6. \A i \in zero + 1 .. zero + r : rest[i] \in Nat
    <3>1. rest \in Seq(Nat) /\ Len(rest) = m
      BY <2>4 DEF IsPart
    <3>2. \A i \in zero + 1 .. zero + r : i \in 1 .. m
      BY <2>1, <2>5
    <3>3. ASSUME NEW i \in zero + 1 .. zero + r PROVE rest[i] \in Nat
      <4>1. i \in 1 .. Len(rest)
        BY <3>1, <3>2
      <4> QED
        BY <3>1, <4>1
    <3> QED
      BY <3>3
  <2>7. IsPart(SubSeq(rest, zero + 1, zero + r), rest, zero, r)
    BY <2>6, PartOf
  <2>8. s2 = SubSeq(rest, 1, r) /\ zero + 1 = 1 /\ zero + r = r
    BY <1>4, <2>5 DEF s2, rest, Beyond
  <2>9. IsPart(s2, rest, 0, r)
    BY <2>5, <2>7, <2>8
  <2>10. \A b \in 1 .. r : b \in 1 .. m /\ 0 + b = b
    BY <2>1
  <2> HIDE DEF s2
  <2> QED
    BY <2>4, <2>9, <2>10 DEF IsPart
<1>8. IsPart(t2, stored, first, r)
  <2>1. CASE G = F /\ first = size
    <3>1. r = 0
      BY <1>4, <2>1
    <3>2. t2 = <<>>
      BY <1>4, <3>1 DEF t2, Bytes
    <3> QED
      BY <3>1, <3>2 DEF IsPart
  <2>2. CASE /\ F < G /\ first = slice_size - rem /\ final < slice_size /\ final \in Nat
             /\ size = first + (G - F - 1) * slice_size + final
    <3>1. G = F + 1 /\ G - F - 1 = 0
      BY <1>2, <1>3, <2>2
    <3>2. 0 * slice_size = 0
      BY <1>0
    <3>3. r = final
      BY <1>0, <1>2, <1>4, <2>2, <3>1, <3>2
    <3>4. offset + first = G * slice_size + 0
      <4>1. (F + 1) * slice_size = F * slice_size + slice_size /\ F * slice_size \in Nat
        BY <1>0, <1>2, SliceProduct
      <4> QED
        BY <1>0, <1>2, <2>2, <3>1, <4>1
    <3>5. first \in Nat /\ first + r <= Len(stored) /\ 0 + r <= slice_size /\ 0 \in 0 .. slice_size - 1
      BY <1>0, <1>2, <1>4, <2>2, <3>3
    <3>6. t2 = Bytes(G, 0, r)
      BY <1>4 DEF t2
    <3> QED
      BY <1>2, <3>4, <3>5, <3>6, BytesAre
  <2> QED
    BY <1>2, <2>1, <2>2
<1>9. Memcmp(key, stored) = (IF Memcmp(s1, t1) # 0 THEN Memcmp(s1, t1) ELSE Memcmp(s2, t2))
  <2>1. /\ first \in Nat /\ first + r <= Len(key) /\ first + r <= Len(stored)
        /\ first + r = Len(key) \/ first + r = Len(stored)
    BY <1>2, <1>4
  <2>2. first \in Nat /\ first + r <= Len(key) /\ first + r <= Len(stored)
    BY <2>1
  <2>3. first + r = Len(key) \/ first + r = Len(stored)
    BY <2>1
  <2>4. PICK f \in Nat : f = first
    BY <2>2
  <2>5. IsCut(key, s1, s2, f, r) /\ IsCut(stored, t1, t2, f, r)
    BY <1>5, <1>6, <1>7, <1>8, <2>4 DEF IsCut
  <2>6. f + r <= Len(key) /\ f + r <= Len(stored)
    BY <2>2, <2>4
  <2>7. f + r = Len(key) \/ f + r = Len(stored)
    BY <2>3, <2>4
  <2>8. /\ Memcmp(s1, t1) # 0 => Memcmp(key, stored) = Memcmp(s1, t1)
        /\ Memcmp(s1, t1) = 0 => Memcmp(key, stored) = Memcmp(s2, t2)
    BY <2>5, <2>6, <2>7, MemcmpParts
  <2> QED
    BY <2>8
<1> QED
  BY <1>1, <1>9

LEMMA HeldComparesRight ==
  (\A key \in Key : Len(key) <= slice_size) /\ BufferInv => CompareIsLexicographic
<1> SUFFICES ASSUME \A k \in Key : Len(k) <= slice_size, BufferInv, NEW n \in 1 .. Len(nodes), NEW key \in Key
             PROVE  SkipListCompare(nodes[n], key) = {LexCompare(key, nodes[n].key)}
  <2>1. BufferInv => DOMAIN nodes = 1 .. Len(nodes)
    BY DEF BufferInv
  <2> QED
    BY <2>1 DEF CompareIsLexicographic
<1>1. PICK offset \in Nat, stored \in Key, value \in Value :
        offset = nodes[n].key_offset /\ stored = nodes[n].key /\ value = nodes[n].value
  <2>1. nodes[n] \in Node
    BY DEF BufferInv
  <2> QED
    BY <2>1 DEF Node
<1>2. key \in Seq(Nat) /\ stored \in Seq(Nat) /\ value \in Seq(Nat) /\ IsSlices(slices)
  BY BytesTyped DEF BufferInv
<1>3. Holds(slices, offset, stored)
  <2>1. Holds(slices, offset, stored \o value)
    BY <1>1 DEF BufferInv
  <2> QED
    BY <1>2, <2>1, HoldsParts
<1>4. PICK size \in Nat :
        /\ size = Min({Len(key), Len(stored)})
        /\ size <= Len(key) /\ size <= Len(stored)
        /\ size = Len(key) \/ size = Len(stored)
  <2>1. Len(key) \in Nat /\ Len(stored) \in Nat
    BY <1>2
  <2>2. Min({Len(key), Len(stored)}) = (IF Len(key) <= Len(stored) THEN Len(key) ELSE Len(stored))
    BY <2>1, LessOf
  <2> QED
    BY <2>1, <2>2
<1>5. size <= slice_size
  BY <1>2, <1>4, SliceAssumption
<1>6. CompareResults(key, offset, size) = {Memcmp(key, stored)}
  <2>1. size <= Len(key) /\ size <= Len(stored)
    BY <1>4
  <2>2. size = Len(key) \/ size = Len(stored)
    BY <1>4
  <2> QED
    BY <1>2, <1>3, <1>5, <2>1, <2>2, CompareIs
<1>7. SkipListCompare(nodes[n], key)
        = {IF res # 0 THEN res ELSE Sign(Len(key) - Len(stored)) : res \in {Memcmp(key, stored)}}
  <2> DEFINE node == nodes[n]
  <2>1. SkipListCompare(node, key)
          = {IF res # 0 THEN res ELSE Sign(Len(key) - Len(node.key)) :
               res \in CompareResults(key, node.key_offset, Min({Len(key), Len(node.key)}))}
    BY DEF SkipListCompare
  <2>2. node.key_offset = offset /\ node.key = stored
    BY <1>1
  <2> HIDE DEF node
  <2>3. CompareResults(key, node.key_offset, Min({Len(key), Len(node.key)})) = {Memcmp(key, stored)}
    BY <1>4, <1>6, <2>2
  <2> QED
    BY <2>1, <2>2, <2>3 DEF node
<1>8. LexCompare(key, stored)
        = (IF Memcmp(key, stored) # 0 THEN Memcmp(key, stored) ELSE Sign(Len(key) - Len(stored)))
  BY DEF LexCompare
<1> QED
  BY <1>1, <1>7, <1>8

(* A key is compared with a stored one as std::map would, wherever the     *)
(* slice borders cut the stored one, as long as no key is longer than a    *)
(* slice (for longer ones the run MCKVBufferLongKeys shows the opposite).  *)
THEOREM BufferCompares ==
  (\A key \in Key : Len(key) <= slice_size) => (Spec => []CompareIsLexicographic)
<1> SUFFICES ASSUME \A key \in Key : Len(key) <= slice_size PROVE Spec => []CompareIsLexicographic
  OBVIOUS
<1>1. Init => BufferInv
  BY BufferInit
<1>2. BufferInv /\ [Next]_vars => BufferInv'
  BY BufferStep
<1>3. BufferInv => CompareIsLexicographic
  BY HeldComparesRight
<1> QED
  BY <1>1, <1>2, <1>3, PTL DEF Spec

----------------------------------------------------------------------------
(* SaveLoad. *)

(* The words numbers are saved in. *)

WordsAre == Base \in Nat \ {0, 1} /\ WordSize \in Nat \ {0}

LEMMA WordProduct ==
  ASSUME WordsAre, NEW a \in Nat
  PROVE  a * WordSize \in Nat /\ (a + 1) * WordSize = a * WordSize + WordSize
BY DEF WordsAre

LEMMA WordProductGrows ==
  ASSUME WordsAre, NEW a \in Nat, NEW c \in Nat, a <= c
  PROVE  a * WordSize <= c * WordSize
BY DEF WordsAre

(* A byte of a list of words lies in one word, at one place. *)
LEMMA ByteOfWord ==
  ASSUME WordsAre, NEW q \in Nat, NEW r \in 0 .. WordSize - 1
  PROVE  /\ q * WordSize + r \in Nat
         /\ (q * WordSize + r) \div WordSize = q
         /\ (q * WordSize + r) % WordSize = r
<1>0. WordSize \in Nat \ {0}
  BY DEF WordsAre
<1>1. q * WordSize \in Nat
  BY WordProduct
<1> DEFINE p == q * WordSize + r
           d == p \div WordSize
           m == p % WordSize
<1>2. p \in Nat
  BY <1>0, <1>1
<1>3. d \in Nat /\ m \in 0 .. WordSize - 1 /\ p = d * WordSize + m
  <2> HIDE DEF p
  <2>1. m \in 0 .. WordSize - 1
    BY <1>0, <1>2
  <2>2. p = d * WordSize + m
    BY <1>0, <1>2
  <2>3. d \in Int
    BY <1>0, <1>2
  <2>4. d >= 0
    BY <1>0, <1>2
  <2> QED
    BY <2>1, <2>2, <2>3, <2>4
<1>4. d = q
  <2> HIDE DEF d, m
  <2>1. CASE d < q
    <3>1. (d + 1) * WordSize <= q * WordSize
      BY <1>3, <2>1, WordProductGrows
    <3>2. (d + 1) * WordSize = d * WordSize + WordSize /\ d * WordSize \in Nat
      BY <1>3, WordProduct
    <3> QED
      BY <1>0, <1>1, <1>3, <3>1, <3>2
  <2>2. CASE q < d
    <3>1. (q + 1) * WordSize <= d * WordSize
      BY <1>3, <2>2, WordProductGrows
    <3>2. (q + 1) * WordSize = q * WordSize + WordSize /\ d * WordSize \in Nat
      BY <1>3, WordProduct
    <3> QED
      BY <1>0, <1>1, <1>3, <3>1, <3>2
  <2> QED
    BY <1>3, <2>1, <2>2
<1>5. m = r
  <2> HIDE DEF d, m
  <2> QED
    BY <1>0, <1>1, <1>3, <1>4
<1> QED
  BY <1>2, <1>4, <1>5

(* A number is its low digit and what is left. *)
LEMMA Digits ==
  ASSUME WordsAre, NEW a \in Nat
  PROVE  /\ a \div Base \in Nat /\ a % Base \in Byte
         /\ a = (a % Base) + Base * (a \div Base)
<1>0. Base \in Nat \ {0}
  BY DEF WordsAre
<1>1. a % Base \in 0 .. Base - 1
  BY <1>0
<1>2. a = Base * (a \div Base) + (a % Base)
  BY <1>0
<1>3. a \div Base \in Int
  BY <1>0
<1>4. a \div Base >= 0
  BY <1>0
<1>5. Base * (a \div Base) \in Int
  BY <1>0, <1>3
<1> QED
  BY <1>1, <1>2, <1>3, <1>4, <1>5 DEF Byte

LEMMA RestIs ==
  ASSUME WordsAre, NEW n \in Nat
  PROVE  LET rest == Rest(n)
         IN  /\ rest \in [0 .. WordSize -> Nat] /\ rest[0] = n
             /\ \A b \in 1 .. WordSize : rest[b] = rest[b - 1] \div Base
<1> DEFINE W == WordSize
           Equation(f) == f = [b \in 0 .. W |-> IF b = 0 THEN n ELSE f[b - 1] \div Base]
           step == [x \in (1 .. W) \X Nat |-> x[2] \div Base]
<1>1. W \in Nat
  BY DEF WordsAre
<1>2. step \in [(1 .. W) \X Nat -> Nat]
  <2>1. ASSUME NEW x \in (1 .. W) \X Nat PROVE x[2] \div Base \in Nat
    BY Digits
  <2> QED
    BY <2>1
<1>3. \A i \in 1 .. W, v \in Nat : step[<<i, v>>] = v \div Base
  OBVIOUS
<1> HIDE DEF W, step
<1>4. PICK w : Steps(W, Nat, n, step, w)
  BY <1>1, <1>2, StepByStep
<1>5. \A i \in 1 .. W : i - 1 \in 0 .. W /\ i \in 0 .. W
  BY <1>1
<1>6. \A i \in 1 .. W : w[i] = w[i - 1] \div Base
  BY <1>3, <1>4, <1>5 DEF Steps
<1>7. Equation(w)
  <2>1. \A i \in 0 .. W : w[i] = IF i = 0 THEN n ELSE w[i - 1] \div Base
    BY <1>1, <1>4, <1>6 DEF Steps
  <2> QED
    BY <1>4, <2>1 DEF Steps
<1>8. Rest(n) = CHOOSE f : Equation(f)
  BY DEF Rest, W
<1>9. PICK s : s = CHOOSE f : Equation(f)
  OBVIOUS
<1>10. Equation(s)
  <2> HIDE DEF Equation
  <2> QED
    BY <1>7, <1>9
<1>11. /\ DOMAIN s = 0 .. W /\ s = [i \in DOMAIN s |-> s[i]] /\ s[0] = n
       /\ \A i \in 1 .. W : s[i] = s[i - 1] \div Base
  <2>1. DOMAIN s = 0 .. W /\ s = [i \in DOMAIN s |-> s[i]]
    BY <1>10
  <2>2. \A i \in 0 .. W : s[i] = IF i = 0 THEN n ELSE s[i - 1] \div Base
    BY <1>10
  <2> HIDE DEF Equation
  <2>3. 0 \in 0 .. W /\ \A i \in 1 .. W : i \in 0 .. W /\ i # 0
    BY <1>1
  <2> QED
    BY <2>1, <2>2, <2>3
<1> HIDE DEF Equation
<1>12. \A i \in 0 .. W : s[i] \in Nat
  <2> DEFINE T == {i \in 0 .. W : s[i] \in Nat}
  <2>1. 0 \in T
    BY <1>1, <1>11
  <2>2. ASSUME NEW i \in 1 .. W, i - 1 \in T PROVE i \in T
    <3>1. s[i - 1] \in Nat /\ s[i] = s[i - 1] \div Base /\ i \in 0 .. W
      BY <1>5, <1>11, <2>2
    <3>2. s[i - 1] \div Base \in Nat
      BY <3>1, Digits
    <3> QED
      BY <3>1, <3>2
  <2> HIDE DEF T
  <2>3. 0 .. W \subseteq T
    BY <1>1, <2>1, <2>2, CountUp
  <2> QED
    BY <2>3 DEF T
<1>13. s \in [0 .. W -> Nat]
  BY <1>11, <1>12
<1>14. Rest(n) = s
  BY <1>8, <1>9
<1> QED
  BY <1>11, <1>13, <1>14 DEF W

LEMMA WordIs ==
  ASSUME WordsAre, NEW n \in Nat
  PROVE  /\ Word(n) \in Seq(Byte) /\ Len(Word(n)) = WordSize
         /\ \A b \in 1 .. WordSize : Word(n)[b] = Rest(n)[b - 1] % Base
<1>0. WordSize \in Nat
  BY DEF WordsAre
<1>1. PICK rest : rest = Rest(n) /\ rest \in [0 .. WordSize -> Nat]
  BY RestIs
<1>2. \A b \in 1 .. WordSize : rest[b - 1] % Base \in Byte
  <2> SUFFICES ASSUME NEW b \in 1 .. WordSize PROVE rest[b - 1] % Base \in Byte
    OBVIOUS
  <2>1. b - 1 \in 0 .. WordSize
    BY <1>0
  <2>2. rest[b - 1] \in Nat
    BY <1>1, <2>1
  <2> QED
    BY <2>2, Digits
<1>3. Word(n) = [b \in 1 .. WordSize |-> rest[b - 1] % Base]
  BY <1>1 DEF Word
<1> QED
  BY <1>0, <1>1, <1>2, <1>3

(* The reading of a number, from its high byte on. *)
IsUpper(upper, bytes, place) ==
  /\ upper \in [0 .. WordSize -> Nat] /\ upper[0] = 0
  /\ \A b \in 1 .. WordSize :
       upper[b] = bytes[place + WordSize + 1 - b] + Base * upper[b - 1]

LEMMA NumberAtIs ==
  ASSUME WordsAre, NEW bytes, NEW place \in Nat,
         \A b \in 1 .. WordSize : bytes[place + b] \in Byte
  PROVE  \E upper : IsUpper(upper, bytes, place) /\ NumberAt(bytes, place) = upper[WordSize]
<1> DEFINE W == WordSize
           digit(i) == bytes[place + W + 1 - i]
           Equation(f) == f = [b \in 0 .. W |-> IF b = 0 THEN 0 ELSE digit(b) + Base * f[b - 1]]
           step == [x \in (1 .. W) \X Nat |-> digit(x[1]) + Base * x[2]]
<1>1. W \in Nat /\ Base \in Nat
  BY DEF WordsAre
<1>2. ASSUME NEW i \in 1 .. W PROVE digit(i) \in Nat
  <2>1. (W + 1) - i \in 1 .. W /\ place + ((W + 1) - i) = place + W + 1 - i
    BY <1>1
  <2>2. bytes[place + ((W + 1) - i)] \in Byte
    BY <2>1
  <2> QED
    BY <1>1, <2>1, <2>2 DEF Byte
<1> HIDE DEF digit
<1>3. ASSUME NEW i \in 1 .. W, NEW v \in Nat
      PROVE  digit(i) + Base * v \in Nat
  <2>1. digit(i) \in Nat
    BY <1>2
  <2> QED
    BY <1>1, <2>1
<1>4. step \in [(1 .. W) \X Nat -> Nat]
  <2>1. ASSUME NEW x \in (1 .. W) \X Nat PROVE digit(x[1]) + Base * x[2] \in Nat
    <3>1. x[1] \in 1 .. W /\ x[2] \in Nat
      OBVIOUS
    <3> QED
      BY <1>3, <3>1
  <2> QED
    BY <2>1
<1>5. \A i \in 1 .. W, v \in Nat : step[<<i, v>>] = digit(i) + Base * v
  OBVIOUS
<1> HIDE DEF W, step
<1>6. PICK w : Steps(W, Nat, 0, step, w)
  <2>1. 0 \in Nat
    OBVIOUS
  <2> QED
    BY <1>1, <1>4, <2>1, StepByStep
<1>7. \A i \in 1 .. W : i - 1 \in 0 .. W /\ i \in 0 .. W
  BY <1>1
<1>8. \A i \in 1 .. W : w[i] = digit(i) + Base * w[i - 1]
  BY <1>5, <1>6, <1>7 DEF Steps
<1>9. Equation(w)
  <2>1. \A i \in 0 .. W : w[i] = IF i = 0 THEN 0 ELSE digit(i) + Base * w[i - 1]
    BY <1>1, <1>6, <1>8 DEF Steps
  <2> QED
    BY <1>6, <2>1 DEF Steps
<1>10. NumberAt(bytes, place) = (CHOOSE f : Equation(f))[W]
  BY DEF NumberAt, W, digit
<1>11. PICK s : s = CHOOSE f : Equation(f)
  OBVIOUS
<1>12. Equation(s)
  <2> HIDE DEF Equation
  <2> QED
    BY <1>9, <1>11
<1>13. /\ DOMAIN s = 0 .. W /\ s = [i \in DOMAIN s |-> s[i]] /\ s[0] = 0
       /\ \A i \in 1 .. W : s[i] = digit(i) + Base * s[i - 1]
  <2>1. DOMAIN s = 0 .. W /\ s = [i \in DOMAIN s |-> s[i]]
    BY <1>12
  <2>2. \A i \in 0 .. W : s[i] = IF i = 0 THEN 0 ELSE digit(i) + Base * s[i - 1]
    BY <1>12
  <2> HIDE DEF Equation
  <2>3. 0 \in 0 .. W /\ \A i \in 1 .. W : i \in 0 .. W /\ i # 0
    BY <1>1
  <2> QED
    BY <2>1, <2>2, <2>3
<1> HIDE DEF Equation
<1>14. \A i \in 0 .. W : s[i] \in Nat
  <2> DEFINE T == {i \in 0 .. W : s[i] \in Nat}
  <2>1. 0 \in T
    BY <1>1, <1>13
  <2>2. ASSUME NEW i \in 1 .. W, i - 1 \in T PROVE i \in T
    <3>1. s[i - 1] \in Nat /\ s[i] = digit(i) + Base * s[i - 1] /\ i \in 0 .. W
      BY <1>7, <1>13, <2>2
    <3> QED
      BY <1>3, <3>1
  <2> HIDE DEF T
  <2>3. 0 .. W \subseteq T
    BY <1>1, <2>1, <2>2, CountUp
  <2> QED
    BY <2>3 DEF T
<1>15. IsUpper(s, bytes, place)
  BY <1>13, <1>14 DEF IsUpper, W, digit
<1> QED
  BY <1>10, <1>11, <1>15 DEF W

(* A number that fits is read back from the bytes it was saved in. *)
LEMMA NumberBack ==
  ASSUME WordsAre, NEW n \in Nat, Fits(n), NEW bytes, NEW place \in Nat,
         \A b \in 1 .. WordSize : bytes[place + b] = Word(n)[b]
  PROVE  NumberAt(bytes, place) = n
<1>1. WordSize \in Nat \ {0} /\ Base \in Nat
  BY DEF WordsAre
<1>2. PICK rest \in [0 .. WordSize -> Nat] :
        /\ rest = Rest(n)
        /\ rest[0] = n
        /\ \A b \in 1 .. WordSize : rest[b] = rest[b - 1] \div Base
  BY RestIs
<1>3. rest[WordSize] = 0
  BY <1>2 DEF Fits
<1>4. \A b \in 1 .. WordSize : bytes[place + b] = rest[b - 1] % Base
  BY <1>2, WordIs
<1>5. \A b \in 1 .. WordSize : bytes[place + b] \in Byte
  <2> SUFFICES ASSUME NEW b \in 1 .. WordSize PROVE bytes[place + b] \in Byte
    OBVIOUS
  <2>1. b - 1 \in 0 .. WordSize
    BY <1>1
  <2> QED
    BY <1>2, <1>4, <2>1, Digits
<1>6. PICK upper : IsUpper(upper, bytes, place) /\ NumberAt(bytes, place) = upper[WordSize]
  BY <1>5, NumberAtIs
<1> DEFINE T == {i \in 0 .. WordSize : upper[i] = rest[WordSize - i]}
<1>7. 0 \in T
  BY <1>1, <1>3, <1>6 DEF IsUpper
<1>8. ASSUME NEW i \in 1 .. WordSize, i - 1 \in T PROVE i \in T
  <2>1. PICK j \in 1 .. WordSize : j = (WordSize + 1) - i
    BY <1>1
  <2>2. /\ i \in 0 .. WordSize /\ WordSize - (i - 1) = j /\ WordSize - i = j - 1
        /\ place + WordSize + 1 - i = place + j /\ j - 1 \in 0 .. WordSize
    BY <1>1, <2>1
  <2>3. upper[i - 1] = rest[j]
    BY <1>8, <2>2
  <2>4. upper[i] = (rest[j - 1] % Base) + Base * rest[j]
    BY <1>4, <1>6, <2>2, <2>3 DEF IsUpper
  <2>5. rest[j - 1] = (rest[j - 1] % Base) + Base * rest[j]
    <3>1. rest[j] = rest[j - 1] \div Base /\ rest[j - 1] \in Nat
      BY <1>2, <2>2
    <3> QED
      BY <3>1, Digits
  <2>6. upper[i] = rest[WordSize - i]
    BY <2>2, <2>4, <2>5
  <2> QED
    BY <2>2, <2>6
<1> HIDE DEF T
<1>9. 0 .. WordSize \subseteq T
  BY <1>1, <1>7, <1>8, CountUp
<1>10. WordSize \in T /\ WordSize - WordSize = 0
  BY <1>1, <1>9
<1> QED
  BY <1>2, <1>6, <1>10 DEF T

LEMMA NumberIsNat ==
  ASSUME WordsAre, NEW bytes, NEW place \in Nat,
         \A b \in 1 .. WordSize : bytes[place + b] \in Byte
  PROVE  NumberAt(bytes, place) \in Nat
<1>1. PICK upper : IsUpper(upper, bytes, place) /\ NumberAt(bytes, place) = upper[WordSize]
  BY NumberAtIs
<1>2. WordSize \in 0 .. WordSize
  BY DEF WordsAre
<1> QED
  BY <1>1, <1>2 DEF IsUpper

(* Bytes that are smaller each make a number that is no greater. *)
LEMMA NumberGrows ==
  ASSUME WordsAre, NEW low, NEW high, NEW lowPlace \in Nat, NEW highPlace \in Nat,
         \A b \in 1 .. WordSize : /\ low[lowPlace + b] \in Byte
                                  /\ high[highPlace + b] \in Byte
                                  /\ low[lowPlace + b] <= high[highPlace + b]
  PROVE  /\ NumberAt(low, lowPlace) \in Nat
         /\ NumberAt(high, highPlace) \in Nat
         /\ NumberAt(low, lowPlace) <= NumberAt(high, highPlace)
<1>1. WordSize \in Nat \ {0} /\ Base \in Nat
  BY DEF WordsAre
<1>2. PICK u : IsUpper(u, low, lowPlace) /\ NumberAt(low, lowPlace) = u[WordSize]
  BY NumberAtIs
<1>3. PICK v : IsUpper(v, high, highPlace) /\ NumberAt(high, highPlace) = v[WordSize]
  BY NumberAtIs
<1> DEFINE T == {i \in 0 .. WordSize : u[i] <= v[i]}
<1>4. 0 \in T
  BY <1>1, <1>2, <1>3 DEF IsUpper
<1>5. ASSUME NEW i \in 1 .. WordSize, i - 1 \in T PROVE i \in T
  <2>1. PICK j \in 1 .. WordSize : j = (WordSize + 1) - i
    BY <1>1
  <2>2. /\ lowPlace + WordSize + 1 - i = lowPlace + j
        /\ highPlace + WordSize + 1 - i = highPlace + j
        /\ i \in 0 .. WordSize /\ i - 1 \in 0 .. WordSize
    BY <1>1, <2>1
  <2>3. PICK a, c \in Nat : a = u[i - 1] /\ c = v[i - 1] /\ a <= c
    BY <1>2, <1>3, <1>5, <2>2 DEF IsUpper
  <2>4. u[i] = low[lowPlace + j] + Base * a /\ v[i] = high[highPlace + j] + Base * c
    BY <1>2, <1>3, <2>2, <2>3 DEF IsUpper
  <2>5. PICK x, y \in Nat : x = low[lowPlace + j] /\ y = high[highPlace + j] /\ x <= y
    BY <1>1, <2>1 DEF Byte
  <2>6. Base * a <= Base * c /\ Base * a \in Nat /\ Base * c \in Nat
    BY <1>1, <2>3
  <2>7. PICK p, q \in Nat : p = Base * a /\ q = Base * c /\ p <= q
    BY <2>6
  <2>8. u[i] = x + p /\ v[i] = y + q
    BY <2>4, <2>5, <2>7
  <2>9. u[i] <= v[i]
    BY <2>5, <2>7, <2>8
  <2> QED
    BY <2>2, <2>9
<1> HIDE DEF T
<1>6. 0 .. WordSize \subseteq T
  BY <1>1, <1>4, <1>5, CountUp
<1>7. WordSize \in T /\ WordSize \in 0 .. WordSize
  BY <1>1, <1>6
<1> QED
  BY <1>2, <1>3, <1>7 DEF T, IsUpper

----------------------------------------------------------------------------
(* What is written. *)

LEMMA TwoParts ==
  ASSUME NEW S, NEW s \in Seq(S), NEW t \in Seq(S)
  PROVE  /\ s \o t \in Seq(S) /\ Len(s \o t) = Len(s) + Len(t)
         /\ \A b \in 1 .. Len(s) : (s \o t)[b] = s[b]
         /\ \A b \in 1 .. Len(t) : (s \o t)[Len(s) + b] = t[b]
OBVIOUS

LEMMA EntryBytesAre ==
  ASSUME WordsAre, NEW k \in Seq(Byte), NEW v \in Seq(Byte)
  PROVE  LET bytes == EntryBytes(<<k, v>>)
         IN  /\ bytes \in Seq(Byte)
             /\ Len(bytes) = WordSize + WordSize + Len(k) + Len(v)
             /\ \A b \in 1 .. WordSize : /\ bytes[b] = Word(Len(k))[b]
                                         /\ bytes[WordSize + b] = Word(Len(v))[b]
             /\ \A b \in 1 .. Len(k) : bytes[(WordSize + WordSize) + b] = k[b]
             /\ \A b \in 1 .. Len(v) : bytes[(WordSize + WordSize + Len(k)) + b] = v[b]
<1>1. WordSize \in Nat /\ Len(k) \in Nat /\ Len(v) \in Nat
  BY DEF WordsAre
<1>2. PICK s, t \in Seq(Byte) :
        s = Word(Len(k)) /\ t = Word(Len(v)) /\ Len(s) = WordSize /\ Len(t) = WordSize
  BY <1>1, WordIs
<1> DEFINE st == s \o t
           stk == st \o k
           bytes == stk \o v
<1>3. st \in Seq(Byte) /\ Len(st) = WordSize + WordSize
  <2>1. Len(s) = WordSize /\ Len(t) = WordSize
    BY <1>2
  <2>2. s \o t \in Seq(Byte) /\ Len(s \o t) = Len(s) + Len(t)
    BY TwoParts
  <2> QED
    BY <2>1, <2>2
<1> HIDE DEF st
<1>4. stk \in Seq(Byte) /\ Len(stk) = WordSize + WordSize + Len(k)
  BY <1>3, TwoParts
<1> HIDE DEF stk
<1>5. bytes \in Seq(Byte) /\ Len(bytes) = WordSize + WordSize + Len(k) + Len(v)
  BY <1>4, TwoParts
<1> HIDE DEF bytes
<1>6. bytes = EntryBytes(<<k, v>>)
  BY <1>2 DEF EntryBytes, st, stk, bytes
<1>7. ASSUME NEW b \in 1 .. WordSize
      PROVE  /\ bytes[b] = Word(Len(k))[b]
             /\ bytes[WordSize + b] = Word(Len(v))[b]
  <2>1. b \in 1 .. Len(s) /\ b \in 1 .. Len(t) /\ b \in 1 .. Len(st) /\ b \in 1 .. Len(stk)
        /\ WordSize + b \in 1 .. Len(st) /\ WordSize + b \in 1 .. Len(stk)
    BY <1>1, <1>2, <1>3, <1>4
  <2>2. st[b] = s[b] /\ st[WordSize + b] = t[b]
    BY <1>2, <2>1, TwoParts DEF st
  <2>3. stk[b] = st[b] /\ stk[WordSize + b] = st[WordSize + b]
    BY <1>3, <2>1, TwoParts DEF stk
  <2>4. bytes[b] = stk[b] /\ bytes[WordSize + b] = stk[WordSize + b]
    BY <1>4, <2>1, TwoParts DEF bytes
  <2> QED
    BY <1>2, <2>2, <2>3, <2>4
<1>8. ASSUME NEW b \in 1 .. Len(k)
      PROVE  bytes[(WordSize + WordSize) + b] = k[b]
  <2>1. (WordSize + WordSize) + b \in 1 .. Len(stk)
    BY <1>1, <1>4
  <2>2. stk[(WordSize + WordSize) + b] = k[b]
    BY <1>3, TwoParts DEF stk
  <2>3. bytes[(WordSize + WordSize) + b] = stk[(WordSize + WordSize) + b]
    BY <1>4, <2>1, TwoParts DEF bytes
  <2> QED
    BY <2>2, <2>3
<1>9. ASSUME NEW b \in 1 .. Len(v)
      PROVE  bytes[(WordSize + WordSize + Len(k)) + b] = v[b]
  BY <1>4, TwoParts DEF bytes
<1> QED
  BY <1>5, <1>6, <1>7, <1>8, <1>9

(* The tree that is closed, and its sizes. *)
TreeSaved == levels \in Levels /\ entries \in Memtables

LEMMA TreeIs ==
  ASSUME TreeSaved
  PROVE  /\ WordsAre /\ Fixed \in Seq(Byte)
         /\ Len(levels) \in Nat /\ Len(entries) \in Nat
         /\ levels \in Seq(Nat) /\ entries \in Seq(Seq(Byte) \X Seq(Byte))
         /\ Fits(Len(levels)) /\ Fits(Len(entries))
         /\ \A n \in 1 .. Len(levels) : levels[n] \in Nat /\ Fits(levels[n])
         /\ \A n \in 1 .. Len(entries) :
              /\ entries[n][1] \in Seq(Byte) /\ entries[n][2] \in Seq(Byte)
              /\ entries[n] = <<entries[n][1], entries[n][2]>>
              /\ Fits(Len(entries[n][1])) /\ Fits(Len(entries[n][2]))
<1>1. WordsAre /\ Fixed \in Seq(Byte) /\ junk \subseteq Byte
  BY SaveAssumption DEF TreeSaved, WordsAre
<1>2. levels \in Seq(Nat) /\ entries \in Seq(Seq(Byte) \X Seq(Byte))
  BY SaveAssumption DEF TreeSaved
<1>3. Fits(Len(levels)) /\ \A n \in DOMAIN levels : Fits(levels[n])
  BY SaveAssumption DEF TreeSaved
<1>4. /\ Fits(Len(entries))
      /\ \A n \in DOMAIN entries :
           Fits(Len(entries[n][1])) /\ Fits(Len(entries[n][2]))
  BY SaveAssumption DEF TreeSaved
<1>5. DOMAIN levels = 1 .. Len(levels) /\ DOMAIN entries = 1 .. Len(entries)
  BY <1>2
<1>6. \A n \in 1 .. Len(entries) : entries[n] \in Seq(Byte) \X Seq(Byte)
  BY <1>2
<1>7. \A n \in 1 .. Len(entries) :
        /\ entries[n][1] \in Seq(Byte) /\ entries[n][2] \in Seq(Byte)
        /\ entries[n] = <<entries[n][1], entries[n][2]>>
  BY <1>6
<1>8. \A n \in 1 .. Len(levels) : levels[n] \in Nat
  BY <1>2
<1>9. /\ Len(levels) \in Nat /\ Len(entries) \in Nat
      /\ \A n \in 1 .. Len(levels) : Fits(levels[n])
      /\ \A n \in 1 .. Len(entries) :
           Fits(Len(entries[n][1])) /\ Fits(Len(entries[n][2]))
  <2>1. Len(levels) \in Nat /\ Len(entries) \in Nat
    BY <1>2
  <2> QED
    BY <1>3, <1>4, <1>5, <2>1
<1>10. \A n \in 1 .. Len(entries) :
         /\ entries[n][1] \in Seq(Byte) /\ entries[n][2] \in Seq(Byte)
         /\ entries[n] = <<entries[n][1], entries[n][2]>>
         /\ Fits(Len(entries[n][1])) /\ Fits(Len(entries[n][2]))
  BY <1>7, <1>9
<1>11. \A n \in 1 .. Len(levels) : levels[n] \in Nat /\ Fits(levels[n])
  BY <1>8, <1>9
<1> QED
  BY <1>1, <1>2, <1>3, <1>4, <1>9, <1>10, <1>11

LEMMA ParamsAre ==
  ASSUME TreeSaved
  PROVE  /\ Params \in Seq(Byte)
         /\ Len(Params) = Len(Fixed) + WordSize + WordSize
         /\ \A b \in 1 .. WordSize :
              /\ Params[Len(Fixed) + b] = Word(Len(entries))[b]
              /\ Params[(Len(Fixed) + WordSize) + b] = Word(Len(levels))[b]
<1>1. WordSize \in Nat /\ WordsAre /\ Fixed \in Seq(Byte) /\ Len(Fixed) \in Nat
      /\ Len(levels) \in Nat /\ Len(entries) \in Nat
  BY TreeIs DEF WordsAre
<1>2. PICK s, t \in Seq(Byte) : /\ s = Word(Len(entries)) /\ t = Word(Len(levels))
                                     /\ Len(s) = WordSize /\ Len(t) = WordSize
  BY <1>1, WordIs
<1> DEFINE fs == Fixed \o s
           p == fs \o t
<1>3. fs \in Seq(Byte) /\ Len(fs) = Len(Fixed) + WordSize
  <2>1. Fixed \in Seq(Byte) /\ s \in Seq(Byte)
    BY <1>1, <1>2
  <2>2. Fixed \o s \in Seq(Byte) /\ Len(Fixed \o s) = Len(Fixed) + Len(s)
    BY <2>1, TwoParts, Zenon
  <2> QED
    BY <1>2, <2>2
<1> HIDE DEF fs
<1>4. p \in Seq(Byte) /\ Len(p) = Len(Fixed) + WordSize + WordSize
  <2>1. Len(t) = WordSize
    BY <1>2
  <2>2. fs \o t \in Seq(Byte) /\ Len(fs \o t) = Len(fs) + Len(t)
    BY <1>3, TwoParts
  <2> QED
    BY <1>1, <1>3, <2>1, <2>2
<1> HIDE DEF p
<1>5. p = Params
  BY <1>2 DEF Params, fs, p
<1>6. ASSUME NEW b \in 1 .. WordSize
      PROVE  p[Len(Fixed) + b] = s[b] /\ p[(Len(Fixed) + WordSize) + b] = t[b]
  <2>1. b \in 1 .. Len(s) /\ b \in 1 .. Len(t) /\ Len(Fixed) + b \in 1 .. Len(fs)
    BY <1>1, <1>2, <1>3
  <2>2. fs[Len(Fixed) + b] = s[b]
    BY <1>1, <2>1, TwoParts DEF fs
  <2>3. p[Len(Fixed) + b] = fs[Len(Fixed) + b]
    BY <1>3, <2>1, TwoParts DEF p
  <2>4. p[(Len(Fixed) + WordSize) + b] = t[b]
    BY <1>3, <2>1, TwoParts DEF p
  <2> QED
    BY <2>2, <2>3, <2>4
<1> QED
  BY <1>2, <1>4, <1>5, <1>6

LEMMA SavedLevelsAre ==
  ASSUME TreeSaved
  PROVE  /\ SavedLevels \in Seq(Byte)
         /\ Len(SavedLevels) = Len(levels) * WordSize /\ Len(levels) * WordSize \in Nat
         /\ \A n \in 1 .. Len(levels), b \in 1 .. WordSize :
              /\ (n - 1) * WordSize \in Nat
              /\ (n - 1) * WordSize + b \in 1 .. Len(levels) * WordSize
              /\ SavedLevels[(n - 1) * WordSize + b] = Word(levels[n])[b]
<1> DEFINE W == WordSize
           N == Len(levels)
           M == N * W
           level(b) == Word(levels[((b - 1) \div W) + 1])[((b - 1) % W) + 1]
<1>1. W \in Nat \ {0} /\ WordsAre /\ N \in Nat /\ M \in Nat
      /\ \A n \in 1 .. N : levels[n] \in Nat
  <2>1. W \in Nat \ {0} /\ WordsAre /\ N \in Nat /\ \A n \in 1 .. N : levels[n] \in Nat
    BY TreeIs DEF WordsAre
  <2> QED
    BY <2>1, WordProduct
<1>2. SavedLevels = [b \in 1 .. M |-> level(b)]
  BY DEF SavedLevels
<1> HIDE DEF M, N
<1>3. ASSUME NEW n \in 1 .. N, NEW b \in 1 .. W
      PROVE  /\ (n - 1) * W \in Nat /\ (n - 1) * W + b \in 1 .. M
             /\ level((n - 1) * W + b) = Word(levels[n])[b]
  <2>1. PICK q \in Nat : q = n - 1
    BY <1>1
  <2>2. PICK r \in 0 .. W - 1 : r = b - 1
    BY <1>1
  <2>3. PICK u \in Nat : u = q * W /\ (q + 1) * W = u + W
    BY <1>1, <2>1, WordProduct
  <2>4. (q + 1) * W <= M
    <3>1. q + 1 <= N /\ q + 1 \in Nat
      BY <1>1, <2>1
    <3> QED
      BY <1>1, <3>1, WordProductGrows DEF M
  <2>5. u + b \in 1 .. M
    BY <1>1, <2>3, <2>4
  <2>6. (u + b) - 1 = q * W + r
    BY <1>1, <2>2, <2>3
  <2>7. ((u + b) - 1) \div W = q /\ ((u + b) - 1) % W = r
    BY <1>1, <2>6, ByteOfWord
  <2>8. level(u + b) = Word(levels[q + 1])[r + 1]
    BY <2>7
  <2>9. q + 1 = n /\ r + 1 = b
    BY <1>1, <2>1, <2>2
  <2> HIDE DEF level
  <2> QED
    BY <2>1, <2>3, <2>5, <2>8, <2>9
<1>4. ASSUME NEW b \in 1 .. M PROVE level(b) \in Byte
  <2>1. b - 1 \in Nat
    BY <1>1
  <2>2. PICK q, r \in Int : q = (b - 1) \div W /\ r = (b - 1) % W
    BY <1>1, <2>1
  <2>3. r \in 0 .. W - 1 /\ q \in Nat /\ b - 1 = q * W + r
    <3>1. r \in 0 .. W - 1
      BY <1>1, <2>1, <2>2
    <3>2. b - 1 = q * W + r
      BY <1>1, <2>1, <2>2
    <3>3. q >= 0
      BY <1>1, <2>1, <2>2
    <3> QED
      BY <3>1, <3>2, <3>3
  <2>4. q < N
    <3> SUFFICES ASSUME N <= q PROVE FALSE
      BY <1>1, <2>3
    <3>1. M <= q * W /\ q * W \in Nat
      BY <1>1, <2>3, WordProduct, WordProductGrows DEF M
    <3>2. PICK u \in Nat : u = q * W
      BY <3>1
    <3> QED
      BY <1>1, <2>1, <2>3, <3>1, <3>2
  <2>5. q + 1 \in 1 .. N /\ r + 1 \in 1 .. W
    BY <1>1, <2>3, <2>4
  <2>6. Word(levels[q + 1]) \in Seq(Byte) /\ Len(Word(levels[q + 1])) = W
    BY <1>1, <2>5, WordIs
  <2>7. Word(levels[q + 1])[r + 1] \in Byte
    BY <2>5, <2>6
  <2> QED
    BY <2>2, <2>7
<1> HIDE DEF level
<1>5. SavedLevels \in Seq(Byte) /\ Len(SavedLevels) = M
      /\ \A b \in 1 .. M : SavedLevels[b] = level(b)
  BY <1>1, <1>2, <1>4
<1> QED
  BY <1>1, <1>3, <1>5 DEF M, N

LEMMA WritesAre ==
  ASSUME TreeSaved
  PROVE  /\ Writes \in Seq(Seq(Byte)) /\ Len(Writes) = 2 + Len(entries)
         /\ Writes[1] = Params /\ Writes[2] = SavedLevels
         /\ \A n \in 1 .. Len(entries) : Writes[2 + n] = EntryBytes(entries[n])
<1> DEFINE dump == DumpKVInFd
           N == Len(entries)
<1>1. N \in Nat /\ WordsAre
      /\ \A n \in 1 .. N : /\ entries[n][1] \in Seq(Byte) /\ entries[n][2] \in Seq(Byte)
                           /\ entries[n] = <<entries[n][1], entries[n][2]>>
  BY TreeIs
<1>2. \A n \in 1 .. N : EntryBytes(entries[n]) \in Seq(Byte)
  <2> SUFFICES ASSUME NEW n \in 1 .. N PROVE EntryBytes(entries[n]) \in Seq(Byte)
    OBVIOUS
  <2>1. PICK k, v \in Seq(Byte) : entries[n] = <<k, v>>
    BY <1>1
  <2>2. EntryBytes(<<k, v>>) \in Seq(Byte)
    BY <1>1, EntryBytesAre
  <2> QED
    BY <2>1, <2>2
<1>3. dump = [n \in 1 .. N |-> EntryBytes(entries[n])]
  BY DEF DumpKVInFd
<1>4. dump \in Seq(Seq(Byte)) /\ Len(dump) = N
      /\ \A n \in 1 .. N : dump[n] = EntryBytes(entries[n])
  BY <1>1, <1>2, <1>3
<1> DEFINE first == <<Params, SavedLevels>>
<1>5. first \in Seq(Seq(Byte)) /\ Len(first) = 2 /\ first[1] = Params
      /\ first[2] = SavedLevels
  <2>1. Params \in Seq(Byte) /\ SavedLevels \in Seq(Byte)
    BY ParamsAre, SavedLevelsAre
  <2> QED
    BY <2>1
<1>6. Writes = first \o dump
  BY DEF Writes
<1> DEFINE SB == Seq(Byte)
<1>12. first \in Seq(SB) /\ dump \in Seq(SB)
  BY <1>4, <1>5
<1> HIDE DEF dump, first, N, SB
<1>7. /\ first \o dump \in Seq(SB) /\ Len(first \o dump) = Len(first) + Len(dump)
      /\ \A b \in 1 .. Len(first) : (first \o dump)[b] = first[b]
      /\ \A b \in 1 .. Len(dump) : (first \o dump)[Len(first) + b] = dump[b]
  BY <1>12, TwoParts
<1>8. 1 \in 1 .. Len(first) /\ 2 \in 1 .. Len(first)
  BY <1>5
<1>9. Writes[1] = Params /\ Writes[2] = SavedLevels
  BY <1>5, <1>6, <1>7, <1>8
<1>10. \A n \in 1 .. N : Writes[2 + n] = EntryBytes(entries[n])
  BY <1>4, <1>5, <1>6, <1>7
<1>11. Writes \in Seq(Seq(Byte)) /\ Len(Writes) = 2 + N
  BY <1>4, <1>5, <1>6, <1>7 DEF SB
<1> QED
  BY <1>9, <1>10, <1>11 DEF N

(* The file after each write. *)
IsJoined(joined, writes) ==
  /\ joined \in [0 .. Len(writes) -> Seq(Byte)]
  /\ joined[0] = <<>>
  /\ \A n \in 1 .. Len(writes) : joined[n] = joined[n - 1] \o writes[n]

LEMMA JoinedIs == ASSUME TreeSaved PROVE IsJoined(Joined, Writes)
<1> DEFINE writes == Writes
           N == Len(writes)
           S == Seq(Byte)
           Equation(f) == f = [n \in 0 .. N |-> IF n = 0 THEN <<>> ELSE f[n - 1] \o writes[n]]
           step == [x \in (1 .. N) \X S |-> x[2] \o writes[x[1]]]
<1>1. Joined = CHOOSE f : Equation(f)
  BY DEF Joined
<1>2. N \in Nat /\ \A n \in 1 .. N : writes[n] \in S
  <2>1. writes \in Seq(Seq(Byte))
    BY WritesAre
  <2> HIDE DEF writes
  <2> QED
    BY <2>1
<1> HIDE DEF writes
<1>3. \A s, t \in S : s \o t \in S
  OBVIOUS
<1> HIDE DEF S
<1>4. step \in [(1 .. N) \X S -> S]
  <2>1. ASSUME NEW x \in (1 .. N) \X S PROVE x[2] \o writes[x[1]] \in S
    <3>1. x[1] \in 1 .. N /\ x[2] \in S
      OBVIOUS
    <3> QED
      BY <1>2, <1>3, <3>1
  <2> QED
    BY <2>1
<1>5. \A n \in 1 .. N, s \in S : step[<<n, s>>] = s \o writes[n]
  OBVIOUS
<1> HIDE DEF N, step
<1>6. PICK w : Steps(N, S, <<>>, step, w)
  <2>1. <<>> \in S
    BY DEF S
  <2> QED
    BY <1>2, <1>4, <2>1, StepByStep
<1>7. \A i \in 1 .. N : i - 1 \in 0 .. N /\ i \in 0 .. N
  BY <1>2
<1>8. \A i \in 1 .. N : w[i] = w[i - 1] \o writes[i]
  BY <1>5, <1>6, <1>7 DEF Steps
<1>9. Equation(w)
  <2>1. ASSUME NEW i \in 0 .. N
        PROVE  w[i] = IF i = 0 THEN <<>> ELSE w[i - 1] \o writes[i]
    <3>1. i # 0 => i \in 1 .. N
      BY <1>2
    <3>2. w[0] = <<>>
      BY <1>6 DEF Steps
    <3> QED
      BY <1>8, <3>1, <3>2
  <2> QED
    BY <1>6, <2>1 DEF Steps
<1>10. PICK s : s = CHOOSE f : Equation(f)
  OBVIOUS
<1>11. Equation(s)
  <2> HIDE DEF Equation
  <2> QED
    BY <1>9, <1>10
<1>12. /\ DOMAIN s = 0 .. N /\ s = [i \in DOMAIN s |-> s[i]] /\ s[0] = <<>>
       /\ \A i \in 1 .. N : s[i] = s[i - 1] \o writes[i]
  <2>1. DOMAIN s = 0 .. N /\ s = [i \in DOMAIN s |-> s[i]]
    BY <1>11
  <2>2. \A i \in 0 .. N : s[i] = IF i = 0 THEN <<>> ELSE s[i - 1] \o writes[i]
    BY <1>11
  <2> HIDE DEF Equation
  <2>3. 0 \in 0 .. N /\ \A i \in 1 .. N : i \in 0 .. N /\ i # 0
    BY <1>2
  <2> QED
    BY <2>1, <2>2, <2>3
<1> HIDE DEF Equation
<1>13. \A i \in 0 .. N : s[i] \in S
  <2> DEFINE T == {i \in 0 .. N : s[i] \in S}
  <2>1. 0 \in T
    BY <1>2, <1>12 DEF S
  <2>2. ASSUME NEW i \in 1 .. N, i - 1 \in T PROVE i \in T
    <3>1. s[i - 1] \in S /\ s[i] = s[i - 1] \o writes[i] /\ i \in 0 .. N /\ writes[i] \in S
      BY <1>2, <1>7, <1>12, <2>2
    <3> QED
      BY <1>3, <3>1
  <2> HIDE DEF T
  <2>3. 0 .. N \subseteq T
    BY <1>2, <2>1, <2>2, CountUp
  <2> QED
    BY <2>3 DEF T
<1>14. s \in [0 .. N -> S]
  BY <1>12, <1>13
<1>15. Joined = s
  BY <1>1, <1>10
<1> QED
  BY <1>12, <1>14, <1>15 DEF IsJoined, N, S, writes

(* t begins with s. *)
Begins(s, t) == Len(s) <= Len(t) /\ \A b \in 1 .. Len(s) : t[b] = s[b]

LEMMA JoinedGrows ==
  ASSUME NEW writes \in Seq(Seq(Byte)), NEW joined, IsJoined(joined, writes),
         NEW m \in 0 .. Len(writes), NEW n \in 0 .. Len(writes), m <= n
  PROVE  Begins(joined[m], joined[n])
<1> DEFINE N == Len(writes)
           T == {i \in 0 .. N : m <= i => Begins(joined[m], joined[i])}
<1>1. N \in Nat /\ \A i \in 1 .. N : writes[i] \in Seq(Byte)
  OBVIOUS
<1>2. \A i \in 0 .. N : joined[i] \in Seq(Byte)
  BY DEF IsJoined
<1>3. Begins(joined[m], joined[m])
  <2>1. Len(joined[m]) \in Nat
    BY <1>2
  <2> QED
    BY <2>1 DEF Begins
<1>4. 0 \in T
  <2>1. m <= 0 => m = 0
    BY <1>1
  <2> QED
    BY <1>1, <1>3, <2>1
<1>5. ASSUME NEW i \in 1 .. N, i - 1 \in T PROVE i \in T
  <2> SUFFICES ASSUME m <= i, m # i PROVE Begins(joined[m], joined[i])
    BY <1>1, <1>3
  <2>1. m <= i - 1 /\ i - 1 \in 0 .. N
    BY <1>1
  <2>2. Begins(joined[m], joined[i - 1])
    BY <1>5, <2>1
  <2>3. joined[i] = joined[i - 1] \o writes[i]
    BY DEF IsJoined
  <2>4. PICK s, t, u \in Seq(Byte) : s = joined[m] /\ t = joined[i - 1] /\ u = writes[i]
    BY <1>1, <1>2, <2>1
  <2>5. Begins(s, t)
    BY <2>2, <2>4
  <2>6. Begins(s, t \o u)
    <3>1. /\ Len(s) \in Nat /\ Len(t) \in Nat /\ Len(u) \in Nat
          /\ Len(t \o u) = Len(t) + Len(u)
          /\ \A b \in 1 .. Len(t) : (t \o u)[b] = t[b]
      BY TwoParts
    <3> QED
      BY <2>5, <3>1 DEF Begins
  <2> QED
    BY <2>3, <2>4, <2>6
<1> HIDE DEF T, N
<1>6. 0 .. N \subseteq T
  BY <1>1, <1>4, <1>5, CountUp
<1> QED
  BY <1>6 DEF T, N

LEMMA ImageBegins ==
  ASSUME TreeSaved, NEW n \in 0 .. Len(Writes)
  PROVE  /\ Joined[n] \in Seq(Byte) /\ Image \in Seq(Byte)
         /\ Begins(Joined[n], Image)
<1>1. PICK writes \in Seq(Seq(Byte)) : writes = Writes
  BY WritesAre
<1>2. PICK joined : joined = Joined /\ IsJoined(joined, writes)
  BY <1>1, JoinedIs
<1>3. /\ Len(writes) \in Nat /\ n \in 0 .. Len(writes) /\ n <= Len(writes)
      /\ Len(writes) \in 0 .. Len(writes)
  BY <1>1
<1>4. Begins(joined[n], joined[Len(writes)])
  BY <1>2, <1>3, JoinedGrows
<1>5. joined[n] \in Seq(Byte) /\ joined[Len(writes)] \in Seq(Byte)
  BY <1>2, <1>3 DEF IsJoined
<1>6. Image = joined[Len(writes)]
  BY <1>1, <1>2 DEF Image
<1> QED
  BY <1>2, <1>4, <1>5, <1>6

(* Where the n-th write lies in the whole file. *)
LEMMA WriteInImage ==
  ASSUME TreeSaved, NEW n \in 1 .. Len(Writes)
  PROVE  /\ Writes[n] \in Seq(Byte) /\ Len(Joined[n - 1]) \in Nat
         /\ Joined[n] = Joined[n - 1] \o Writes[n]
         /\ Len(Joined[n]) = Len(Joined[n - 1]) + Len(Writes[n])
         /\ Len(Joined[n]) <= Len(Image)
         /\ \A b \in 1 .. Len(Writes[n]) :
              Image[Len(Joined[n - 1]) + b] = Writes[n][b]
<1>1. Writes \in Seq(Seq(Byte))
  BY WritesAre
<1>2. n - 1 \in 0 .. Len(Writes) /\ n \in 0 .. Len(Writes)
  BY <1>1
<1>3. PICK u \in Seq(Byte) : u = Writes[n]
  BY <1>1
<1>4. PICK s \in Seq(Byte) : s = Joined[n - 1]
  BY <1>2, ImageBegins
<1>5. PICK image \in Seq(Byte) : image = Image
  BY <1>2, ImageBegins
<1>6. Joined[n] = s \o u
  BY <1>3, <1>4, JoinedIs DEF IsJoined
<1>7. Begins(s \o u, image)
  BY <1>2, <1>5, <1>6, ImageBegins
<1>8. /\ Len(s) \in Nat /\ Len(u) \in Nat /\ Len(image) \in Nat
      /\ Len(s \o u) = Len(s) + Len(u)
      /\ \A b \in 1 .. Len(u) : (s \o u)[Len(s) + b] = u[b]
  BY TwoParts
<1>9. ASSUME NEW b \in 1 .. Len(u) PROVE image[Len(s) + b] = u[b]
  <2>1. Len(s) + b \in 1 .. Len(s \o u)
    BY <1>8
  <2> QED
    BY <1>7, <1>8, <2>1 DEF Begins
<1>10. Len(s \o u) <= Len(image)
  BY <1>7 DEF Begins
<1> QED
  BY <1>3, <1>4, <1>5, <1>6, <1>8, <1>9, <1>10

(* The parts of the whole file. *)
LEMMA ImageIs ==
  ASSUME TreeSaved
  PROVE  /\ Image \in Seq(Byte)
         /\ Len(Params) \in Nat /\ Len(Params) <= Len(Image)
         /\ \A b \in 1 .. Len(Params) : Image[b] = Params[b]
         /\ EndOfEntry(0) = Len(Params) + Len(levels) * WordSize
         /\ \A b \in 1 .. Len(levels) * WordSize :
              Image[Len(Params) + b] = SavedLevels[b]
<1>1. Len(Writes) = 2 + Len(entries) /\ Len(entries) \in Nat
  BY WritesAre, TreeIs
<1>2. 0 \in 0 .. Len(Writes) /\ 1 \in 1 .. Len(Writes) /\ 2 \in 1 .. Len(Writes)
      /\ 1 - 1 = 0 /\ 2 - 1 = 1 /\ 2 + 0 = 2
  BY <1>1
<1>3. Joined[0] = <<>> /\ Len(Joined[0]) = 0
  <2>1. Joined[0] = <<>>
    BY JoinedIs DEF IsJoined
  <2> QED
    BY <2>1
<1>4. Writes[1] = Params /\ Writes[2] = SavedLevels
  BY WritesAre
<1>5. /\ Params \in Seq(Byte) /\ Len(Joined[1]) = 0 + Len(Params)
      /\ Len(Joined[1]) <= Len(Image)
      /\ \A b \in 1 .. Len(Params) : Image[0 + b] = Params[b]
  <2>1. PICK i \in 1 .. Len(Writes) : i = 1 /\ i - 1 = 0
    BY <1>2
  <2>2. PICK l \in Nat : l = Len(Joined[i - 1]) /\ l = 0
    BY <1>3, <2>1
  <2>3. /\ Writes[i] \in Seq(Byte)
        /\ Len(Joined[i]) = l + Len(Writes[i])
        /\ Len(Joined[i]) <= Len(Image)
        /\ \A b \in 1 .. Len(Writes[i]) : Image[l + b] = Writes[i][b]
    BY <2>2, WriteInImage
  <2>4. Writes[i] = Params
    BY <1>4, <2>1
  <2> QED
    BY <2>1, <2>2, <2>3, <2>4
<1>6. Len(Params) \in Nat
  BY <1>5
<1>7. \A b \in 1 .. Len(Params) : 0 + b = b
  BY <1>6
<1>8. /\ Len(Joined[2]) = Len(Joined[1]) + Len(SavedLevels)
      /\ \A b \in 1 .. Len(SavedLevels) :
           Image[Len(Joined[1]) + b] = SavedLevels[b]
  BY <1>2, <1>4, WriteInImage
<1>9. Len(SavedLevels) = Len(levels) * WordSize
  BY SavedLevelsAre
<1>10. Len(Joined[1]) = Len(Params)
  BY <1>5, <1>6
<1>11. EndOfEntry(0) = Len(Joined[2])
  BY <1>2 DEF EndOfEntry
<1>12. Image \in Seq(Byte)
  BY <1>2, ImageBegins
<1> QED
  BY <1>5, <1>6, <1>7, <1>8, <1>9, <1>10, <1>11, <1>12

LEMMA EntryInImage ==
  ASSUME TreeSaved, NEW n \in 1 .. Len(entries)
  PROVE  LET bytes == EntryBytes(entries[n])
         IN  /\ EndOfEntry(n - 1) \in Nat
             /\ EndOfEntry(n) = EndOfEntry(n - 1) + Len(bytes)
             /\ EndOfEntry(n) <= Len(Image)
             /\ \A b \in 1 .. Len(bytes) : Image[EndOfEntry(n - 1) + b] = bytes[b]
<1>1. Len(Writes) = 2 + Len(entries) /\ Len(entries) \in Nat
  BY WritesAre, TreeIs
<1>2. PICK i \in 1 .. Len(Writes) : i = 2 + n
  BY <1>1
<1>3. 2 + (n - 1) = i - 1
  BY <1>1, <1>2
<1>4. Writes[i] = EntryBytes(entries[n])
  BY <1>2, WritesAre
<1>5. EndOfEntry(n - 1) = Len(Joined[i - 1]) /\ EndOfEntry(n) = Len(Joined[i])
  BY <1>2, <1>3 DEF EndOfEntry
<1>6. /\ Len(Joined[i - 1]) \in Nat
      /\ Len(Joined[i]) = Len(Joined[i - 1]) + Len(Writes[i])
      /\ Len(Joined[i]) <= Len(Image)
      /\ \A b \in 1 .. Len(Writes[i]) :
           Image[Len(Joined[i - 1]) + b] = Writes[i][b]
  BY WriteInImage
<1> QED
  BY <1>4, <1>5, <1>6

LEMMA EndsGrow ==
  ASSUME TreeSaved, NEW m \in 0 .. Len(entries), NEW n \in 0 .. Len(entries), m <= n
  PROVE  /\ EndOfEntry(m) \in Nat /\ EndOfEntry(n) \in Nat
         /\ EndOfEntry(m) <= EndOfEntry(n) /\ EndOfEntry(n) <= Len(Image)
<1>1. Len(Writes) = 2 + Len(entries) /\ Len(entries) \in Nat
  BY WritesAre, TreeIs
<1>2. PICK i, j \in 0 .. Len(Writes) : i = 2 + m /\ j = 2 + n /\ i <= j
  BY <1>1
<1>3. PICK writes \in Seq(Seq(Byte)) : writes = Writes
  BY WritesAre
<1>4. PICK joined : joined = Joined /\ IsJoined(joined, writes)
  BY <1>3, JoinedIs
<1>5. Begins(joined[i], joined[j])
  BY <1>2, <1>3, <1>4, JoinedGrows
<1>6. /\ Joined[i] \in Seq(Byte) /\ Joined[j] \in Seq(Byte)
      /\ Begins(Joined[j], Image)
  BY <1>2, ImageBegins
<1>7. Len(Joined[i]) \in Nat /\ Len(Joined[j]) \in Nat
  BY <1>6
<1> QED
  BY <1>2, <1>4, <1>5, <1>6, <1>7 DEF Begins, EndOfEntry

----------------------------------------------------------------------------
(* The invariant. *)

LevelsRead ==
  /\ Len(levels_) = Len(levels)
  /\ \A n \in 1 .. Len(levels) : levels_[n] <= levels[n]

(* Reading goes on where the next entry begins, or has come to the end of  *)
(* the file; and the key in the buffer is the last one that was saved, or  *)
(* made from the entry that is cut.                                        *)
PlaceRight ==
  /\ EndOfEntry(rounds) <= Len(file) => pos = EndOfEntry(rounds)
  /\ Len(file) <= EndOfEntry(rounds) => pos = Len(file)
  /\ rounds = 0 \/ Whole(rounds) => keyBuffer = LastKey(rounds + 1)
  /\ \A n \in 1 .. rounds : FirstCut(n) => MadeFrom(keyBuffer, n)

(* What the memtable holds of the rounds that are done. *)
TableRight ==
  /\ \A n \in 1 .. rounds : Whole(n) => AsSaved(n) \/ MadeUp(entries[n][1])
  /\ \A key \in DOMAIN memtable_ :
       MadeUp(key) \/ \E n \in 1 .. rounds : Whole(n) /\ key = entries[n][1]

EntriesLoaded ==
  /\ rounds <= Len(entries)
  /\ PlaceRight
  /\ TableRight

LoadTyped ==
  /\ pc \in {"save", "load", "levels", "entries", "loaded", "refused"}
  /\ pos \in 0 .. Len(file)
  /\ levels_ \in Seq(Nat)
  /\ rounds \in Nat
  /\ keyBuffer \in Seq(Byte) /\ valueBuffer \in Seq(Byte)

FileBegun ==
  /\ file \in Seq(Byte) /\ Begins(file, Image)
  /\ pc = "save" => written \in 0 .. Len(Writes) /\ file = Joined[written]

SaveInv ==
  /\ TreeSaved
  /\ LoadTyped
  /\ FileBegun
  /\ pc \in {"save", "load", "levels"} =>
       rounds = 0 /\ DOMAIN memtable_ = {} /\ keyBuffer = <<>>
  /\ pc = "levels" => pos = Len(Params)
  /\ pc \in {"levels", "entries", "loaded"} => kv_count = Len(entries) /\ LevelsRead
  /\ pc \in {"entries", "loaded"} =>
       /\ EntriesLoaded
       /\ Len(file) = Len(Image) => levels_ = levels
  /\ pc = "loaded" => rounds = kv_count
  /\ pc = "refused" => Len(file) < Len(Image)

(* The whole file is a matter of the tree alone. *)
LEMMA ImageStays ==
  ASSUME UNCHANGED <<levels, entries>>
  PROVE  /\ Image' = Image /\ Joined' = Joined /\ Writes' = Writes
         /\ Params' = Params /\ (TreeSaved => TreeSaved')
         /\ \A n : EndOfEntry(n)' = EndOfEntry(n)
<1>1. Params' = Params /\ SavedLevels' = SavedLevels
      /\ DumpKVInFd' = DumpKVInFd
  BY DEF Params, SavedLevels, DumpKVInFd
<1>2. Writes' = Writes
  BY <1>1 DEF Writes
<1>3. Joined' = Joined
  BY <1>2 DEF Joined
<1>4. Image' = Image
  BY <1>2, <1>3 DEF Image
<1>5. \A n : EndOfEntry(n)' = EndOfEntry(n)
  BY <1>3 DEF EndOfEntry
<1>6. TreeSaved => TreeSaved'
  BY DEF TreeSaved
<1> QED
  BY <1>1, <1>2, <1>3, <1>4, <1>5, <1>6

LEMMA SaveInvInit == SaveInit => SaveInv
<1> SUFFICES ASSUME SaveInit PROVE SaveInv
  OBVIOUS
<1>1. TreeSaved
  BY DEF TreeSaved, SaveInit
<1>2. /\ pc = "save" /\ file = <<>> /\ written = 0 /\ pos = 0 /\ levels_ = <<>> /\ rounds = 0
      /\ DOMAIN memtable_ = {} /\ keyBuffer = <<>> /\ valueBuffer = <<>>
  BY DEF SaveInit
<1>3. Len(file) = 0 /\ file \in Seq(Byte)
  BY <1>2
<1>4. LoadTyped
  BY <1>2, <1>3 DEF LoadTyped
<1>5. Len(Writes) \in Nat
  BY <1>1, WritesAre
<1>6. Image \in Seq(Byte) /\ Len(Image) \in Nat
  <2>1. Image \in Seq(Byte)
    BY <1>1, ImageIs
  <2> QED
    BY <2>1
<1>7. Joined[0] = <<>>
  BY <1>1, JoinedIs DEF IsJoined
<1>8. FileBegun
  BY <1>2, <1>3, <1>5, <1>6, <1>7 DEF FileBegun, Begins
<1> QED
  BY <1>1, <1>2, <1>4, <1>8 DEF SaveInv

LEMMA WriteKeeps == ASSUME SaveInv, WritePart PROVE SaveInv'
<1>1. /\ pc = "save" /\ pc' = "save" /\ written < Len(Writes) /\ written' = written + 1
      /\ file' = file \o Writes[written + 1]
      /\ levels' = levels /\ entries' = entries /\ pos' = pos /\ levels_' = levels_
      /\ memtable_' = memtable_ /\ rounds' = rounds
      /\ keyBuffer' = keyBuffer /\ valueBuffer' = valueBuffer
  BY DEF WritePart, loading
<1>2. /\ TreeSaved /\ TreeSaved' /\ Image' = Image /\ Joined' = Joined
      /\ Writes' = Writes
  BY <1>1, ImageStays DEF SaveInv
<1>3. written \in 0 .. Len(Writes) /\ file = Joined[written] /\ file \in Seq(Byte)
  BY <1>1 DEF SaveInv, FileBegun
<1>4. Len(Writes) \in Nat
  BY <1>2, WritesAre
<1>5. PICK n \in 1 .. Len(Writes) : n = written + 1 /\ n - 1 = written
  BY <1>1, <1>3, <1>4
<1>6. /\ Writes[n] \in Seq(Byte) /\ Joined[n] = file \o Writes[n]
  BY <1>2, <1>3, <1>5, WriteInImage
<1>7. file' = Joined[n]
  BY <1>1, <1>5, <1>6
<1>8. Joined[n] \in Seq(Byte) /\ Begins(Joined[n], Image)
  <2>1. n \in 0 .. Len(Writes)
    BY <1>4
  <2> QED
    BY <1>2, <2>1, ImageBegins
<1>9. FileBegun'
  <2>1. Begins(file', Image') /\ file' \in Seq(Byte)
    BY <1>2, <1>7, <1>8
  <2>2. written' \in 0 .. Len(Writes') /\ file' = Joined'[written']
    BY <1>1, <1>2, <1>4, <1>5, <1>7
  <2> QED
    BY <2>1, <2>2 DEF FileBegun, Begins
<1>10. LoadTyped'
  <2>1. pos \in 0 .. Len(file) /\ Len(file) \in Nat /\ Len(file') = Len(file) + Len(Writes[n])
        /\ Len(Writes[n]) \in Nat
    BY <1>1, <1>3, <1>5, <1>6, TwoParts DEF SaveInv, LoadTyped
  <2>2. pos' \in 0 .. Len(file')
    BY <1>1, <2>1
  <2> QED
    BY <1>1, <2>2 DEF SaveInv, LoadTyped
<1> QED
  BY <1>1, <1>2, <1>9, <1>10 DEF SaveInv

(* A write that is cut leaves a beginning of what it would have left. *)
LEMMA WriteCutKeeps == ASSUME SaveInv, WriteCut PROVE SaveInv'
<1>1. /\ pc = "save" /\ pc' = "load" /\ written < Len(Writes)
      /\ levels' = levels /\ entries' = entries /\ pos' = pos /\ levels_' = levels_
      /\ memtable_' = memtable_ /\ rounds' = rounds
      /\ keyBuffer' = keyBuffer /\ valueBuffer' = valueBuffer
  BY DEF WriteCut, loading
<1>2. PICK k \in 0 .. Len(Writes[written + 1]) - 1 :
        file' = file \o SubSeq(Writes[written + 1], 1, k)
  BY DEF WriteCut
<1>3. /\ TreeSaved /\ TreeSaved' /\ Image' = Image
  BY <1>1, ImageStays DEF SaveInv
<1>4. written \in 0 .. Len(Writes) /\ file = Joined[written] /\ file \in Seq(Byte)
  BY <1>1 DEF SaveInv, FileBegun
<1>5. Len(Writes) \in Nat
  BY <1>3, WritesAre
<1>6. PICK n \in 1 .. Len(Writes) : n = written + 1 /\ n - 1 = written
  BY <1>1, <1>4, <1>5
<1>7. PICK u \in Seq(Byte) : u = Writes[n]
  BY <1>3, <1>6, WriteInImage
<1>8. /\ Len(file) + Len(u) <= Len(Image)
      /\ \A b \in 1 .. Len(u) : Image[Len(file) + b] = u[b]
  <2>1. /\ Len(Joined[n]) = Len(Joined[n - 1]) + Len(Writes[n])
        /\ Len(Joined[n]) <= Len(Image)
        /\ \A b \in 1 .. Len(Writes[n]) :
             Image[Len(Joined[n - 1]) + b] = Writes[n][b]
    BY <1>3, WriteInImage
  <2>2. Joined[n - 1] = file /\ Writes[n] = u
    BY <1>4, <1>6, <1>7
  <2> QED
    BY <2>1, <2>2
<1>9. Begins(file, Image)
  BY DEF SaveInv, FileBegun
<1> DEFINE part == SubSeq(u, 1, k)
<1>10. part \in Seq(Byte) /\ Len(part) = k /\ k \in Nat /\ k <= Len(u) /\ Len(u) \in Nat
       /\ \A b \in 1 .. k : part[b] = u[b]
  <2>1. k \in 0 .. Len(u) /\ Len(u) \in Nat
    BY <1>2, <1>6, <1>7
  <2> QED
    BY <2>1
<1>11. file' = file \o part
  BY <1>2, <1>6, <1>7
<1> HIDE DEF part
<1>12. /\ file \o part \in Seq(Byte) /\ Len(file \o part) = Len(file) + k
       /\ \A b \in 1 .. Len(file) : (file \o part)[b] = file[b]
       /\ \A b \in 1 .. k : (file \o part)[Len(file) + b] = part[b]
  <2>1. /\ file \o part \in Seq(Byte) /\ Len(file \o part) = Len(file) + Len(part)
        /\ \A b \in 1 .. Len(file) : (file \o part)[b] = file[b]
        /\ \A b \in 1 .. Len(part) : (file \o part)[Len(file) + b] = part[b]
    <3>1. file \in Seq(Byte) /\ part \in Seq(Byte)
      BY <1>4, <1>10
    <3> QED
      BY <3>1, TwoParts
  <2> QED
    BY <1>10, <2>1
<1>13. Begins(file \o part, Image)
  <2>0. PICK image \in Seq(Byte) : image = Image
    BY <1>3, ImageIs
  <2>1. Len(file) \in Nat /\ Len(image) \in Nat
    BY <1>4
  <2>2. Len(file \o part) <= Len(image)
    BY <1>8, <1>10, <1>12, <2>0, <2>1
  <2>3. ASSUME NEW b \in 1 .. Len(file \o part) PROVE image[b] = (file \o part)[b]
    <3>1. CASE b <= Len(file)
      BY <1>9, <1>12, <2>0, <2>1, <3>1 DEF Begins
    <3>2. CASE b > Len(file)
      <4>1. PICK c \in 1 .. k : b = Len(file) + c
        <5>1. b - Len(file) \in 1 .. k /\ b = Len(file) + (b - Len(file))
          BY <1>10, <1>12, <2>1, <3>2
        <5> QED
          BY <5>1
      <4>2. c \in 1 .. Len(u)
        BY <1>10
      <4> QED
        BY <1>8, <1>10, <1>12, <2>0, <4>1, <4>2
    <3> QED
      BY <1>12, <2>1, <1>10, <3>1, <3>2
  <2> QED
    BY <2>0, <2>2, <2>3 DEF Begins
<1>14. FileBegun'
  BY <1>1, <1>3, <1>11, <1>12, <1>13 DEF FileBegun, Begins
<1>15. LoadTyped'
  <2>1. pos' \in 0 .. Len(file')
    <3>1. pos \in 0 .. Len(file) /\ Len(file) \in Nat
      BY <1>4 DEF SaveInv, LoadTyped
    <3> QED
      BY <1>1, <1>10, <1>11, <1>12, <3>1
  <2> QED
    BY <1>1, <2>1 DEF SaveInv, LoadTyped
<1> QED
  BY <1>1, <1>3, <1>14, <1>15 DEF SaveInv

LEMMA SavedKeeps == ASSUME SaveInv, Saved PROVE SaveInv'
<1>1. /\ pc = "save" /\ pc' = "load" /\ file' = file
      /\ levels' = levels /\ entries' = entries /\ pos' = pos /\ levels_' = levels_
      /\ memtable_' = memtable_ /\ rounds' = rounds
      /\ keyBuffer' = keyBuffer /\ valueBuffer' = valueBuffer
  BY DEF Saved, saving, loading
<1>2. TreeSaved' /\ Image' = Image
  BY <1>1, ImageStays DEF SaveInv
<1>3. FileBegun' /\ LoadTyped'
  BY <1>1, <1>2 DEF SaveInv, FileBegun, Begins, LoadTyped
<1> QED
  BY <1>1, <1>2, <1>3 DEF SaveInv

----------------------------------------------------------------------------
(* Reading. *)

LEMMA ReadIs ==
  ASSUME file \in Seq(Byte), NEW from \in 0 .. Len(file), NEW buffer \in Seq(Byte)
  PROVE  /\ Read(from, buffer) \in Seq(Byte)
         /\ Len(Read(from, buffer)) = Len(buffer)
         /\ \A b \in 1 .. Len(buffer) :
              /\ from + b <= Len(file) => Read(from, buffer)[b] = file[from + b]
              /\ from + b > Len(file) => Read(from, buffer)[b] = buffer[b]
         /\ After(from, buffer) \in 0 .. Len(file)
         /\ from + Len(buffer) <= Len(file) => After(from, buffer) = from + Len(buffer)
         /\ from + Len(buffer) >= Len(file) => After(from, buffer) = Len(file)
<1>1. Len(file) \in Nat /\ Len(buffer) \in Nat /\ DOMAIN buffer = 1 .. Len(buffer)
      /\ DOMAIN file = 1 .. Len(file)
  OBVIOUS
<1>2. ASSUME NEW b \in 1 .. Len(buffer)
      PROVE  (IF from + b <= Len(file) THEN file[from + b] ELSE buffer[b]) \in Byte
  <2>1. from + b <= Len(file) => from + b \in 1 .. Len(file)
    BY <1>1
  <2>2. buffer[b] \in Byte
    OBVIOUS
  <2>3. from + b <= Len(file) => file[from + b] \in Byte
    BY <2>1
  <2> QED
    BY <2>2, <2>3
<1>3. Read(from, buffer) =
        [b \in 1 .. Len(buffer) |-> IF from + b <= Len(file) THEN file[from + b] ELSE buffer[b]]
  BY <1>1 DEF Read
<1>4. After(from, buffer) =
        IF from + Len(buffer) < Len(file) THEN from + Len(buffer) ELSE Len(file)
  BY DEF After, Least
<1>5. /\ After(from, buffer) \in 0 .. Len(file)
      /\ from + Len(buffer) <= Len(file) => After(from, buffer) = from + Len(buffer)
      /\ from + Len(buffer) >= Len(file) => After(from, buffer) = Len(file)
  <2>1. PICK to \in Nat : to = from + Len(buffer)
    BY <1>1
  <2>2. PICK m \in Nat : m = Len(file)
    BY <1>1
  <2>3. PICK a : a = After(from, buffer) /\ a = IF to < m THEN to ELSE m
    BY <1>4, <2>1, <2>2
  <2>4. a \in 0 .. m /\ (to <= m => a = to) /\ (to >= m => a = m)
    BY <2>3
  <2> QED
    BY <2>1, <2>2, <2>3, <2>4
<1>6. Read(from, buffer) \in Seq(Byte) /\ Len(Read(from, buffer)) = Len(buffer)
  BY <1>1, <1>2, <1>3
<1>7. \A b \in 1 .. Len(buffer) :
        /\ from + b <= Len(file) => Read(from, buffer)[b] = file[from + b]
        /\ from + b > Len(file) => Read(from, buffer)[b] = buffer[b]
  BY <1>1, <1>3
<1> QED
  BY <1>5, <1>6, <1>7

LEMMA ResizedIs ==
  ASSUME WordsAre, NEW buffer \in Seq(Byte), NEW n \in Nat
  PROVE  /\ Resized(buffer, n) \in Seq(Byte) /\ Len(Resized(buffer, n)) = n
         /\ \A b \in 1 .. n :
              Resized(buffer, n)[b] = IF b <= Len(buffer) THEN buffer[b] ELSE 0
<1>1. Len(buffer) \in Nat /\ \A b \in 1 .. Len(buffer) : buffer[b] \in Byte
  OBVIOUS
<1>2. 0 \in Byte
  BY DEF WordsAre, Byte
<1>3. \A b \in 1 .. n : (IF b <= Len(buffer) THEN buffer[b] ELSE 0) \in Byte
  BY <1>1, <1>2
<1> QED
  BY <1>3 DEF Resized

LEMMA LoadFrame ==
  ASSUME SaveInv, UNCHANGED saving, pc' # "save"
  PROVE  /\ TreeSaved' /\ FileBegun' /\ file' = file /\ entries' = entries /\ levels' = levels
         /\ Image' = Image /\ Params' = Params
         /\ \A n : EndOfEntry(n)' = EndOfEntry(n)
<1>1. levels' = levels /\ entries' = entries /\ file' = file
  BY DEF saving
<1>2. /\ TreeSaved' /\ Image' = Image /\ Params' = Params
      /\ \A n : EndOfEntry(n)' = EndOfEntry(n)
  BY <1>1, ImageStays DEF SaveInv
<1> QED
  BY <1>1, <1>2 DEF SaveInv, FileBegun, Begins

LEMMA LoadRefusedKeeps == ASSUME SaveInv, LoadRefused PROVE SaveInv'
<1>1. /\ pc = "load" /\ pc' = "refused" /\ Len(file) < Len(Params)
      /\ UNCHANGED saving /\ pos' = pos /\ levels_' = levels_
      /\ memtable_' = memtable_ /\ rounds' = rounds
      /\ keyBuffer' = keyBuffer /\ valueBuffer' = valueBuffer
  BY DEF LoadRefused, loading
<1>2. TreeSaved' /\ FileBegun' /\ file' = file /\ Image' = Image
  BY <1>1, LoadFrame
<1>3. Len(file) < Len(Image)
  <2>1. Len(Params) <= Len(Image) /\ Len(Params) \in Nat
        /\ Image \in Seq(Byte) /\ file \in Seq(Byte)
    BY ImageIs DEF SaveInv, FileBegun
  <2>2. Len(Image) \in Nat /\ Len(file) \in Nat
    BY <2>1
  <2> QED
    BY <1>1, <2>1, <2>2
<1>4. LoadTyped'
  BY <1>1, <1>2 DEF SaveInv, LoadTyped
<1> QED
  BY <1>1, <1>2, <1>3, <1>4 DEF SaveInv

LEMMA LoadParamsKeeps == ASSUME SaveInv, LoadParams PROVE SaveInv'
<1>1. /\ pc = "load" /\ pc' = "levels" /\ Len(file) >= Len(Params)
      /\ pos' = Len(Params)
      /\ kv_count' = NumberAt(file, Len(Fixed))
      /\ levels_' = [n \in 1 .. NumberAt(file, Len(Fixed) + WordSize) |-> 0]
      /\ UNCHANGED saving
      /\ memtable_' = memtable_ /\ rounds' = rounds
      /\ keyBuffer' = keyBuffer /\ valueBuffer' = valueBuffer
  BY DEF LoadParams
<1>2. /\ TreeSaved' /\ FileBegun' /\ file' = file /\ Image' = Image
      /\ Params' = Params /\ entries' = entries /\ levels' = levels
  BY <1>1, LoadFrame
<1>3. TreeSaved /\ file \in Seq(Byte) /\ Begins(file, Image)
  BY DEF SaveInv, FileBegun
<1>4. /\ WordsAre /\ WordSize \in Nat /\ Len(Fixed) \in Nat /\ Len(file) \in Nat
      /\ Len(entries) \in Nat /\ Len(levels) \in Nat
      /\ Fits(Len(entries)) /\ Fits(Len(levels))
      /\ Len(Params) = Len(Fixed) + WordSize + WordSize
      /\ \A n \in 1 .. Len(levels) : levels[n] \in Nat
  BY <1>3, TreeIs, ParamsAre DEF WordsAre
<1>5. \A b \in 1 .. Len(Params) : file[b] = Params[b]
  <2> SUFFICES ASSUME NEW b \in 1 .. Len(Params) PROVE file[b] = Params[b]
    OBVIOUS
  <2>1. b \in 1 .. Len(file)
    BY <1>1, <1>4
  <2> QED
    BY <1>3, <2>1, ImageIs DEF Begins
<1>6. \A b \in 1 .. WordSize : file[Len(Fixed) + b] = Word(Len(entries))[b]
  <2> SUFFICES ASSUME NEW b \in 1 .. WordSize
               PROVE  file[Len(Fixed) + b] = Word(Len(entries))[b]
    OBVIOUS
  <2>1. Len(Fixed) + b \in 1 .. Len(Params)
    BY <1>4
  <2> QED
    BY <1>3, <1>5, <2>1, ParamsAre
<1>7. \A b \in 1 .. WordSize : file[(Len(Fixed) + WordSize) + b] = Word(Len(levels))[b]
  <2> SUFFICES ASSUME NEW b \in 1 .. WordSize
               PROVE  file[(Len(Fixed) + WordSize) + b] = Word(Len(levels))[b]
    OBVIOUS
  <2>1. (Len(Fixed) + WordSize) + b \in 1 .. Len(Params)
    BY <1>4
  <2> QED
    BY <1>3, <1>5, <2>1, ParamsAre
<1>8. kv_count' = Len(entries)
  BY <1>1, <1>4, <1>6, NumberBack
<1>9. levels_' = [n \in 1 .. Len(levels) |-> 0]
  <2>1. Len(Fixed) + WordSize \in Nat
    BY <1>4
  <2>2. NumberAt(file, Len(Fixed) + WordSize) = Len(levels)
    BY <1>4, <1>7, <2>1, NumberBack
  <2> QED
    BY <1>1, <2>2
<1>10. levels_' \in Seq(Nat) /\ Len(levels_') = Len(levels)
       /\ \A n \in 1 .. Len(levels) : levels_'[n] <= levels[n]
  BY <1>4, <1>9
<1>11. LevelsRead'
  BY <1>2, <1>10 DEF LevelsRead
<1>12. pos' \in 0 .. Len(file')
  BY <1>1, <1>2, <1>4
<1>13. LoadTyped'
  BY <1>1, <1>10, <1>12 DEF SaveInv, LoadTyped
<1> QED
  BY <1>1, <1>2, <1>8, <1>11, <1>13 DEF SaveInv

(* What is loaded is a matter of the tree, the file, and the memtable. *)
LEMMA EntriesLoadedStays ==
  ASSUME UNCHANGED <<levels, entries, file, pos, memtable_, rounds, keyBuffer>>, EntriesLoaded
  PROVE  EntriesLoaded'
<1>1. \A n : EndOfEntry(n)' = EndOfEntry(n)
  BY ImageStays
<1>2. \A n : Whole(n)' <=> Whole(n)
  BY <1>1 DEF Whole
<1>3. \A n : (AsSaved(n)' <=> AsSaved(n)) /\ LastKey(n)' = LastKey(n)
  BY DEF AsSaved, LastKey
<1>4. \A n : (FirstCut(n)' <=> FirstCut(n)) /\ \A key : MadeFrom(key, n)' <=> MadeFrom(key, n)
  BY <1>2, <1>3 DEF FirstCut, MadeFrom
<1>5. \A key : MadeUp(key)' <=> MadeUp(key)
  BY <1>4 DEF MadeUp
<1>6. PlaceRight'
  BY <1>1, <1>2, <1>3, <1>4 DEF EntriesLoaded, PlaceRight
<1>7. TableRight'
  BY <1>2, <1>3, <1>5 DEF EntriesLoaded, TableRight
<1> QED
  BY <1>6, <1>7 DEF EntriesLoaded

LEMMA LoadEndKeeps == ASSUME SaveInv, LoadEnd PROVE SaveInv'
<1>1. /\ pc = "entries" /\ pc' = "loaded" /\ rounds = kv_count
      /\ UNCHANGED saving /\ pos' = pos /\ levels_' = levels_ /\ kv_count' = kv_count
      /\ memtable_' = memtable_ /\ rounds' = rounds
      /\ keyBuffer' = keyBuffer /\ valueBuffer' = valueBuffer
  BY DEF LoadEnd, loading
<1>2. /\ TreeSaved' /\ FileBegun' /\ file' = file /\ Image' = Image
      /\ entries' = entries /\ levels' = levels
      /\ \A n : EndOfEntry(n)' = EndOfEntry(n)
  BY <1>1, LoadFrame
<1>3. LoadTyped'
  BY <1>1, <1>2 DEF SaveInv, LoadTyped
<1>4. LevelsRead' /\ EntriesLoaded'
  BY <1>1, <1>2, EntriesLoadedStays DEF SaveInv, LevelsRead
<1> QED
  BY <1>1, <1>2, <1>3, <1>4 DEF SaveInv

(* In a whole file the sizes of the next entry lie before the end.         *)
LEMMA LoadEntryThrowsKeeps == ASSUME SaveInv, LoadEntryThrows PROVE SaveInv'
<1>1. /\ pc = "entries" /\ pc' = "refused" /\ rounds < kv_count
      /\ pos + 2 * WordSize > Len(file)
      /\ UNCHANGED saving /\ pos' = pos /\ levels_' = levels_
      /\ memtable_' = memtable_ /\ rounds' = rounds
      /\ keyBuffer' = keyBuffer /\ valueBuffer' = valueBuffer
  BY DEF LoadEntryThrows, loading
<1>2. TreeSaved' /\ FileBegun' /\ file' = file /\ Image' = Image
  BY <1>1, LoadFrame
<1>3. LoadTyped'
  BY <1>1, <1>2 DEF SaveInv, LoadTyped
<1>4. /\ TreeSaved /\ file \in Seq(Byte) /\ Begins(file, Image)
      /\ kv_count = Len(entries) /\ EntriesLoaded /\ rounds \in Nat
      /\ pos \in 0 .. Len(file)
  BY <1>1 DEF SaveInv, FileBegun, LoadTyped
<1>5. /\ WordsAre /\ WordSize \in Nat /\ Len(entries) \in Nat
      /\ \A n \in 1 .. Len(entries) :
           /\ entries[n][1] \in Seq(Byte) /\ entries[n][2] \in Seq(Byte)
           /\ entries[n] = <<entries[n][1], entries[n][2]>>
  BY <1>4, TreeIs DEF WordsAre
<1>6. rounds \in Nat /\ rounds <= Len(entries) /\ Len(file) \in Nat
  BY <1>4 DEF EntriesLoaded
<1>7. PICK n \in 1 .. Len(entries) : n = rounds + 1 /\ n - 1 = rounds
  BY <1>1, <1>4, <1>5, <1>6
<1>8. PICK k, v \in Seq(Byte) : entries[n] = <<k, v>>
  BY <1>5
<1>9. Len(EntryBytes(entries[n])) = WordSize + WordSize + Len(k) + Len(v)
  BY <1>5, <1>8, EntryBytesAre
<1>10. /\ EndOfEntry(rounds) \in Nat
       /\ EndOfEntry(n) = EndOfEntry(rounds) + (WordSize + WordSize + Len(k) + Len(v))
       /\ EndOfEntry(n) <= Len(Image)
  BY <1>4, <1>7, <1>9, EntryInImage
<1>11. Len(Image) \in Nat /\ Len(k) \in Nat /\ Len(v) \in Nat
  <2>1. Image \in Seq(Byte)
    BY <1>4, ImageIs
  <2> QED
    BY <2>1
<1>12. Len(file) < Len(Image)
  <2> SUFFICES ASSUME Len(file) >= Len(Image) PROVE FALSE
    BY <1>6, <1>11
  <2>1. EndOfEntry(rounds) <= Len(file)
    BY <1>5, <1>6, <1>10, <1>11
  <2>2. pos = EndOfEntry(rounds)
    BY <1>4, <2>1 DEF EntriesLoaded, PlaceRight
  <2>3. 2 * WordSize = WordSize + WordSize
    BY <1>5
  <2> QED
    BY <1>1, <1>5, <1>6, <1>10, <1>11, <2>2, <2>3
<1> QED
  BY <1>1, <1>2, <1>3, <1>12 DEF SaveInv

(* The counts: what is not read of them is zero. *)
LEMMA CountsRead ==
  ASSUME TreeSaved, FileBegun, pos = Len(Params), pos \in 0 .. Len(file),
         Len(levels_) = Len(levels)
  PROVE  LET bytes == Read(pos, LevelBytes)
         IN  \A n \in 1 .. Len(levels) :
               /\ NumberAt(bytes, (n - 1) * WordSize) \in Nat
               /\ NumberAt(bytes, (n - 1) * WordSize) <= levels[n]
               /\ Len(file) = Len(Image) =>
                    NumberAt(bytes, (n - 1) * WordSize) = levels[n]
<1> DEFINE N == Len(levels)
           M == N * WordSize
           bytes == Read(pos, LevelBytes)
<1>1. /\ WordsAre /\ WordSize \in Nat \ {0} /\ N \in Nat /\ M \in Nat
      /\ \A n \in 1 .. N : levels[n] \in Nat /\ Fits(levels[n])
  <2>1. /\ WordsAre /\ WordSize \in Nat \ {0} /\ N \in Nat
        /\ \A n \in 1 .. N : levels[n] \in Nat /\ Fits(levels[n])
    BY TreeIs DEF WordsAre
  <2> QED
    BY <2>1, WordProduct
<1>2. file \in Seq(Byte) /\ Len(file) \in Nat /\ Begins(file, Image)
  BY DEF FileBegun
<1>3. LevelBytes = [b \in 1 .. M |-> 0]
  BY DEF LevelBytes
<1> HIDE DEF M
<1>4. LevelBytes \in Seq(Byte) /\ Len(LevelBytes) = M
      /\ \A b \in 1 .. M : LevelBytes[b] = 0
  <2>1. 0 \in Byte
    BY <1>1 DEF WordsAre, Byte
  <2> QED
    BY <1>1, <1>3, <2>1
<1>5. /\ bytes \in Seq(Byte) /\ Len(bytes) = M
      /\ \A b \in 1 .. M : /\ pos + b <= Len(file) => bytes[b] = file[pos + b]
                           /\ pos + b > Len(file) => bytes[b] = 0
  <2>1. /\ bytes \in Seq(Byte) /\ Len(bytes) = M
        /\ \A b \in 1 .. M : /\ pos + b <= Len(file) => bytes[b] = file[pos + b]
                             /\ pos + b > Len(file) => bytes[b] = LevelBytes[b]
    BY <1>2, <1>4, ReadIs
  <2> QED
    BY <1>4, <2>1
<1>6. /\ \A b \in 1 .. M : Image[pos + b] = SavedLevels[b]
      /\ pos + M <= Len(Image) /\ Len(Image) \in Nat
  <2>1. EndOfEntry(0) = pos + M /\ \A b \in 1 .. M : Image[pos + b] = SavedLevels[b]
    BY ImageIs DEF M
  <2>2. EndOfEntry(0) <= Len(Image)
    <3>1. 0 \in 0 .. Len(entries) /\ 0 <= 0
      BY TreeIs
    <3> QED
      BY <3>1, EndsGrow
  <2>3. Image \in Seq(Byte)
    BY ImageIs
  <2> QED
    BY <2>1, <2>2, <2>3
<1> HIDE DEF bytes
<1>7. ASSUME NEW b \in 1 .. M
      PROVE  /\ pos + b <= Len(file) => bytes[b] = SavedLevels[b]
             /\ bytes[b] = SavedLevels[b] \/ bytes[b] = 0
             /\ Len(file) = Len(Image) => bytes[b] = SavedLevels[b]
  <2>1. PICK p \in Nat : p = pos + b /\ p >= 1
    BY <1>1, <1>2
  <2>2. ASSUME p <= Len(file) PROVE bytes[b] = SavedLevels[b]
    <3>1. p \in 1 .. Len(file)
      BY <1>2, <2>1, <2>2
    <3>2. file[p] = Image[p]
      BY <1>2, <3>1 DEF Begins
    <3> QED
      BY <1>5, <1>6, <2>1, <2>2, <3>2
  <2>3. Len(file) = Len(Image) => p <= Len(file)
    BY <1>1, <1>2, <1>6, <2>1
  <2>4. p <= Len(file) \/ p > Len(file)
    BY <1>2, <2>1
  <2> QED
    BY <1>5, <2>1, <2>2, <2>3, <2>4
<1>8. ASSUME NEW n \in 1 .. N
      PROVE  /\ NumberAt(bytes, (n - 1) * WordSize) \in Nat
             /\ NumberAt(bytes, (n - 1) * WordSize) <= levels[n]
             /\ Len(file) = Len(Image) =>
                  NumberAt(bytes, (n - 1) * WordSize) = levels[n]
  <2>1. PICK u \in Nat : u = (n - 1) * WordSize
    <3>1. n - 1 \in Nat
      BY <1>1
    <3> QED
      BY <1>1, <3>1, WordProduct
  <2>2. PICK w \in Seq(Byte) : /\ w = Word(levels[n]) /\ Len(w) = WordSize
    BY <1>1, WordIs
  <2>3. \A b \in 1 .. WordSize : u + b \in 1 .. M /\ SavedLevels[u + b] = w[b]
    BY <2>1, <2>2, SavedLevelsAre DEF M
  <2>4. \A b \in 1 .. WordSize : w[b] \in Byte /\ w[b] >= 0 /\ 0 + b = b
    <3>1. \A b \in 1 .. WordSize : w[b] \in Byte
      BY <2>2
    <3> QED
      BY <1>1, <3>1 DEF Byte, WordsAre
  <2>5. \A b \in 1 .. WordSize : bytes[u + b] \in Byte
    <3> SUFFICES ASSUME NEW b \in 1 .. WordSize PROVE bytes[u + b] \in Byte
      OBVIOUS
    <3>1. PICK c \in 1 .. M : c = u + b
      BY <2>3
    <3>2. bytes[c] \in Byte
      BY <1>5
    <3> QED
      BY <3>1, <3>2
  <2>6. \A b \in 1 .. WordSize :
          /\ bytes[u + b] \in Byte /\ w[0 + b] \in Byte /\ bytes[u + b] <= w[0 + b]
    <3> SUFFICES ASSUME NEW b \in 1 .. WordSize PROVE bytes[u + b] <= w[b]
      BY <2>4, <2>5
    <3>1. bytes[u + b] = w[b] \/ bytes[u + b] = 0
      BY <1>7, <2>3
    <3>2. w[b] \in Int /\ w[b] >= 0
      BY <2>4 DEF Byte
    <3> QED
      BY <3>1, <3>2
  <2>7. /\ NumberAt(bytes, u) \in Nat /\ NumberAt(bytes, u) <= NumberAt(w, 0)
    BY <1>1, <2>6, NumberGrows
  <2>8. NumberAt(w, 0) = levels[n]
    BY <1>1, <2>2, <2>4, NumberBack
  <2>9. ASSUME Len(file) = Len(Image) PROVE NumberAt(bytes, u) = levels[n]
    <3>1. \A b \in 1 .. WordSize : bytes[u + b] = Word(levels[n])[b]
      BY <1>7, <2>2, <2>3, <2>9
    <3> QED
      BY <1>1, <3>1, NumberBack
  <2> QED
    BY <2>1, <2>7, <2>8, <2>9
<1> QED
  BY <1>8 DEF bytes

LEMMA LoadLevelsKeeps == ASSUME SaveInv, LoadLevels PROVE SaveInv'
<1> DEFINE bytes == Read(pos, LevelBytes)
<1>1. /\ pc = "levels" /\ pc' = "entries"
      /\ pos' = After(pos, LevelBytes)
      /\ levels_' = [n \in DOMAIN levels_ |-> NumberAt(bytes, (n - 1) * WordSize)]
      /\ UNCHANGED saving /\ kv_count' = kv_count
      /\ memtable_' = memtable_ /\ rounds' = rounds
      /\ keyBuffer' = keyBuffer /\ valueBuffer' = valueBuffer
  BY DEF LoadLevels
<1>2. /\ TreeSaved' /\ FileBegun' /\ file' = file /\ Image' = Image
      /\ entries' = entries /\ levels' = levels
      /\ \A n : EndOfEntry(n)' = EndOfEntry(n)
  BY <1>1, LoadFrame
<1>3. /\ TreeSaved /\ FileBegun /\ pos = Len(Params) /\ pos \in 0 .. Len(file)
      /\ Len(levels_) = Len(levels) /\ levels_ \in Seq(Nat)
      /\ rounds = 0 /\ DOMAIN memtable_ = {} /\ keyBuffer = <<>>
      /\ kv_count = Len(entries)
  BY <1>1 DEF SaveInv, LoadTyped, LevelsRead
<1>4. \A n \in 1 .. Len(levels) :
        /\ NumberAt(bytes, (n - 1) * WordSize) \in Nat
        /\ NumberAt(bytes, (n - 1) * WordSize) <= levels[n]
        /\ Len(file) = Len(Image) => NumberAt(bytes, (n - 1) * WordSize) = levels[n]
  BY <1>3, CountsRead
<1> HIDE DEF bytes
<1>5. Len(levels) \in Nat /\ DOMAIN levels_ = 1 .. Len(levels) /\ levels \in Seq(Nat)
  <2>1. Len(levels) \in Nat /\ levels \in Seq(Nat)
    BY <1>3, TreeIs
  <2> QED
    BY <1>3, <2>1
<1>6. levels_' = [n \in 1 .. Len(levels) |-> NumberAt(bytes, (n - 1) * WordSize)]
  BY <1>1, <1>5
<1> DEFINE number(n) == NumberAt(bytes, (n - 1) * WordSize)
<1>7. levels_' = [n \in 1 .. Len(levels) |-> number(n)] /\ \A n \in 1 .. Len(levels) :
        number(n) \in Nat /\ number(n) <= levels[n]
        /\ (Len(file) = Len(Image) => number(n) = levels[n])
  BY <1>4, <1>6
<1> HIDE DEF number
<1>8. levels_' \in Seq(Nat) /\ Len(levels_') = Len(levels)
      /\ \A n \in 1 .. Len(levels) : levels_'[n] = number(n)
  BY <1>5, <1>7
<1>9. LevelsRead'
  BY <1>2, <1>7, <1>8 DEF LevelsRead
<1>10. Len(file) = Len(Image) => levels_' = levels
  <2> SUFFICES ASSUME Len(file) = Len(Image) PROVE levels_' = levels
    OBVIOUS
  <2>1. \A n \in 1 .. Len(levels) : levels_'[n] = levels[n]
    BY <1>7, <1>8
  <2> QED
    BY <1>5, <1>8, <2>1, SeqEqual
<1>11. Len(LevelBytes) = Len(levels) * WordSize /\ LevelBytes \in Seq(Byte)
  <2>1. 0 \in Byte
    BY <1>3, TreeIs DEF WordsAre, Byte
  <2>2. PICK m \in Nat : m = Len(levels) * WordSize
    BY <1>3, SavedLevelsAre
  <2>3. LevelBytes = [b \in 1 .. m |-> 0]
    BY <1>3, <2>2 DEF LevelBytes
  <2> QED
    BY <2>1, <2>2, <2>3
<1>12. /\ pos' \in 0 .. Len(file)
       /\ pos + Len(levels) * WordSize <= Len(file) => pos' = pos + Len(levels) * WordSize
       /\ pos + Len(levels) * WordSize >= Len(file) => pos' = Len(file)
  <2>1. file \in Seq(Byte)
    BY <1>3 DEF FileBegun
  <2> QED
    BY <1>1, <1>3, <1>11, <2>1, ReadIs
<1>13. EndOfEntry(0) = pos + Len(levels) * WordSize
  BY <1>3, ImageIs
<1>14. EntriesLoaded'
  <2>1. rounds' = 0 /\ DOMAIN memtable_' = {} /\ keyBuffer' = <<>> /\ Len(entries) \in Nat
    BY <1>1, <1>3, TreeIs
  <2>2. EndOfEntry(0) \in Nat /\ Len(file) \in Nat
    BY <1>3, <2>1, EndsGrow DEF FileBegun
  <2>3. /\ EndOfEntry(0) <= Len(file) => pos' = EndOfEntry(0)
        /\ Len(file) <= EndOfEntry(0) => pos' = Len(file)
    BY <1>12, <1>13, <2>2
  <2>4. LastKey(0 + 1)' = <<>>
    BY DEF LastKey
  <2>5. PlaceRight'
    BY <1>2, <2>1, <2>3, <2>4 DEF PlaceRight
  <2>6. TableRight'
    BY <2>1 DEF TableRight
  <2> QED
    BY <1>2, <2>1, <2>5, <2>6 DEF EntriesLoaded
<1>15. LoadTyped'
  BY <1>1, <1>2, <1>8, <1>12 DEF SaveInv, LoadTyped
<1> QED
  BY <1>1, <1>2, <1>3, <1>9, <1>10, <1>14, <1>15 DEF SaveInv

(* Before an entry that is whole every entry is; at or before one that is  *)
(* not there is a first that is cut.                                       *)
LEMMA WholeBefore ==
  ASSUME TreeSaved, file \in Seq(Byte), NEW m \in 0 .. Len(entries), NEW n \in 0 .. Len(entries),
         m <= n, Whole(n)
  PROVE  Whole(m)
<1>1. EndOfEntry(m) \in Nat /\ EndOfEntry(n) \in Nat /\ EndOfEntry(m) <= EndOfEntry(n)
  BY EndsGrow
<1>2. Len(file) \in Nat
  OBVIOUS
<1> QED
  BY <1>1, <1>2 DEF Whole

LEMMA CutBefore ==
  ASSUME NEW n \in Nat \ {0}, ~Whole(n)
  PROVE  \E m \in 1 .. n : FirstCut(m)
<1> DEFINE T == {m \in 1 .. n : ~Whole(m)}
<1>1. T \subseteq Nat /\ n \in T
  OBVIOUS
<1>2. PICK m \in T : \A l \in T : m <= l
  BY <1>1, LeastNat
<1>3. m = 1 \/ (m - 1 \in 1 .. n /\ ~(m <= m - 1))
  BY <1>2
<1>4. m = 1 \/ Whole(m - 1)
  BY <1>2, <1>3
<1> QED
  BY <1>2, <1>4 DEF FirstCut

(* An insert: the key is that of the whole entry of this round, or made up *)
(* from the one that is cut.                                               *)
LEMMA InsertKeeps ==
  ASSUME TreeSaved, TableRight, rounds \in Nat, rounds < Len(entries),
         UNCHANGED <<levels, entries, file>>, NEW key, NEW value,
         memtable_' = Inserted(memtable_, key, value), rounds' = rounds + 1,
         \/ /\ ~Whole(rounds + 1)
            /\ \E m \in 1 .. rounds + 1 : FirstCut(m) /\ MadeFrom(key, m)
         \/ /\ Whole(rounds + 1)
            /\ key = entries[rounds + 1][1] /\ value = entries[rounds + 1][2]
  PROVE  TableRight'
<1>1. \A n : Whole(n)' <=> Whole(n)
  BY ImageStays DEF Whole
<1>2. \A n : /\ FirstCut(n)' <=> FirstCut(n)
             /\ \A x : MadeFrom(x, n)' <=> MadeFrom(x, n)
  BY <1>1 DEF FirstCut, MadeFrom, LastKey
<1>3. PICK last \in Nat \ {0} : last = rounds + 1 /\ last <= Len(entries) /\ rounds' = last
      /\ (\A m \in 1 .. last : m = last \/ m \in 1 .. rounds)
      /\ \A m \in 1 .. rounds : m \in 1 .. last /\ m # last
  <2>1. rounds + 1 \in Nat \ {0} /\ rounds + 1 <= Len(entries)
    BY TreeIs
  <2> QED
    BY <2>1
<1>4. ASSUME NEW x, MadeUp(x) PROVE MadeUp(x)'
  BY <1>2, <1>3, <1>4 DEF MadeUp
<1>5. /\ DOMAIN memtable_' = DOMAIN memtable_ \cup {key}
      /\ memtable_'[key] = value
      /\ \A x \in DOMAIN memtable_ : x # key => memtable_'[x] = memtable_[x]
  BY DEF Inserted
<1>6. ASSUME NEW n, AsSaved(n), entries[n][1] # key PROVE AsSaved(n)'
  BY <1>5, <1>6 DEF AsSaved
<1>7. CASE ~Whole(last)
  <2>1. MadeUp(key)'
    BY <1>2, <1>3, <1>7 DEF MadeUp
  <2>2. ASSUME NEW n \in 1 .. last, Whole(n) PROVE AsSaved(n)' \/ MadeUp(entries[n][1])'
    <3>1. n \in 1 .. rounds
      BY <1>3, <1>7, <2>2
    <3>2. AsSaved(n) \/ MadeUp(entries[n][1])
      BY <2>2, <3>1 DEF TableRight
    <3>3. CASE AsSaved(n)
      BY <1>6, <2>1, <3>3
    <3>4. CASE MadeUp(entries[n][1])
      <4>1. PICK x : x = entries[n][1]
        OBVIOUS
      <4>2. MadeUp(x)'
        BY <1>4, <3>4, <4>1
      <4> QED
        BY <4>1, <4>2 DEF MadeUp
    <3> QED
      BY <3>2, <3>3, <3>4
  <2>3. ASSUME NEW x \in DOMAIN memtable_'
        PROVE  MadeUp(x)' \/ \E n \in 1 .. last : Whole(n) /\ x = entries[n][1]
    <3>1. CASE x = key
      BY <2>1, <3>1
    <3>2. CASE x # key
      BY <1>3, <1>4, <1>5, <2>3, <3>2 DEF TableRight
    <3> QED
      BY <3>1, <3>2
  <2> QED
    BY <1>1, <1>3, <2>2, <2>3 DEF TableRight
<1>8. CASE Whole(last)
  <2>1. key = entries[last][1] /\ value = entries[last][2]
    BY <1>3, <1>8
  <2>2. ASSUME NEW n \in 1 .. rounds PROVE entries[n][1] # key
    <3>1. n \in DOMAIN entries /\ last \in DOMAIN entries /\ n # last
      BY <1>3, TreeIs
    <3>2. entries \in Memtables
      BY DEF TreeSaved
    <3> QED
      BY <2>1, <3>1, <3>2, SaveAssumption
  <2>3. ASSUME NEW n \in 1 .. last, Whole(n) PROVE AsSaved(n)' \/ MadeUp(entries[n][1])'
    <3>1. CASE n = last
      BY <1>5, <2>1, <3>1 DEF AsSaved
    <3>2. CASE n \in 1 .. rounds
      <4>1. CASE AsSaved(n)
        BY <1>6, <2>2, <3>2, <4>1
      <4>2. CASE MadeUp(entries[n][1])
        <5>1. PICK x : x = entries[n][1]
          OBVIOUS
        <5>2. MadeUp(x)'
          BY <1>4, <4>2, <5>1
        <5> QED
          BY <5>1, <5>2 DEF MadeUp
      <4> QED
        BY <2>3, <3>2, <4>1, <4>2 DEF TableRight
    <3> QED
      BY <1>3, <3>1, <3>2
  <2>4. ASSUME NEW x \in DOMAIN memtable_'
        PROVE  MadeUp(x)' \/ \E n \in 1 .. last : Whole(n) /\ x = entries[n][1]
    <3>1. CASE x = key
      BY <1>3, <1>8, <2>1, <3>1
    <3>2. CASE x # key
      BY <1>3, <1>4, <1>5, <2>4, <3>2 DEF TableRight
    <3> QED
      BY <3>1, <3>2
  <2> QED
    BY <1>1, <1>3, <2>3, <2>4 DEF TableRight
<1> QED
  BY <1>7, <1>8

LEMMA LoadEntryKeeps == ASSUME SaveInv, LoadEntry PROVE SaveInv'
<1>1. /\ pc = "entries" /\ pc' = "entries" /\ rounds < kv_count
      /\ memtable_' = Inserted(memtable_, keyBuffer', valueBuffer') /\ rounds' = rounds + 1
      /\ UNCHANGED saving /\ levels_' = levels_ /\ kv_count' = kv_count
  BY DEF LoadEntry
<1>2. PICK uninitialised \in [1 .. 2 * WordSize -> junk] :
        LET sizes == Read(pos, uninitialised)
            key0 == Resized(keyBuffer, NumberAt(sizes, 0))
            value0 == Resized(valueBuffer, NumberAt(sizes, WordSize))
            keyPos == After(pos, sizes)
            valuePos == After(keyPos, key0)
        IN  /\ keyBuffer' = Read(keyPos, key0)
            /\ valueBuffer' = Read(valuePos, value0)
            /\ pos' = After(valuePos, value0)
  BY DEF LoadEntry
<1> DEFINE sizes == Read(pos, uninitialised)
           key0 == Resized(keyBuffer, NumberAt(sizes, 0))
           value0 == Resized(valueBuffer, NumberAt(sizes, WordSize))
           keyPos == After(pos, sizes)
           valuePos == After(keyPos, key0)
<1>3. /\ keyBuffer' = Read(keyPos, key0)
      /\ valueBuffer' = Read(valuePos, value0)
      /\ pos' = After(valuePos, value0)
  BY <1>2
<1>4. /\ TreeSaved' /\ FileBegun' /\ file' = file /\ Image' = Image
      /\ entries' = entries /\ levels' = levels
      /\ \A n : EndOfEntry(n)' = EndOfEntry(n)
  BY <1>1, LoadFrame
<1>5. /\ TreeSaved /\ file \in Seq(Byte) /\ Begins(file, Image)
      /\ kv_count = Len(entries) /\ EntriesLoaded /\ rounds \in Nat
      /\ pos \in 0 .. Len(file) /\ LevelsRead
      /\ keyBuffer \in Seq(Byte) /\ valueBuffer \in Seq(Byte)
  BY <1>1 DEF SaveInv, FileBegun, LoadTyped
<1>6. /\ WordsAre /\ WordSize \in Nat \ {0} /\ Len(entries) \in Nat
      /\ \A n \in 1 .. Len(entries) :
           /\ entries[n][1] \in Seq(Byte) /\ entries[n][2] \in Seq(Byte)
           /\ entries[n] = <<entries[n][1], entries[n][2]>>
           /\ Fits(Len(entries[n][1])) /\ Fits(Len(entries[n][2]))
  BY <1>5, TreeIs DEF WordsAre
<1>7. rounds \in Nat /\ rounds < Len(entries) /\ Len(file) \in Nat
  BY <1>1, <1>5
<1>8. uninitialised \in Seq(Byte) /\ Len(uninitialised) = WordSize + WordSize
  <2>1. junk \subseteq Byte
    BY <1>5, SaveAssumption DEF TreeSaved
  <2>2. PICK m \in Nat : m = 2 * WordSize /\ m = WordSize + WordSize
    BY <1>6
  <2>3. uninitialised \in [1 .. m -> Byte]
    BY <2>1, <2>2
  <2> QED
    BY <2>2, <2>3
<1>9. /\ sizes \in Seq(Byte) /\ Len(sizes) = WordSize + WordSize
      /\ \A b \in 1 .. WordSize + WordSize : pos + b <= Len(file) => sizes[b] = file[pos + b]
  BY <1>5, <1>8, ReadIs
<1> HIDE DEF sizes
<1>10. /\ keyPos \in 0 .. Len(file)
       /\ pos + (WordSize + WordSize) <= Len(file) => keyPos = pos + (WordSize + WordSize)
       /\ pos + (WordSize + WordSize) >= Len(file) => keyPos = Len(file)
  BY <1>5, <1>9, ReadIs
<1>11. \A b \in 1 .. WordSize : sizes[0 + b] \in Byte /\ sizes[WordSize + b] \in Byte
  <2>1. \A b \in 1 .. Len(sizes) : sizes[b] \in Byte
    BY <1>9
  <2>2. \A b \in 1 .. WordSize : 0 + b \in 1 .. Len(sizes) /\ WordSize + b \in 1 .. Len(sizes)
    BY <1>6, <1>9
  <2> QED
    BY <2>1, <2>2
<1>12. PICK i, j \in Nat : i = NumberAt(sizes, 0) /\ j = NumberAt(sizes, WordSize)
  <2>1. NumberAt(sizes, 0) \in Nat
    BY <1>6, <1>11, NumberIsNat
  <2>2. NumberAt(sizes, WordSize) \in Nat
    BY <1>6, <1>11, NumberIsNat
  <2> QED
    BY <2>1, <2>2
<1>13. /\ key0 \in Seq(Byte) /\ Len(key0) = i
       /\ \A b \in 1 .. i : key0[b] = IF b <= Len(keyBuffer) THEN keyBuffer[b] ELSE 0
       /\ value0 \in Seq(Byte) /\ Len(value0) = j
  BY <1>5, <1>6, <1>12, ResizedIs
<1> HIDE DEF keyPos, key0, value0
<1>14. /\ keyBuffer' \in Seq(Byte) /\ Len(keyBuffer') = i
       /\ \A b \in 1 .. i : keyPos + b <= Len(file) => keyBuffer'[b] = file[keyPos + b]
       /\ \A b \in 1 .. i : keyPos + b > Len(file) => keyBuffer'[b] = key0[b]
       /\ valuePos \in 0 .. Len(file)
       /\ keyPos + i <= Len(file) => valuePos = keyPos + i
       /\ keyPos + i >= Len(file) => valuePos = Len(file)
  BY <1>3, <1>5, <1>10, <1>13, ReadIs
<1> HIDE DEF valuePos
<1>15. /\ valueBuffer' \in Seq(Byte) /\ Len(valueBuffer') = j
       /\ \A b \in 1 .. j : valuePos + b <= Len(file) => valueBuffer'[b] = file[valuePos + b]
       /\ pos' \in 0 .. Len(file)
       /\ valuePos + j <= Len(file) => pos' = valuePos + j
       /\ valuePos + j >= Len(file) => pos' = Len(file)
  BY <1>3, <1>5, <1>13, <1>14, ReadIs
<1>16. rounds' \in Nat
  BY <1>1, <1>7
<1>17. LoadTyped'
  BY <1>1, <1>4, <1>5, <1>14, <1>15, <1>16 DEF SaveInv, LoadTyped
<1>18. PICK n \in 1 .. Len(entries) : n = rounds + 1 /\ n - 1 = rounds
  BY <1>1, <1>5, <1>6, <1>7
<1>19. PICK k, v \in Seq(Byte) :
         entries[n] = <<k, v>> /\ Fits(Len(k)) /\ Fits(Len(v))
  BY <1>6
<1>20. Len(k) \in Nat /\ Len(v) \in Nat
  OBVIOUS
<1> DEFINE bytes == EntryBytes(entries[n])
<1>21. /\ Len(bytes) = WordSize + WordSize + Len(k) + Len(v)
       /\ \A b \in 1 .. WordSize : /\ bytes[b] = Word(Len(k))[b]
                                   /\ bytes[WordSize + b] = Word(Len(v))[b]
       /\ \A b \in 1 .. Len(k) : bytes[(WordSize + WordSize) + b] = k[b]
       /\ \A b \in 1 .. Len(v) : bytes[(WordSize + WordSize + Len(k)) + b] = v[b]
  <2>0. WordsAre
    BY <1>6
  <2>1. PICK e : e = EntryBytes(<<k, v>>)
    OBVIOUS
  <2>2. /\ Len(e) = WordSize + WordSize + Len(k) + Len(v)
        /\ \A b \in 1 .. WordSize : /\ e[b] = Word(Len(k))[b]
                                    /\ e[WordSize + b] = Word(Len(v))[b]
        /\ \A b \in 1 .. Len(k) : e[(WordSize + WordSize) + b] = k[b]
        /\ \A b \in 1 .. Len(v) : e[(WordSize + WordSize + Len(k)) + b] = v[b]
    BY <2>0, <2>1, EntryBytesAre, Zenon
  <2>3. bytes = e
    BY <1>19, <2>1
  <2> HIDE DEF bytes
  <2> QED
    BY <2>2, <2>3
<1> DEFINE end == EndOfEntry(rounds)
<1>22. /\ end \in Nat
       /\ EndOfEntry(n) = end + (WordSize + WordSize + Len(k) + Len(v))
       /\ \A b \in 1 .. Len(bytes) : Image[end + b] = bytes[b]
  <2>1. /\ EndOfEntry(n - 1) \in Nat
        /\ EndOfEntry(n) = EndOfEntry(n - 1) + Len(bytes)
        /\ \A b \in 1 .. Len(bytes) : Image[EndOfEntry(n - 1) + b] = bytes[b]
    BY <1>5, EntryInImage
  <2>2. EndOfEntry(n - 1) = end /\ Len(bytes) = WordSize + WordSize + Len(k) + Len(v)
    BY <1>18, <1>21
  <2> HIDE DEF bytes, end
  <2> QED
    BY <2>1, <2>2
<1> HIDE DEF bytes, end
<1>23. /\ end <= Len(file) => pos = end
       /\ Len(file) <= end => pos = Len(file)
  BY <1>5 DEF EntriesLoaded, PlaceRight, end
(* What is left of the file is the entry's. *)
<1>24. ASSUME NEW b \in 1 .. Len(bytes), pos + b <= Len(file) PROVE file[pos + b] = bytes[b]
  <2>1. end <= Len(file) /\ pos = end
    BY <1>5, <1>7, <1>20, <1>21, <1>22, <1>23, <1>24
  <2>2. PICK p \in 1 .. Len(file) : p = pos + b
    BY <1>7, <1>22, <1>24, <2>1
  <2>3. file[p] = Image[p]
    BY <1>5, <2>2 DEF Begins
  <2> QED
    BY <1>22, <2>1, <2>2, <2>3
(* The sizes are whole. *)
<1>25. ASSUME pos + (WordSize + WordSize) <= Len(file)
       PROVE  pos = end /\ i = Len(k) /\ j = Len(v) /\ keyPos = pos + (WordSize + WordSize)
  <2>1. \A b \in 1 .. WordSize : /\ sizes[0 + b] = Word(Len(k))[b]
                                 /\ sizes[WordSize + b] = Word(Len(v))[b]
    <3> SUFFICES ASSUME NEW b \in 1 .. WordSize
                 PROVE  /\ sizes[b] = Word(Len(k))[b]
                        /\ sizes[WordSize + b] = Word(Len(v))[b]
      BY <1>6
    <3>1. PICK c \in 1 .. WordSize + WordSize : c = WordSize + b
      <4>1. WordSize + b \in 1 .. WordSize + WordSize
        BY <1>6
      <4> QED
        BY <4>1
    <3>2. b \in 1 .. WordSize + WordSize /\ b \in 1 .. Len(bytes) /\ c \in 1 .. Len(bytes)
      BY <1>6, <1>20, <1>21, <3>1
    <3>3. pos + b <= Len(file) /\ pos + c <= Len(file)
      <4>1. PICK both \in Nat : both = WordSize + WordSize /\ b <= both /\ c <= both
        BY <1>6, <3>1
      <4>2. pos \in Nat /\ Len(file) \in Nat /\ pos + both <= Len(file)
        BY <1>5, <1>7, <1>25, <4>1
      <4> QED
        BY <3>1, <4>1, <4>2
    <3>4. sizes[b] = bytes[b] /\ sizes[c] = bytes[c]
      BY <1>9, <1>24, <3>2, <3>3
    <3> QED
      BY <1>21, <3>1, <3>4
  <2>2. i = Len(k) /\ j = Len(v)
    <3>1. 0 \in Nat /\ WordSize \in Nat
      BY <1>6
    <3>2. NumberAt(sizes, 0) = Len(k)
      <4>1. PICK z \in Nat : z = 0
        BY <3>1
      <4>2. \A b \in 1 .. WordSize : sizes[z + b] = Word(Len(k))[b]
        BY <2>1, <4>1
      <4>3. WordsAre /\ Fits(Len(k)) /\ Len(k) \in Nat
        BY <1>6, <1>19, <1>20
      <4>4. NumberAt(sizes, z) = Len(k)
        BY <4>2, <4>3, NumberBack
      <4> QED
        BY <4>1, <4>4
    <3>3. NumberAt(sizes, WordSize) = Len(v)
      <4>1. \A b \in 1 .. WordSize : sizes[WordSize + b] = Word(Len(v))[b]
        BY <2>1
      <4>2. WordsAre /\ Fits(Len(v))
        BY <1>6, <1>19
      <4> QED
        BY <1>20, <3>1, <4>1, <4>2, NumberBack
    <3> QED
      BY <1>12, <3>2, <3>3
  <2>3. pos = end
    BY <1>5, <1>6, <1>7, <1>22, <1>23, <1>25
  <2> QED
    BY <1>10, <1>25, <2>2, <2>3
(* The bytes of the key: read, left from before, or zero. *)
<1>26. ASSUME NEW b \in 1 .. i, keyPos + b <= Len(file)
       PROVE  b <= Len(k) /\ keyBuffer'[b] = k[b]
  <2>1. pos + (WordSize + WordSize) <= Len(file)
    BY <1>5, <1>6, <1>7, <1>10, <1>26
  <2>2. PICK c \in 1 .. Len(bytes) : c = (WordSize + WordSize) + b /\ b \in 1 .. Len(k)
    BY <1>6, <1>20, <1>21, <1>25, <2>1
  <2>3. keyPos + b = pos + c
    <3>1. PICK x \in Nat : x = WordSize + WordSize
      BY <1>6
    <3>2. keyPos = pos + x /\ c = x + b /\ b \in Nat /\ pos \in Nat
      BY <1>5, <1>12, <1>25, <2>1, <2>2, <3>1
    <3> QED
      BY <3>2
  <2>4. keyBuffer'[b] = file[pos + c] /\ file[pos + c] = bytes[c]
    BY <1>14, <1>24, <1>26, <2>3
  <2> QED
    BY <1>21, <2>2, <2>4
<1>27. ASSUME NEW b \in 1 .. i, ~(keyPos + b <= Len(file))
       PROVE  keyBuffer'[b] = 0 \/ (b <= Len(keyBuffer) /\ keyBuffer'[b] = keyBuffer[b])
  <2>1. keyBuffer'[b] = key0[b]
    BY <1>7, <1>10, <1>14, <1>27
  <2> QED
    BY <1>13, <2>1
<1>28. ASSUME EndOfEntry(n) <= Len(file)
       PROVE  pos' = EndOfEntry(n) /\ keyBuffer' = k /\ valueBuffer' = v
  <2>1. end <= Len(file) /\ pos = end
    BY <1>6, <1>7, <1>20, <1>22, <1>23, <1>28
  <2>2. pos \in Nat /\ pos + (WordSize + WordSize + Len(k) + Len(v)) <= Len(file)
    BY <1>5, <1>22, <1>28, <2>1
  <2>3. i = Len(k) /\ j = Len(v)
    BY <1>6, <1>7, <1>20, <1>25, <2>2
  <2>4. ASSUME NEW b \in 1 .. Len(bytes) PROVE file[pos + b] = bytes[b] /\ pos + b <= Len(file)
    BY <1>6, <1>7, <1>20, <1>21, <1>24, <2>2
  <2>5. keyPos = pos + (WordSize + WordSize) /\ valuePos = pos + (WordSize + WordSize + Len(k))
        /\ pos' = pos + (WordSize + WordSize + Len(k) + Len(v))
    <3>1. keyPos = pos + (WordSize + WordSize)
      BY <1>6, <1>7, <1>10, <1>20, <2>2
    <3>2. valuePos = pos + (WordSize + WordSize + Len(k))
      BY <1>6, <1>7, <1>14, <1>20, <2>3, <2>2, <3>1
    <3>3. pos' = pos + (WordSize + WordSize + Len(k) + Len(v))
      BY <1>6, <1>7, <1>15, <1>20, <2>3, <2>2, <3>2
    <3> QED
      BY <3>1, <3>2, <3>3
  <2>6. ASSUME NEW b \in 1 .. Len(k) PROVE keyBuffer'[b] = k[b]
    <3>1. PICK c \in 1 .. Len(bytes) : c = (WordSize + WordSize) + b
      BY <1>6, <1>20, <1>21
    <3>2. keyPos + b = pos + c
      <4>1. PICK x \in Nat : x = WordSize + WordSize
        BY <1>6
      <4>2. keyPos = pos + x /\ c = x + b /\ b \in Nat /\ pos \in Nat
        BY <1>20, <2>2, <2>5, <3>1, <4>1
      <4> QED
        BY <4>2
    <3>3. keyBuffer'[b] = file[pos + c]
      BY <1>14, <2>4, <2>3, <3>2
    <3> QED
      BY <1>21, <2>4, <3>1, <3>3
  <2>7. ASSUME NEW b \in 1 .. Len(v) PROVE valueBuffer'[b] = v[b]
    <3>1. PICK c \in 1 .. Len(bytes) : c = (WordSize + WordSize + Len(k)) + b
      BY <1>6, <1>20, <1>21
    <3>2. valuePos + b = pos + c
      <4>1. PICK x \in Nat : x = WordSize + WordSize + Len(k)
        BY <1>6, <1>20
      <4>2. valuePos = pos + x /\ c = x + b /\ b \in Nat /\ pos \in Nat
        BY <1>20, <2>2, <2>5, <3>1, <4>1
      <4> QED
        BY <4>2
    <3>3. valueBuffer'[b] = file[pos + c]
      BY <1>15, <2>4, <2>3, <3>2
    <3> QED
      BY <1>21, <2>4, <3>1, <3>3
  <2>8. keyBuffer' = k
    BY <1>14, <2>3, <2>6, SeqEqual
  <2>9. valueBuffer' = v
    BY <1>15, <2>3, <2>7, SeqEqual
  <2> QED
    BY <1>22, <2>1, <2>5, <2>8, <2>9
<1>29. ASSUME Len(file) <= EndOfEntry(n) PROVE pos' = Len(file)
  <2>1. CASE pos + (WordSize + WordSize) <= Len(file)
    <3>1. /\ keyPos = end + (WordSize + WordSize) /\ i = Len(k) /\ j = Len(v)
          /\ EndOfEntry(n) = keyPos + Len(k) + Len(v) /\ keyPos \in Nat
      BY <1>6, <1>20, <1>22, <1>25, <2>1
    <3>2. CASE keyPos + i <= Len(file)
      <4>1. valuePos + j >= Len(file)
        BY <1>7, <1>14, <1>20, <1>29, <3>1, <3>2
      <4> QED
        BY <1>15, <4>1
    <3>3. CASE ~(keyPos + i <= Len(file))
      <4>1. valuePos = Len(file)
        BY <1>7, <1>12, <1>14, <3>1, <3>3
      <4> QED
        BY <1>7, <1>12, <1>15, <4>1
    <3> QED
      BY <3>2, <3>3
  <2>2. CASE ~(pos + (WordSize + WordSize) <= Len(file))
    <3>1. keyPos = Len(file)
      BY <1>5, <1>6, <1>7, <1>10, <2>2
    <3>2. valuePos = Len(file)
      BY <1>7, <1>12, <1>14, <3>1
    <3> QED
      BY <1>7, <1>12, <1>15, <3>2
  <2> QED
    BY <2>1, <2>2
<1>30. /\ \A m : Whole(m)' <=> Whole(m)
       /\ \A m : FirstCut(m)' <=> FirstCut(m)
       /\ \A m : LastKey(m)' = LastKey(m)
       /\ \A x, m : MadeFrom(x, m)' <=> MadeFrom(x, m)
  <2>1. \A m : Whole(m)' <=> Whole(m)
    BY <1>4 DEF Whole
  <2>2. \A m : LastKey(m)' = LastKey(m)
    BY <1>4 DEF LastKey
  <2> QED
    BY <1>4, <2>1, <2>2 DEF FirstCut, MadeFrom
<1>31. PICK key \in Seq(Byte) : key = keyBuffer' /\ DOMAIN key = 1 .. i
  BY <1>14
<1>32. ASSUME NEW m \in 1 .. n, FirstCut(m) PROVE MadeFrom(key, m)
  <2>1. CASE m = n
    <3>1. rounds = 0 \/ Whole(rounds)
      BY <1>18, <1>32, <2>1 DEF FirstCut
    <3>2. keyBuffer = LastKey(n)
      BY <1>5, <1>18, <3>1 DEF EntriesLoaded, PlaceRight
    <3>3. entries[n][1] = k
      BY <1>19
    <3>4. ASSUME NEW b \in 1 .. i
          PROVE  \/ key[b] = 0
                 \/ b <= Len(LastKey(n)) /\ key[b] = LastKey(n)[b]
                 \/ b <= Len(entries[n][1]) /\ key[b] = entries[n][1][b]
      BY <1>26, <1>27, <1>31, <3>2, <3>3
    <3> QED
      BY <1>31, <2>1, <3>4 DEF MadeFrom
  <2>2. CASE m # n
    <3>1. m \in 1 .. rounds
      BY <1>7, <1>18, <2>2
    <3>2. MadeFrom(keyBuffer, m)
      BY <1>5, <1>32, <3>1 DEF EntriesLoaded, PlaceRight
    <3>3. ~Whole(rounds)
      <4>1. m \in 0 .. Len(entries) /\ rounds \in 0 .. Len(entries) /\ m <= rounds
        BY <1>6, <1>7, <3>1
      <4> QED
        BY <1>5, <1>32, <4>1, WholeBefore DEF FirstCut
    <3>4. keyPos = Len(file)
      <4>1. Len(file) <= end
        BY <1>7, <1>22, <3>3 DEF Whole, end
      <4> QED
        BY <1>6, <1>7, <1>10, <1>23, <4>1
    <3>5. ASSUME NEW b \in 1 .. i
          PROVE  key[b] = 0 \/ (b <= Len(keyBuffer) /\ key[b] = keyBuffer[b])
      <4>1. ~(keyPos + b <= Len(file))
        BY <1>7, <1>12, <3>4
      <4> QED
        BY <1>27, <1>31, <4>1
    <3>6. \A b \in 1 .. i : b <= Len(keyBuffer) => b \in DOMAIN keyBuffer
      BY <1>5, <1>12
    <3> QED
      BY <1>31, <3>2, <3>5, <3>6 DEF MadeFrom
  <2> QED
    BY <2>1, <2>2
<1>33. PlaceRight'
  <2>1. rounds' = n
    BY <1>1, <1>18
  <2>2. EndOfEntry(n) <= Len(file) => pos' = EndOfEntry(n)
    BY <1>28
  <2>3. Len(file) <= EndOfEntry(n) => pos' = Len(file)
    BY <1>29
  <2>4. ASSUME n = 0 \/ Whole(n) PROVE keyBuffer' = LastKey(n + 1)
    <3>1. n # 0 /\ n + 1 # 1 /\ (n + 1) - 1 = n
      OBVIOUS
    <3>2. LastKey(n + 1) = k
      BY <1>19, <3>1 DEF LastKey
    <3> QED
      BY <1>28, <2>4, <3>1, <3>2 DEF Whole
  <2>5. \A m \in 1 .. n : FirstCut(m) => MadeFrom(key, m)'
    BY <1>30, <1>32
  <2>6. \A m \in 1 .. n : FirstCut(m)' => MadeFrom(keyBuffer, m)'
    BY <1>30, <1>31, <2>5 DEF MadeFrom
  <2> QED
    BY <1>4, <1>30, <2>1, <2>2, <2>3, <2>4, <2>6 DEF PlaceRight
<1>34. TableRight'
  <2>1. PICK value : value = valueBuffer'
    OBVIOUS
  <2>2. memtable_' = Inserted(memtable_, key, value)
    BY <1>1, <1>31, <2>1
  <2>3. TableRight /\ UNCHANGED <<levels, entries, file>>
    BY <1>4, <1>5 DEF EntriesLoaded
  <2>4. CASE Whole(n)
    <3>1. key = entries[n][1] /\ value = entries[n][2]
      BY <1>19, <1>28, <1>31, <2>1, <2>4 DEF Whole
    <3> QED
      BY <1>1, <1>5, <1>7, <1>18, <2>2, <2>3, <2>4, <3>1, InsertKeeps
  <2>5. CASE ~Whole(n)
    <3>1. \E m \in 1 .. n : FirstCut(m)
      BY <2>5, CutBefore
    <3>2. \E m \in 1 .. n : FirstCut(m) /\ MadeFrom(key, m)
      BY <1>32, <3>1
    <3> QED
      BY <1>1, <1>5, <1>7, <1>18, <2>2, <2>3, <2>5, <3>2, InsertKeeps
  <2> QED
    BY <2>4, <2>5
<1>35. EntriesLoaded'
  BY <1>1, <1>4, <1>6, <1>18, <1>33, <1>34 DEF EntriesLoaded
<1>36. LevelsRead'
  BY <1>1, <1>4, <1>5 DEF LevelsRead
<1> QED
  BY <1>1, <1>4, <1>5, <1>17, <1>35, <1>36 DEF SaveInv

LEMMA SaveInvStep == SaveInv /\ [SaveNext]_(saveVars) => SaveInv'
<1> SUFFICES ASSUME SaveInv, [SaveNext]_(saveVars) PROVE SaveInv'
  OBVIOUS
<1>1. CASE WritePart \/ WriteCut \/ Saved
  BY <1>1, WriteKeeps, WriteCutKeeps, SavedKeeps
<1>2. CASE LoadRefused \/ LoadParams \/ LoadLevels
  BY <1>2, LoadRefusedKeeps, LoadParamsKeeps, LoadLevelsKeeps
<1>3. CASE LoadEntry \/ LoadEntryThrows \/ LoadEnd
  BY <1>3, LoadEntryKeeps, LoadEntryThrowsKeeps, LoadEndKeeps
<1>4. CASE UNCHANGED saveVars
  <2>1. /\ UNCHANGED <<levels, entries>> /\ file' = file /\ pc' = pc /\ written' = written
        /\ pos' = pos /\ levels_' = levels_ /\ memtable_' = memtable_ /\ rounds' = rounds
        /\ kv_count' = kv_count /\ keyBuffer' = keyBuffer /\ valueBuffer' = valueBuffer
    BY <1>4 DEF saveVars
  <2>2. /\ Image' = Image /\ Joined' = Joined /\ Writes' = Writes
        /\ Params' = Params /\ TreeSaved'
        /\ \A n : EndOfEntry(n)' = EndOfEntry(n)
    BY <2>1, ImageStays DEF SaveInv
  <2>3. LoadTyped' /\ FileBegun'
    BY <2>1, <2>2 DEF SaveInv, LoadTyped, FileBegun, Begins
  <2>4. LevelsRead => LevelsRead'
    BY <2>1 DEF LevelsRead
  <2>5. EntriesLoaded => EntriesLoaded'
    BY <2>1, EntriesLoadedStays
  <2> QED
    BY <2>1, <2>2, <2>3, <2>4, <2>5 DEF SaveInv
<1> QED
  BY <1>1, <1>2, <1>3, <1>4 DEF SaveNext

LEMMA SavedIsBack == SaveInv => SavedComesBack
<1> SUFFICES ASSUME SaveInv, file = Image
             PROVE  /\ pc # "refused"
                    /\ pc = "loaded" =>
                         /\ levels_ = levels
                         /\ DOMAIN memtable_ = {entries[n][1] : n \in DOMAIN entries}
                         /\ \A n \in DOMAIN entries : AsSaved(n)
  BY DEF SavedComesBack
<1>1. TreeSaved /\ file \in Seq(Byte) /\ Len(file) = Len(Image)
  BY DEF SaveInv, FileBegun
<1>2. Len(file) \in Nat
  BY <1>1
<1>3. pc # "refused"
  BY <1>1, <1>2 DEF SaveInv
<1>4. ASSUME pc = "loaded"
      PROVE  /\ levels_ = levels
             /\ DOMAIN memtable_ = {entries[n][1] : n \in DOMAIN entries}
             /\ \A n \in DOMAIN entries : AsSaved(n)
  <2>1. levels_ = levels /\ TableRight /\ rounds = Len(entries)
    BY <1>1, <1>4 DEF SaveInv, EntriesLoaded
  <2>2. DOMAIN entries = 1 .. rounds /\ rounds \in Nat
    BY <1>1, <2>1, TreeIs
  <2>3. \A n \in 1 .. rounds : Whole(n)
    <3> SUFFICES ASSUME NEW n \in 1 .. rounds PROVE Whole(n)
      OBVIOUS
    <3>1. PICK m \in 0 .. Len(entries) : m = n
      BY <2>1, <2>2
    <3>2. m <= m
      BY <2>2
    <3> QED
      BY <1>1, <3>1, <3>2, EndsGrow DEF Whole
  <2>4. \A key : ~MadeUp(key)
    BY <2>3 DEF MadeUp, FirstCut
  <2>5. \A n \in DOMAIN entries : AsSaved(n)
    BY <2>1, <2>2, <2>3, <2>4 DEF TableRight
  <2>6. \A key \in DOMAIN memtable_ : \E n \in DOMAIN entries : key = entries[n][1]
    BY <2>1, <2>2, <2>4 DEF TableRight
  <2> QED
    BY <2>1, <2>5, <2>6 DEF AsSaved
<1> QED
  BY <1>3, <1>4

LEMMA LevelsAreWithin == SaveInv => LevelsWithinSaved
<1> SUFFICES ASSUME SaveInv, pc \in {"levels", "entries", "loaded"}
             PROVE  /\ Len(levels_) = Len(levels)
                    /\ \A n \in DOMAIN levels : levels_[n] <= levels[n]
  BY DEF LevelsWithinSaved
<1>1. LevelsRead
  BY DEF SaveInv
<1>2. DOMAIN levels = 1 .. Len(levels)
  <2>1. levels \in Seq(Nat)
    BY TreeIs DEF SaveInv
  <2> QED
    BY <2>1
<1> QED
  BY <1>1, <1>2 DEF LevelsRead

LEMMA WholeAreLoaded == SaveInv => WholeEntriesLoaded
BY DEF SaveInv, EntriesLoaded, TableRight, WholeEntriesLoaded

(* A tree that was saved to the end comes back: its levels, its entries,   *)
(* tombstones included, and no other entry, for every tree whose sizes and *)
(* counts fit the words they are saved in.                                 *)
THEOREM SavedTreeComesBack == SaveSpec => []SavedComesBack
BY SaveInvInit, SaveInvStep, SavedIsBack, PTL DEF SaveSpec

(* Wherever the file was cut, no level of a tree that loads counts more    *)
(* components than were saved.                                             *)
THEOREM CutLevelsAreWithin == SaveSpec => []LevelsWithinSaved
BY SaveInvInit, SaveInvStep, LevelsAreWithin, PTL DEF SaveSpec

(* Wherever the file was cut and whatever uninitialised memory holds, an   *)
(* entry that is whole in it is in the memtable as it was saved, unless    *)
(* its key can be made up from the first entry that is cut, the key before *)
(* it and zeros; and no other key is in the memtable but such a one.       *)
THEOREM WholeEntriesAreLoaded == SaveSpec => []WholeEntriesLoaded
BY SaveInvInit, SaveInvStep, WholeAreLoaded, PTL DEF SaveSpec
=============================================================================
