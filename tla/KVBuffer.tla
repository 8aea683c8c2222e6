------------------------------ MODULE KVBuffer ------------------------------
(***************************************************************************)
(* The memory behind the memtable (src/lsm_tree/memtable/skip_list/        *)
(* kvbuffer.cpp): a vector of slices of slice_size bytes into which keys   *)
(* and values are appended and from which they are read by their offset,   *)
(* across the slices' borders; with the two operations of the skip list    *)
(* that use it, WriteToNode and Compare.                                   *)
(*                                                                         *)
(* A slice is the sequence of the bytes written to it, a byte an integer.  *)
(* Offsets and slice numbers count from 0 as in the code.                  *)
(***************************************************************************)
EXTENDS Integers, Sequences, FiniteSetsExt

CONSTANTS
  Key, Value,     \* sequences of bytes; the empty value is a tombstone
  slice_size      \* slice_size_

ASSUME SliceAssumption == slice_size \in Nat \ {0}

(* The tests' keys have at least one byte. *)
ASSUME BytesAssumption == Key \subseteq Seq(Nat) \ {<<>>} /\ Value \subseteq Seq(Nat)

VARIABLES
  slices,   \* slices_: in order, each with the bytes up to its size
  nodes     \* the entries written since the last Clear, oldest first

vars == <<slices, nodes>>

Node == [key_offset : Nat, key : Key, value : Value]

----------------------------------------------------------------------------
(* Append. *)

Back(sl) == sl[Len(sl)]
Room(sl) == slice_size - Len(Back(sl))
Slice(sl, i) == sl[i + 1]

(* The pieces of bytes that go to slices of their own. *)
Pieces(bytes) ==
  [n \in 1 .. (Len(bytes) + slice_size - 1) \div slice_size |->
     SubSeq(bytes, (n - 1) * slice_size + 1, Min({n * slice_size, Len(bytes)}))]

(* The last slice is filled up, the rest goes to new ones. *)
Filled(sl, bytes) ==
  [sl EXCEPT ![Len(sl)] = @ \o SubSeq(bytes, 1, Min({Room(sl), Len(bytes)}))]
Appended(sl, bytes) ==
  Filled(sl, bytes) \o Pieces(SubSeq(bytes, Room(sl) + 1, Len(bytes)))

(* A malloc fails: the new slices are deleted, the last old one stays      *)
(* filled up with bytes nobody will read.                                  *)
AppendCanFail(sl, bytes) == Len(bytes) > Room(sl)
FailedAppend(sl, bytes) == Filled(sl, bytes)

----------------------------------------------------------------------------
(* Reading. *)

GetTotalKVSizeInBytes(sl) == (Len(sl) - 1) * slice_size + Len(Back(sl))

(* The parts of [offset, offset + size): in the slice of offset, in the    *)
(* full slices between, and in the slice where it ends.                    *)
First(offset) == offset \div slice_size
Final(offset, size) == (offset + size) \div slice_size
InFirst(offset, size) == Min({size, slice_size - (offset % slice_size)})
InFinal(offset, size) ==
  size - InFirst(offset, size)
       - Max({0, Final(offset, size) - First(offset) - 1}) * slice_size

(* The first n bytes of a slice from place rem on. *)
Bytes(i, rem, n) == IF n = 0 THEN <<>> ELSE SubSeq(Slice(slices, i), rem + 1, rem + n)

(* The full slices that are copied whole. *)
MiddleBytes(offset, size) == 1 .. (Final(offset, size) - First(offset) - 1) * slice_size

(* MUTANT: the loop does not advance to the next slice, as in Compare. *)
MiddleSlicesStuck(offset, size) ==
  [b \in MiddleBytes(offset, size) |->
     Slice(slices, First(offset) + 1)[((b - 1) % slice_size) + 1]]

MiddleSlices(offset, size) ==
  [b \in MiddleBytes(offset, size) |->
     Slice(slices, First(offset) + 1 + ((b - 1) \div slice_size))[((b - 1) % slice_size) + 1]]

(* Write, and WriteToFd: the bytes they hand on. *)
Write(offset, size) ==
  Bytes(First(offset), offset % slice_size, InFirst(offset, size))
    \o MiddleSlices(offset, size)
    \o Bytes(Final(offset, size), 0, InFinal(offset, size))

(* memcmp on sequences of equal length. *)
Differ(s, t) == {n \in DOMAIN s \cap DOMAIN t : s[n] # t[n]}
Memcmp(s, t) ==
  IF Differ(s, t) = {} THEN 0
  ELSE LET n == Min(Differ(s, t)) IN IF s[n] < t[n] THEN -1 ELSE 1

Beyond(s, n) == SubSeq(s, n + 1, Len(s))

(* Compare's loop over the full slices never advances i: it compares the   *)
(* rest of lhs with one slice again and again until they differ, at the    *)
(* latest on what lies behind the end of lhs.                              *)
StuckCompare(rest, slice) ==
  LET res == Memcmp(rest, [n \in 1 .. Len(rest) |-> slice[((n - 1) % slice_size) + 1]])
  IN  IF res = 0 THEN {-1, 1} ELSE {res}

(* The results that Compare(lhs, offset, size) may have. *)
CompareResults(lhs, offset, size) ==
  LET first == InFirst(offset, size)
      res   == Memcmp(SubSeq(lhs, 1, first),
                      Bytes(First(offset), offset % slice_size, first))
  IN  IF res # 0 THEN {res}
      ELSE IF First(offset) + 1 < Final(offset, size)
      THEN StuckCompare(Beyond(lhs, first), Slice(slices, First(offset) + 1))
      ELSE {Memcmp(SubSeq(Beyond(lhs, first), 1, size - first),
                   Bytes(Final(offset, size), 0, size - first))}

Sign(n) == IF n < 0 THEN -1 ELSE IF n > 0 THEN 1 ELSE 0

(* MUTANT: a key and its prefix are taken for equal. *)
SkipListCompareOfPrefix(node, key) ==
  CompareResults(key, node.key_offset, Min({Len(key), Len(node.key)}))

(* SkipList::Compare: the common length first, then the shorter key. *)
SkipListCompare(node, key) ==
  {IF res # 0 THEN res ELSE Sign(Len(key) - Len(node.key)) :
     res \in CompareResults(key, node.key_offset, Min({Len(key), Len(node.key)}))}

----------------------------------------------------------------------------
(* The operations. *)

Init ==
  /\ slices = <<<<>>>>
  /\ nodes = <<>>

(* SkipList::WriteToNode: the key, then the value behind it. *)
WriteToNode(key, value) ==
  /\ slices' = Appended(Appended(slices, key), value)
  /\ nodes' = Append(nodes, [key_offset |-> GetTotalKVSizeInBytes(slices),
                             key |-> key, value |-> value])

(* One of the two appends cannot allocate: the node is not usable. *)
WriteToNodeThrows(key, value) ==
  /\ \/ /\ AppendCanFail(slices, key)
        /\ slices' = FailedAppend(slices, key)
     \/ /\ AppendCanFail(Appended(slices, key), value)
        /\ slices' = FailedAppend(Appended(slices, key), value)
  /\ UNCHANGED nodes

(* Every slice stays, empty; appending goes on in the last one. *)
Clear ==
  /\ slices' = [i \in DOMAIN slices |-> <<>>]
  /\ nodes' = <<>>

Next ==
  \/ Clear
  \/ \E key \in Key, value \in Value : WriteToNode(key, value) \/ WriteToNodeThrows(key, value)

Spec == Init /\ [][Next]_vars

----------------------------------------------------------------------------
(* Properties. *)

(* There is always a slice to append to, no slice is longer than its       *)
(* allocation, and offsets are naturals.                                   *)
TypeOK ==
  /\ slices # <<>>
  /\ \A i \in DOMAIN slices : slices[i] \in Seq(Nat) /\ Len(slices[i]) <= slice_size
  /\ nodes \in Seq(Node)

(* Whatever was appended, cleared or has failed before, every entry since  *)
(* the last Clear reads back byte for byte over all slice borders: its     *)
(* key, its value, and both at once as the flush writes them.              *)
ReadsBack ==
  \A n \in DOMAIN nodes :
    LET node == nodes[n]
        size == Len(node.key)
    IN  /\ Write(node.key_offset, size) = node.key
        /\ node.value # <<>> => Write(node.key_offset + size, Len(node.value)) = node.value
        /\ Write(node.key_offset, size + Len(node.value)) = node.key \o node.value

(* What std::map's order says of two keys. *)
LexCompare(s, t) ==
  IF Memcmp(s, t) # 0 THEN Memcmp(s, t) ELSE Sign(Len(s) - Len(t))

(* Comparing a key with a stored one, wherever the slice borders cut it,   *)
(* gives their lexicographic order and nothing else.                       *)
CompareIsLexicographic ==
  \A n \in DOMAIN nodes, key \in Key :
    SkipListCompare(nodes[n], key) = {LexCompare(key, nodes[n].key)}

(* A key that was inserted is found: a stored key compares equal to itself. *)
StoredKeyIsFound ==
  \A n \in DOMAIN nodes : SkipListCompare(nodes[n], nodes[n].key) = {0}
=============================================================================
