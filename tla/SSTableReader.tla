---------------------------- MODULE SSTableReader ----------------------------
(***************************************************************************)
(* The searches of a table's reader (src/lsm_tree/sstable/                 *)
(* sstable_reader.cpp), probe by probe: Find's binary search, and          *)
(* FindRange's search for its first entry with the scan that follows.      *)
(*                                                                         *)
(* The table is the sequence of its entries, as the index block leads to   *)
(* them (SSTableFile): GetIthKeyToken(i) with GetKeyFromToken is           *)
(* entries[i + 1].  Positions count from 0 as in the code.                 *)
(***************************************************************************)
EXTENDS Integers, Sequences

CONSTANTS
  Key,        \* integers: the order is that of the bytes
  Value,
  Empty,      \* the empty value: a tombstone
  nullopt     \* no entry; and a bound that is absent

VARIABLES
  entries,      \* the table: its keys and entries in the order of the keys
  pc,           \* what the reader does
  request,      \* the arguments of the call
  l, r,         \* the borders of the search; l is then the place of the scan
  accumulated,  \* FindRange: the result so far
  answer        \* Find: its result

vars == <<entries, pc, request, l, r, accumulated, answer>>

Entry == Value \cup {Empty}
Result == [Key -> Value \cup {nullopt}]
Nothing == [k \in Key |-> nullopt]
KeyRange == [lower : Key \cup {nullopt}, including_lower : BOOLEAN,
             upper : Key \cup {nullopt}, including_upper : BOOLEAN]

(* The requests: a key, or a range with what newer calls have to overwrite. *)
FindRequest == [key : Key]
RangeRequest == [range : KeyRange, old : Result]

KeyAt(i) == entries[i + 1][1]
EntryAt(i) == entries[i + 1][2]
kv_count == Len(entries)

----------------------------------------------------------------------------
Sorted(table) == \A i, j \in DOMAIN table : i < j => table[i][1] < table[j][1]

Idle ==
  /\ pc = "idle"
  /\ request = nullopt
  /\ l = 0
  /\ r = 0
  /\ accumulated = Nothing
  /\ answer = nullopt

(* A table has at least one entry. *)
Init == entries \in Seq(Key \X Entry) \ {<<>>} /\ Sorted(entries) /\ Idle

(* MUTANT: the right border is the last entry, not the place behind it. *)
BehindLastShort == kv_count

BehindLast == kv_count + 1

(* Find(key). *)
StartFind(key) ==
  /\ pc = "idle"
  /\ pc' = "find"
  /\ request' = [key |-> key]
  /\ l' = 0
  /\ r' = BehindLast
  /\ UNCHANGED <<entries, accumulated, answer>>

m == (l + r) \div 2

FindLeft ==
  /\ pc = "find"
  /\ l + 1 # r
  /\ request.key < KeyAt(m - 1)
  /\ r' = m
  /\ UNCHANGED <<entries, pc, request, l, accumulated, answer>>

(* MUTANT: the probe stays in the right half. *)
FindRightKeeping ==
  /\ pc = "find"
  /\ l + 1 # r
  /\ request.key > KeyAt(m - 1)
  /\ l' = m - 1
  /\ UNCHANGED <<entries, pc, request, r, accumulated, answer>>

FindRight ==
  /\ pc = "find"
  /\ l + 1 # r
  /\ request.key > KeyAt(m - 1)
  /\ l' = m
  /\ UNCHANGED <<entries, pc, request, r, accumulated, answer>>

(* The entry's value, a tombstone's too. *)
FindHit ==
  /\ pc = "find"
  /\ l + 1 # r
  /\ request.key = KeyAt(m - 1)
  /\ answer' = EntryAt(m - 1)
  /\ pc' = "found"
  /\ UNCHANGED <<entries, request, l, r, accumulated>>

FindMiss ==
  /\ pc = "find"
  /\ l + 1 = r
  /\ answer' = nullopt
  /\ pc' = "found"
  /\ UNCHANGED <<entries, request, l, r, accumulated>>

(* FindRange(range, old): without a lower bound the scan starts at once.   *)
StartFindRange(range, old) ==
  /\ pc = "idle"
  /\ pc' = IF range.lower = nullopt THEN "scan" ELSE "lower"
  /\ request' = [range |-> range, old |-> old]
  /\ l' = 0
  /\ r' = BehindLast
  /\ accumulated' = old
  /\ UNCHANGED <<entries, answer>>

LowerLeft ==
  /\ pc = "lower"
  /\ l + 1 < r
  /\ request.range.lower < KeyAt(m - 1)
  /\ r' = m
  /\ UNCHANGED <<entries, pc, request, l, accumulated, answer>>

LowerRight ==
  /\ pc = "lower"
  /\ l + 1 < r
  /\ request.range.lower > KeyAt(m - 1)
  /\ l' = m
  /\ UNCHANGED <<entries, pc, request, r, accumulated, answer>>

(* MUTANT: the bound itself is scanned although it is excluded. *)
LowerHitIncluding ==
  /\ pc = "lower"
  /\ l + 1 < r
  /\ request.range.lower = KeyAt(m - 1)
  /\ l' = m - 1
  /\ pc' = "scan"
  /\ UNCHANGED <<entries, request, r, accumulated, answer>>

LowerHit ==
  /\ pc = "lower"
  /\ l + 1 < r
  /\ request.range.lower = KeyAt(m - 1)
  /\ l' = IF request.range.including_lower THEN m - 1 ELSE m
  /\ pc' = "scan"
  /\ UNCHANGED <<entries, request, r, accumulated, answer>>

(* l entries are below the bound; the scan starts behind them. *)
LowerMiss ==
  /\ pc = "lower"
  /\ l + 1 >= r
  /\ pc' = "scan"
  /\ UNCHANGED <<entries, request, l, r, accumulated, answer>>

AboveUpper(key, range) ==
  /\ range.upper # nullopt
  /\ IF range.including_upper THEN key > range.upper ELSE key >= range.upper

(* A tombstone erases, a value overwrites what older tables accumulated.   *)
Accumulate(result, k, e) == [result EXCEPT ![k] = IF e = Empty THEN nullopt ELSE e]

ScanEntry ==
  /\ pc = "scan"
  /\ l < kv_count
  /\ ~AboveUpper(KeyAt(l), request.range)
  /\ accumulated' = Accumulate(accumulated, KeyAt(l), EntryAt(l))
  /\ l' = l + 1
  /\ UNCHANGED <<entries, pc, request, r, answer>>

ScanEnd ==
  /\ pc = "scan"
  /\ l < kv_count => AboveUpper(KeyAt(l), request.range)
  /\ pc' = "accumulated"
  /\ UNCHANGED <<entries, request, l, r, accumulated, answer>>

(* The caller takes the result; the reader keeps no state of its own.      *)
Return ==
  /\ pc \in {"found", "accumulated"}
  /\ pc' = "idle"
  /\ request' = nullopt
  /\ l' = 0
  /\ r' = 0
  /\ accumulated' = Nothing
  /\ answer' = nullopt
  /\ UNCHANGED entries

FindStep == FindLeft \/ FindRight \/ FindHit \/ FindMiss
RangeStep == LowerLeft \/ LowerRight \/ LowerHit \/ LowerMiss \/ ScanEntry \/ ScanEnd
Call ==
  \/ \E key \in Key : StartFind(key)
  \/ \E range \in KeyRange, old \in Result : StartFindRange(range, old)

Next == Call \/ FindStep \/ RangeStep \/ Return

(* A call that has begun goes on: its thread is not suspended for ever.    *)
Spec == Init /\ [][Next]_vars /\ WF_vars(FindStep) /\ WF_vars(RangeStep)

----------------------------------------------------------------------------
(* Properties. *)

(* The variables have the types of the code's, a call its arguments, and a *)
(* result holds values, never a tombstone.                                 *)
TypeOK ==
  /\ entries \in Seq(Key \X Entry)
  /\ pc \in {"idle", "find", "found", "lower", "scan", "accumulated"}
  /\ request \in FindRequest \cup RangeRequest \cup {nullopt}
  /\ pc \in {"find", "found"} => request \in FindRequest
  /\ pc \in {"lower", "scan", "accumulated"} => request \in RangeRequest
  /\ pc = "lower" => request.range.lower # nullopt
  /\ l \in Nat /\ r \in Nat
  /\ accumulated \in Result
  /\ answer \in Entry \cup {nullopt}

(* The borders lie between the place before the first entry and the one    *)
(* behind the last, so that every probe is an entry of the table.          *)
ProbesInside ==
  pc \in {"find", "lower"} => l < r /\ r <= BehindLast /\ (l + 1 # r => m \in 1 .. kv_count)

(* Find answers the key's entry, for keys before, between and behind those *)
(* of the table, and nothing exactly if the table has no entry for it.     *)
FindAnswersEntry ==
  pc = "found" =>
    IF answer = nullopt THEN \A i \in DOMAIN entries : entries[i][1] # request.key
    ELSE \E i \in DOMAIN entries : entries[i] = <<request.key, answer>>

AboveLower(key, range) ==
  \/ range.lower = nullopt
  \/ IF range.including_lower THEN key >= range.lower ELSE key > range.lower
InRange(key, range) == AboveLower(key, range) /\ ~AboveUpper(key, range)

(* FindRange has set or erased exactly the table's keys inside the range,  *)
(* whether its bounds are keys of the table or not, included or excluded,  *)
(* and left every other key as the older tables had it.                    *)
FindRangeOverlays ==
  pc = "accumulated" =>
    /\ \A i \in DOMAIN entries :
         InRange(entries[i][1], request.range) =>
           accumulated[entries[i][1]] = IF entries[i][2] = Empty THEN nullopt ELSE entries[i][2]
    /\ \A k \in Key :
         (\A i \in DOMAIN entries : entries[i][1] = k => ~InRange(k, request.range)) =>
           accumulated[k] = request.old[k]

(* Every call returns: Find's loop stops only when its borders meet        *)
(* exactly, so they may not pass each other.                               *)
CallsReturn == pc # "idle" ~> pc \in {"found", "accumulated"}
============================================================================
