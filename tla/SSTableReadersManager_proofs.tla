-------------------- MODULE SSTableReadersManager_proofs --------------------
(***************************************************************************)
(* The invariants of the descriptor cache, for any number of tables, any   *)
(* cache size and any number of descriptors: counts match the live         *)
(* readers, descriptors refer to the files they were opened for, idle ones *)
(* are bounded by the cache size, and only four steps leak.                *)
(***************************************************************************)
EXTENDS SSTableReadersManager, LeastNaturals, FiniteSetTheorems,
        SequenceTheorems, TLAPS

(* open() takes a descriptor that is free. *)
LEMMA LowestIsFree ==
  ASSUME CanOpen
  PROVE  LowestFd \in Fd /\ LowestFd \notin DOMAIN fds
<1> DEFINE Free == Fd \ DOMAIN fds
<1>1. Free \subseteq Nat /\ Free # {}
  BY CacheAssumption DEF CanOpen, Fd
<1> HIDE DEF Free
<1>2. \E n \in Free : \A m \in Free : n <= m
  BY <1>1, LeastNat
<1>3. LowestFd \in Free
  BY <1>2 DEF LowestFd, Free
<1> QED
  BY <1>3 DEF Free

----------------------------------------------------------------------------
(* Numbers of live readers. *)

Among(rs, path) == {i \in DOMAIN rs : rs[i].path = path}

LEMMA ReadersFinite ==
  ASSUME NEW rs \in Seq(Reader), NEW path
  PROVE  /\ IsFiniteSet(Among(rs, path))
         /\ Cardinality(Among(rs, path)) \in Nat
<1>1. DOMAIN rs = 1 .. Len(rs) /\ Len(rs) \in Nat
  OBVIOUS
<1>2. IsFiniteSet(1 .. Len(rs))
  BY <1>1, FS_Interval
<1>3. Among(rs, path) \in SUBSET (1 .. Len(rs))
  BY <1>1 DEF Among
<1>4. IsFiniteSet(Among(rs, path))
  BY <1>2, <1>3, FS_Subset
<1> QED
  BY <1>4, FS_CardinalityType

(* One more reader of its table, ... *)
LEMMA ReaderAppended ==
  ASSUME NEW rs \in Seq(Reader), NEW reader \in Reader, NEW path
  PROVE  Cardinality(Among(Append(rs, reader), path))
           = Cardinality(Among(rs, path)) + IF reader.path = path THEN 1 ELSE 0
<1> DEFINE last == Len(rs) + 1
<1>1. /\ DOMAIN Append(rs, reader) = DOMAIN rs \cup {last}
      /\ last \notin DOMAIN rs
      /\ Append(rs, reader)[last] = reader
      /\ \A i \in DOMAIN rs : Append(rs, reader)[i] = rs[i]
  OBVIOUS
<1> HIDE DEF last
<1>2. CASE reader.path = path
  <2>1. Among(Append(rs, reader), path) = Among(rs, path) \cup {last}
    BY <1>1, <1>2 DEF Among
  <2>2. last \notin Among(rs, path)
    BY <1>1 DEF Among
  <2> QED
    BY <1>2, <2>1, <2>2, ReadersFinite, FS_AddElement
<1>3. CASE reader.path # path
  <2>1. Among(Append(rs, reader), path) = Among(rs, path)
    BY <1>1, <1>3 DEF Among
  <2> QED
    BY <1>3, <2>1, ReadersFinite
<1> QED
  BY <1>2, <1>3

(* ... and one less: the others move up by one. *)
LEMMA ReaderDropped ==
  ASSUME NEW rs \in Seq(Reader), rs # <<>>, NEW path
  PROVE  Cardinality(Among(rs, path))
           = Cardinality(Among(Tail(rs), path)) + IF rs[1].path = path THEN 1 ELSE 0
<1> DEFINE old == Among(rs, path) \ {1}
           new == Among(Tail(rs), path)
           up == [i \in new |-> i + 1]
<1>0. /\ Len(rs) \in Nat \ {0} /\ DOMAIN rs = 1 .. Len(rs) /\ Tail(rs) \in Seq(Reader)
      /\ DOMAIN Tail(rs) = 1 .. Len(rs) - 1
      /\ \A i \in 1 .. Len(rs) - 1 : Tail(rs)[i] = rs[i + 1]
  OBVIOUS
<1>1. up \in Bijection(new, old)
  <2>1. \A i \in new : i + 1 \in old
    BY <1>0 DEF Among
  <2>2. \A j \in old : j - 1 \in new /\ (j - 1) + 1 = j
    BY <1>0 DEF Among
  <2>3. new \subseteq Nat
    BY <1>0 DEF Among
  <2> HIDE DEF new, old
  <2>4. up \in [new -> old]
    BY <2>1
  <2>5. \A i, j \in new : up[i] = up[j] => i = j
    BY <2>3
  <2>6. \A j \in old : \E i \in new : up[i] = j
    BY <2>2
  <2> QED
    BY <2>4, <2>5, <2>6 DEF Bijection, Injection, Surjection, IsInjective
<1>2. IsFiniteSet(new) /\ IsFiniteSet(Among(rs, path)) /\ Cardinality(new) \in Nat
      /\ Cardinality(Among(rs, path)) \in Nat
  BY <1>0, ReadersFinite
<1>3. Cardinality(old) = Cardinality(new)
  <2>1. ExistsBijection(new, old)
    BY <1>1 DEF ExistsBijection
  <2> HIDE DEF new, old
  <2> QED
    BY <1>2, <2>1, FS_Bijection
<1>4. Cardinality(old) = IF rs[1].path = path THEN Cardinality(Among(rs, path)) - 1
                         ELSE Cardinality(Among(rs, path))
  <2>1. 1 \in Among(rs, path) <=> rs[1].path = path
    BY <1>0 DEF Among
  <2> QED
    BY <1>2, <2>1, FS_RemoveElement
<1> HIDE DEF old, new
<1> QED
  BY <1>2, <1>3, <1>4 DEF new

----------------------------------------------------------------------------
(* The inductive invariant. *)

(* Every table of the mapping has a descriptor of its own file. *)
MappedCurrent ==
  \A p \in DOMAIN fd_mapping : fd_mapping[p].fd \in DOMAIN fds /\ fds[fd_mapping[p].fd] = p

(* Until the tables are unlinked, live readers use the mapped descriptors. *)
AllMapped ==
  \A i \in DOMAIN readers :
    readers[i].path \in DOMAIN fd_mapping /\ readers[i].fd = fd_mapping[readers[i].path].fd
ReadersMapped == task \in {"idle", "lookup", "opening", "merge"} => AllMapped

(* The output of a merge is open, and not a descriptor of the mapping. *)
OutputOpen ==
  wfd = -1 \/ (wfd \in DOMAIN fds /\ \A p \in DOMAIN fd_mapping : fd_mapping[p].fd # wfd)

(* When there are readers to destroy, and when there is an output. *)
TaskShape ==
  /\ task \in {"closed", "idle"} <=> readers = <<>> /\ task # "opening"
  /\ wfd # -1 => task \in {"opening", "merge"}

ManagerInv ==
  /\ TypeOK
  /\ CountsMatch
  /\ MappedCurrent
  /\ ReadersMapped
  /\ OutputOpen
  /\ TaskShape
  /\ IdleDescriptorsBounded

LEMMA ManagerInit == Init => ManagerInv
<1> SUFFICES ASSUME Init PROVE ManagerInv
  OBVIOUS
<1>1. TypeOK
  BY DEF Init, TypeOK
<1>2. CountsMatch /\ MappedCurrent /\ ReadersMapped /\ OutputOpen /\ TaskShape
  BY DEF Init, CountsMatch, MappedCurrent, ReadersMapped, AllMapped, OutputOpen, TaskShape
<1>3. IdleDescriptorsBounded
  BY CacheAssumption DEF Init, IdleDescriptorsBounded
<1> QED
  BY <1>1, <1>2, <1>3 DEF ManagerInv

(* Two tables never share a descriptor. *)
LEMMA FdsDistinct ==
  ASSUME MappedCurrent, NEW p \in DOMAIN fd_mapping, NEW q \in DOMAIN fd_mapping, p # q
  PROVE  fd_mapping[p].fd # fd_mapping[q].fd
BY DEF MappedCurrent

----------------------------------------------------------------------------
(* CreateReader. *)

(* What it does to the mapping, the descriptors and the readers. *)
LEMMA CreateReaderDoes ==
  ASSUME TypeOK, NEW path \in Path, CreateReader(path)
  PROVE  /\ DOMAIN fd_mapping' = DOMAIN fd_mapping \cup {path}
         /\ \A p \in DOMAIN fd_mapping : p # path => fd_mapping'[p] = fd_mapping[p]
         /\ path \in DOMAIN fd_mapping =>
              /\ fd_mapping'[path].fd = fd_mapping[path].fd
              /\ fd_mapping'[path].count = fd_mapping[path].count + 1
              /\ fds' = fds
         /\ path \notin DOMAIN fd_mapping =>
              /\ fd_mapping'[path].count = 1
              /\ fd_mapping'[path].fd \notin DOMAIN fds
              /\ DOMAIN fds' = DOMAIN fds \cup {fd_mapping'[path].fd}
              /\ fds'[fd_mapping'[path].fd] = path
              /\ \A n \in DOMAIN fds : fds'[n] = fds[n]
         /\ fd_mapping'[path] \in FdCounter
         /\ readers' = Append(readers, [path |-> path, fd |-> fd_mapping'[path].fd])
<1>1. CASE path \in DOMAIN fd_mapping
  <2>1. /\ fd_mapping' = [fd_mapping EXCEPT ![path].count = @ + 1]
        /\ readers' = Append(readers, [path |-> path, fd |-> fd_mapping[path].fd])
        /\ fds' = fds
    BY <1>1 DEF CreateReader
  <2>2. fd_mapping[path] \in [count : Nat, fd : Fd]
    BY <1>1 DEF TypeOK, FdCounter
  <2>3. /\ DOMAIN fd_mapping' = DOMAIN fd_mapping
        /\ \A p \in DOMAIN fd_mapping : p # path => fd_mapping'[p] = fd_mapping[p]
        /\ fd_mapping'[path] = [fd_mapping[path] EXCEPT !.count = @ + 1]
    BY <1>1, <2>1
  <2>4. /\ fd_mapping'[path].fd = fd_mapping[path].fd
        /\ fd_mapping'[path].count = fd_mapping[path].count + 1
        /\ fd_mapping'[path] \in [count : Nat, fd : Fd]
    BY <2>2, <2>3
  <2>5. DOMAIN fd_mapping \cup {path} = DOMAIN fd_mapping
    BY <1>1
  <2> QED
    BY <1>1, <2>1, <2>3, <2>4, <2>5 DEF FdCounter
<1>2. CASE path \notin DOMAIN fd_mapping
  <2>1. /\ CanOpen
        /\ fd_mapping' = [p \in DOMAIN fd_mapping \cup {path} |->
                            IF p = path THEN [count |-> 1, fd |-> LowestFd] ELSE fd_mapping[p]]
        /\ fds' = Opened(path)
        /\ readers' = Append(readers, [path |-> path, fd |-> LowestFd])
    BY <1>2 DEF CreateReader
  <2>2. LowestFd \in Fd /\ LowestFd \notin DOMAIN fds
    BY <2>1, LowestIsFree
  <2> QED
    BY <1>2, <2>1, <2>2 DEF Opened, FdCounter
<1> QED
  BY <1>1, <1>2

(* It keeps the invariant's parts, when all readers are in the mapping. *)
LEMMA CreateReaderKeeps ==
  ASSUME ManagerInv, AllMapped, NEW path \in Path, CreateReader(path),
         cache_queue' = cache_queue, wfd' = wfd
  PROVE  /\ DOMAIN fd_mapping' \subseteq Path
         /\ \A p \in DOMAIN fd_mapping' : fd_mapping'[p] \in FdCounter
         /\ DOMAIN fds' \subseteq Fd
         /\ \A n \in DOMAIN fds' : fds'[n] \in Path \cup {Deleted, tree_data}
         /\ readers' \in Seq(Reader) /\ readers' # <<>>
         /\ CountsMatch' /\ MappedCurrent' /\ AllMapped' /\ OutputOpen' /\ IdleDescriptorsBounded'
         /\ Leaked' = Leaked
<1> DEFINE reader == [path |-> path, fd |-> fd_mapping'[path].fd]
<1>1. /\ DOMAIN fd_mapping' = DOMAIN fd_mapping \cup {path}
      /\ \A p \in DOMAIN fd_mapping : p # path => fd_mapping'[p] = fd_mapping[p]
      /\ fd_mapping'[path] \in FdCounter
      /\ readers' = Append(readers, reader)
  BY CreateReaderDoes DEF ManagerInv
<1>2. path \in DOMAIN fd_mapping =>
        /\ fd_mapping'[path].fd = fd_mapping[path].fd
        /\ fd_mapping'[path].count = fd_mapping[path].count + 1
        /\ fds' = fds
  BY CreateReaderDoes DEF ManagerInv
<1>3. path \notin DOMAIN fd_mapping =>
        /\ fd_mapping'[path].count = 1
        /\ fd_mapping'[path].fd \notin DOMAIN fds
        /\ DOMAIN fds' = DOMAIN fds \cup {fd_mapping'[path].fd}
        /\ fds'[fd_mapping'[path].fd] = path
        /\ \A n \in DOMAIN fds : fds'[n] = fds[n]
  BY CreateReaderDoes DEF ManagerInv
<1>4. fd_mapping'[path].count \in Nat /\ fd_mapping'[path].fd \in Fd /\ reader \in Reader
  BY <1>1 DEF FdCounter, Reader
<1>5. readers \in Seq(Reader)
  BY DEF ManagerInv, TypeOK
<1> HIDE DEF reader
<1>6. DOMAIN fd_mapping' \subseteq Path /\ \A p \in DOMAIN fd_mapping' : fd_mapping'[p] \in FdCounter
  BY <1>1 DEF ManagerInv, TypeOK
<1>7. DOMAIN fds' \subseteq Fd /\ \A n \in DOMAIN fds' : fds'[n] \in Path \cup {Deleted, tree_data}
  BY <1>2, <1>3, <1>4 DEF ManagerInv, TypeOK
<1>8. readers' \in Seq(Reader) /\ readers' # <<>>
  BY <1>1, <1>4, <1>5
<1>9. CountsMatch'
  <2>1. SUFFICES ASSUME NEW p \in DOMAIN fd_mapping'
                 PROVE  fd_mapping'[p].count = Cardinality(Among(readers', p))
    BY DEF CountsMatch, ReadersOf, Among
  <2>2. Cardinality(Among(readers', p))
          = Cardinality(Among(readers, p)) + IF path = p THEN 1 ELSE 0
    BY <1>1, <1>4, <1>5, ReaderAppended DEF reader
  <2>3. Cardinality(Among(readers, p)) \in Nat
    BY <1>5, ReadersFinite
  <2>4. p \in DOMAIN fd_mapping => fd_mapping[p].count = Cardinality(Among(readers, p))
    BY DEF ManagerInv, CountsMatch, ReadersOf, Among
  <2>5. p \notin DOMAIN fd_mapping => Cardinality(Among(readers, p)) = 0
    <3>1. p \notin DOMAIN fd_mapping => Among(readers, p) = {}
      BY DEF AllMapped, Among
    <3> QED
      BY <3>1, FS_EmptySet
  <2> QED
    BY <1>1, <1>2, <1>3, <2>2, <2>3, <2>4, <2>5
<1>10. MappedCurrent'
  BY <1>1, <1>2, <1>3 DEF ManagerInv, MappedCurrent
<1>11. AllMapped'
  <2> SUFFICES ASSUME NEW i \in DOMAIN readers'
               PROVE  /\ readers'[i].path \in DOMAIN fd_mapping'
                      /\ readers'[i].fd = fd_mapping'[readers'[i].path].fd
    BY DEF AllMapped
  <2>1. CASE i \in DOMAIN readers
    <3>1. readers'[i] = readers[i]
      BY <1>1, <1>5, <2>1
    <3> QED
      BY <1>1, <1>2, <2>1, <3>1 DEF AllMapped
  <2>2. CASE i \notin DOMAIN readers
    <3>1. readers'[i] = reader
      BY <1>1, <1>5, <2>2
    <3> QED
      BY <1>1, <3>1 DEF reader
  <2> QED
    BY <2>1, <2>2
<1>12. OutputOpen'
  BY <1>1, <1>2, <1>3 DEF ManagerInv, OutputOpen
<1>13. IdleDescriptorsBounded'
  <2>1. \A p \in DOMAIN fd_mapping' :
          fd_mapping'[p].count = 0 => p \in DOMAIN fd_mapping /\ fd_mapping[p].count = 0
    <3>1. path \in DOMAIN fd_mapping => fd_mapping[path].count \in Nat
      BY DEF ManagerInv, TypeOK, FdCounter
    <3> QED
      BY <1>1, <1>2, <1>3, <3>1
  <2> QED
    BY <2>1 DEF ManagerInv, IdleDescriptorsBounded
<1>14. Leaked' = Leaked
  BY <1>1, <1>2, <1>3 DEF Leaked
<1> QED
  BY <1>6, <1>7, <1>8, <1>9, <1>10, <1>11, <1>12, <1>13, <1>14

----------------------------------------------------------------------------
(* DecreaseFdCounter. *)

(* How long the rest of a sequence is. *)
LEMMA LengthOfRest ==
  ASSUME NEW n \in Nat, NEW x \in 0 .. n
  PROVE  (IF x + 1 <= n THEN n - (x + 1) + 1 ELSE 0) = n - x
OBVIOUS

(* The queue that eviction keeps is its end, within the cache size. *)
LEMMA KeptQueue ==
  ASSUME NEW queue \in Seq(Path)
  PROVE  /\ Excess(queue) \in 0 .. Len(queue)
         /\ Kept(queue) \in Seq(Path)
         /\ Len(Kept(queue)) <= cache_size
         /\ \A i \in DOMAIN queue : i > Excess(queue) =>
              \E j \in DOMAIN Kept(queue) : Kept(queue)[j] = queue[i]
<1> DEFINE x == Excess(queue)
<1>1. Len(queue) \in Nat /\ cache_size \in Nat /\ DOMAIN queue = 1 .. Len(queue)
  BY CacheAssumption
<1>2. x \in 0 .. Len(queue) /\ Len(queue) - x <= cache_size
  BY <1>1 DEF Excess
<1> HIDE DEF x
<1>3. SubSeq(queue, x + 1, Len(queue)) \in Seq(Path)
      /\ Len(SubSeq(queue, x + 1, Len(queue))) = Len(queue) - x
      /\ \A j \in 1 .. Len(queue) - x : SubSeq(queue, x + 1, Len(queue))[j] = queue[x + j]
  <2> DEFINE kept == SubSeq(queue, x + 1, Len(queue))
  <2>1. x + 1 \in Int /\ Len(queue) \in Int /\ \A i \in x + 1 .. Len(queue) : queue[i] \in Path
    BY <1>1, <1>2
  <2>2. /\ kept \in Seq(Path)
        /\ Len(kept) = IF x + 1 <= Len(queue) THEN Len(queue) - (x + 1) + 1 ELSE 0
        /\ \A j \in 1 .. Len(queue) - (x + 1) + 1 : kept[j] = queue[x + 1 + j - 1]
    BY <2>1, SubSeqProperties
  <2> HIDE DEF kept
  <2>3. Len(kept) = Len(queue) - x
    BY <1>1, <1>2, <2>2, LengthOfRest
  <2>4. ASSUME NEW j \in 1 .. Len(queue) - x PROVE kept[j] = queue[x + j]
    <3>1. j \in 1 .. Len(queue) - (x + 1) + 1 /\ x + 1 + j - 1 = x + j
      BY <1>1, <1>2
    <3> QED
      BY <2>2, <3>1
  <2> QED
    BY <2>2, <2>3, <2>4 DEF kept
<1>4. Kept(queue) = SubSeq(queue, x + 1, Len(queue))
  BY DEF Kept, x
<1>5. ASSUME NEW i \in DOMAIN queue, i > x
      PROVE  \E j \in DOMAIN Kept(queue) : Kept(queue)[j] = queue[i]
  <2>1. i - x \in 1 .. Len(queue) - x /\ x + (i - x) = i
    BY <1>1, <1>2, <1>5
  <2>2. i - x \in DOMAIN Kept(queue) /\ Kept(queue)[i - x] = queue[i]
    BY <1>3, <1>4, <2>1
  <2> QED
    BY <2>2
<1> QED
  BY <1>2, <1>3, <1>4, <1>5 DEF x

LEMMA DecreaseKeeps ==
  ASSUME ManagerInv, readers # <<>>, DecreaseFdCounter(readers[1].path),
         readers' = Tail(readers), wfd' = wfd
  PROVE  /\ DOMAIN fd_mapping' \subseteq Path
         /\ \A p \in DOMAIN fd_mapping' : fd_mapping'[p] \in FdCounter
         /\ cache_queue' \in Seq(Path)
         /\ DOMAIN fds' \subseteq Fd
         /\ \A n \in DOMAIN fds' : fds'[n] \in Path \cup {Deleted, tree_data}
         /\ readers' \in Seq(Reader)
         /\ CountsMatch' /\ MappedCurrent' /\ OutputOpen' /\ IdleDescriptorsBounded'
         /\ Leaked' = Leaked
<1> DEFINE path == readers[1].path
           mapping == [fd_mapping EXCEPT ![path].count = @ - 1]
<1>1. readers \in Seq(Reader) /\ path \in Path /\ Tail(readers) \in Seq(Reader)
  <2>1. readers \in Seq(Reader) /\ Tail(readers) \in Seq(Reader) /\ readers[1] \in Reader
    BY DEF ManagerInv, TypeOK
  <2> QED
    BY <2>1 DEF Reader
<1>2. \A p : Cardinality(Among(readers, p)) \in Nat /\ Cardinality(Among(Tail(readers), p)) \in Nat
  BY <1>1, ReadersFinite
<1>3. \A p : Cardinality(Among(readers, p))
               = Cardinality(Among(Tail(readers), p)) + IF path = p THEN 1 ELSE 0
  BY <1>1, ReaderDropped
<1>9. \A p : path # p => Cardinality(Among(readers, p)) = Cardinality(Among(Tail(readers), p))
  BY <1>2, <1>3
<1>10. Cardinality(Among(readers, path)) = Cardinality(Among(Tail(readers), path)) + 1
  BY <1>2, <1>3
<1>4. \A p \in DOMAIN fd_mapping :
        /\ fd_mapping[p].count = Cardinality(Among(readers, p))
        /\ fd_mapping[p] \in [count : Nat, fd : Fd]
        /\ p \in Path
  BY DEF ManagerInv, CountsMatch, ReadersOf, Among, TypeOK, FdCounter
<1>5. CASE path \notin DOMAIN fd_mapping
  <2>1. UNCHANGED <<fd_mapping, cache_queue, fds>>
    BY <1>5 DEF DecreaseFdCounter
  <2>2. CountsMatch'
    <3>1. SUFFICES ASSUME NEW p \in DOMAIN fd_mapping
                   PROVE  fd_mapping[p].count = Cardinality(Among(Tail(readers), p))
      BY <2>1 DEF CountsMatch, ReadersOf, Among
    <3> HIDE DEF path
    <3> QED
      BY <1>4, <1>5, <1>9
  <2> QED
    BY <1>1, <2>1, <2>2
    DEF ManagerInv, TypeOK, MappedCurrent, OutputOpen, IdleDescriptorsBounded, Leaked
<1>6. ASSUME path \in DOMAIN fd_mapping
      PROVE  /\ DOMAIN mapping = DOMAIN fd_mapping
             /\ \A p \in DOMAIN mapping :
                  /\ mapping[p].fd = fd_mapping[p].fd
                  /\ p # path => mapping[p] = fd_mapping[p]
                  /\ mapping[p].count = Cardinality(Among(Tail(readers), p))
                  /\ mapping[p] \in FdCounter
  <2>1. mapping[path] = [fd_mapping[path] EXCEPT !.count = @ - 1]
    BY <1>6
  <2>2. fd_mapping[path] \in [count : Nat, fd : Fd] /\ fd_mapping[path].count \in Nat \ {0}
    BY <1>2, <1>4, <1>6, <1>10
  <2>3. /\ mapping[path].fd = fd_mapping[path].fd
        /\ mapping[path].count = fd_mapping[path].count - 1
        /\ mapping[path] \in [count : Nat, fd : Fd]
    BY <2>1, <2>2
  <2>4. DOMAIN mapping = DOMAIN fd_mapping
        /\ \A p \in DOMAIN fd_mapping : p # path => mapping[p] = fd_mapping[p]
    OBVIOUS
  <2> HIDE DEF mapping, path
  <2>5. ASSUME NEW p \in DOMAIN fd_mapping
        PROVE  mapping[p].count = Cardinality(Among(Tail(readers), p))
    <3>1. CASE p = path
      <4>1. mapping[path].count = Cardinality(Among(readers, path)) - 1
        BY <1>4, <1>6, <2>3
      <4> QED
        BY <1>2, <1>10, <3>1, <4>1
    <3>2. CASE p # path
      BY <1>4, <1>9, <2>4, <3>2
    <3> QED
      BY <3>1, <3>2
  <2> QED
    BY <1>4, <2>3, <2>4, <2>5 DEF FdCounter
<1>7. CASE path \in DOMAIN fd_mapping /\ mapping[path].count # 0
  <2>1. fd_mapping' = mapping /\ UNCHANGED <<cache_queue, fds>>
    BY <1>7 DEF DecreaseFdCounter
  <2> HIDE DEF mapping
  <2>2. CountsMatch'
    BY <1>6, <1>7, <2>1 DEF CountsMatch, ReadersOf, Among
  <2>3. IdleDescriptorsBounded'
    BY <1>6, <1>7, <2>1 DEF ManagerInv, IdleDescriptorsBounded
  <2>4. MappedCurrent' /\ OutputOpen'
    BY <1>6, <1>7, <2>1 DEF ManagerInv, MappedCurrent, OutputOpen
  <2>5. Leaked' = Leaked
    BY <1>6, <1>7, <2>1 DEF Leaked
  <2>6. DOMAIN fd_mapping' \subseteq Path /\ \A p \in DOMAIN fd_mapping' : fd_mapping'[p] \in FdCounter
    BY <1>4, <1>6, <1>7, <2>1
  <2> QED
    BY <1>1, <2>1, <2>2, <2>3, <2>4, <2>5, <2>6 DEF ManagerInv, TypeOK
<1>8. CASE path \in DOMAIN fd_mapping /\ mapping[path].count = 0
  <2> DEFINE queue == Append(cache_queue, path)
             gone == Evicted(mapping, queue)
  <2>1. /\ cache_queue' = Kept(queue)
        /\ fd_mapping' = [p \in DOMAIN mapping \ gone |-> mapping[p]]
        /\ fds' = Closed({mapping[p].fd : p \in gone})
    BY <1>8 DEF DecreaseFdCounter, TryClearingCache
  <2>2. queue \in Seq(Path) /\ queue[Len(queue)] = path /\ Len(queue) \in DOMAIN queue
        /\ \A i \in DOMAIN cache_queue : i \in DOMAIN queue /\ queue[i] = cache_queue[i]
    BY <1>1 DEF ManagerInv, TypeOK
  <2>3. /\ DOMAIN mapping = DOMAIN fd_mapping
        /\ \A p \in DOMAIN mapping :
             /\ mapping[p].fd = fd_mapping[p].fd
             /\ p # path => mapping[p] = fd_mapping[p]
             /\ mapping[p].count = Cardinality(Among(Tail(readers), p))
             /\ mapping[p] \in FdCounter
    BY <1>6, <1>8
  <2>4. gone \subseteq DOMAIN fd_mapping
        /\ \A p \in DOMAIN mapping \ gone :
             mapping[p].count = 0 => ~ \E i \in 1 .. Excess(queue) : queue[i] = p
    BY <2>3 DEF Evicted
  <2> HIDE DEF mapping, queue, gone
  <2>5. DOMAIN fd_mapping' = DOMAIN fd_mapping \ gone
        /\ \A p \in DOMAIN fd_mapping' : fd_mapping'[p] = mapping[p]
    BY <2>1, <2>3
  <2>6. DOMAIN fds' = DOMAIN fds \ {fd_mapping[p].fd : p \in gone}
        /\ \A n \in DOMAIN fds' : fds'[n] = fds[n]
    BY <2>1, <2>3, <2>4 DEF Closed
  <2>7. CountsMatch'
    BY <2>3, <2>5 DEF CountsMatch, ReadersOf, Among
  <2>8. MappedCurrent'
    <3> SUFFICES ASSUME NEW p \in DOMAIN fd_mapping'
                 PROVE  fd_mapping'[p].fd \in DOMAIN fds' /\ fds'[fd_mapping'[p].fd] = p
      BY DEF MappedCurrent
    <3>1. p \in DOMAIN fd_mapping /\ p \notin gone /\ fd_mapping'[p].fd = fd_mapping[p].fd
      BY <2>3, <2>5
    <3>2. \A q \in gone : fd_mapping[q].fd # fd_mapping[p].fd
      BY <2>4, <3>1, FdsDistinct DEF ManagerInv
    <3> QED
      BY <2>6, <3>1, <3>2 DEF ManagerInv, MappedCurrent
  <2>9. OutputOpen'
    BY <2>3, <2>4, <2>5, <2>6 DEF ManagerInv, OutputOpen
  <2>10. IdleDescriptorsBounded'
    <3>1. /\ Kept(queue) \in Seq(Path) /\ Len(Kept(queue)) <= cache_size
          /\ \A i \in DOMAIN queue : i > Excess(queue) =>
               \E j \in DOMAIN Kept(queue) : Kept(queue)[j] = queue[i]
          /\ Excess(queue) \in 0 .. Len(queue)
      BY <2>2, KeptQueue
    <3>2. ASSUME NEW p \in DOMAIN fd_mapping', fd_mapping'[p].count = 0
          PROVE  \E j \in DOMAIN Kept(queue) : Kept(queue)[j] = p
      <4>1. p \in DOMAIN mapping \ gone /\ mapping[p].count = 0
        BY <2>3, <2>5, <3>2
      <4>2. \E i \in DOMAIN queue : queue[i] = p
        <5>1. CASE p = path
          BY <2>2, <5>1
        <5>2. CASE p # path
          <6>1. p \in DOMAIN fd_mapping /\ fd_mapping[p].count = 0
            BY <2>3, <4>1, <5>2
          <6> QED
            BY <2>2, <6>1 DEF ManagerInv, IdleDescriptorsBounded
        <5> QED
          BY <5>1, <5>2
      <4>3. PICK i \in DOMAIN queue : queue[i] = p
        BY <4>2
      <4>4. i > Excess(queue)
        <5>1. i \notin 1 .. Excess(queue)
          BY <2>4, <4>1, <4>3
        <5>2. i \in 1 .. Len(queue)
          BY <2>2
        <5> QED
          BY <3>1, <5>1, <5>2
      <4> QED
        BY <3>1, <4>3, <4>4
    <3> QED
      BY <2>1, <3>1, <3>2 DEF IdleDescriptorsBounded
  <2>11. Leaked' = Leaked
    <3>1. {fd_mapping'[p].fd : p \in DOMAIN fd_mapping'}
            = {fd_mapping[p].fd : p \in DOMAIN fd_mapping \ gone}
      BY <2>3, <2>5
    <3>2. {fd_mapping[p].fd : p \in DOMAIN fd_mapping}
            = {fd_mapping[p].fd : p \in DOMAIN fd_mapping \ gone} \cup {fd_mapping[p].fd : p \in gone}
      BY <2>4
    <3> QED
      BY <2>6, <3>1, <3>2 DEF Leaked
  <2>12. DOMAIN fd_mapping' \subseteq Path /\ \A p \in DOMAIN fd_mapping' : fd_mapping'[p] \in FdCounter
    BY <1>4, <2>3, <2>5
  <2>13. cache_queue' \in Seq(Path)
    BY <2>1, <2>2, KeptQueue
  <2>14. DOMAIN fds' \subseteq Fd /\ \A n \in DOMAIN fds' : fds'[n] \in Path \cup {Deleted, tree_data}
    BY <2>6 DEF ManagerInv, TypeOK
  <2> QED
    BY <1>1, <2>7, <2>8, <2>9, <2>10, <2>11, <2>12, <2>13, <2>14
<1> QED
  BY <1>5, <1>7, <1>8

----------------------------------------------------------------------------
(* Unlink: the table's own descriptor is closed, no other's. *)
LEMMA UnlinkKeeps ==
  ASSUME ManagerInv, NEW path \in Path, Unlink(path), readers' = readers, wfd' = wfd
  PROVE  /\ DOMAIN fd_mapping' \subseteq Path
         /\ \A p \in DOMAIN fd_mapping' : fd_mapping'[p] \in FdCounter
         /\ DOMAIN fds' \subseteq Fd
         /\ \A n \in DOMAIN fds' : fds'[n] \in Path \cup {Deleted, tree_data}
         /\ CountsMatch' /\ MappedCurrent' /\ OutputOpen' /\ IdleDescriptorsBounded'
         /\ Leaked' = Leaked
<1> DEFINE own == {fd_mapping[p].fd : p \in {path} \cap DOMAIN fd_mapping}
<1>1. /\ DOMAIN fd_mapping' = DOMAIN fd_mapping \ {path}
      /\ \A p \in DOMAIN fd_mapping' : fd_mapping'[p] = fd_mapping[p]
      /\ cache_queue' = cache_queue
  BY DEF Unlink
<1>2. /\ DOMAIN fds' = DOMAIN fds \ own
      /\ \A n \in DOMAIN fds' : fds'[n] = IF fds[n] = path THEN Deleted ELSE fds[n]
  BY DEF Unlink, Orphaned, Closed
<1>3. CountsMatch'
  BY <1>1 DEF ManagerInv, CountsMatch, ReadersOf
<1>4. MappedCurrent'
  <2> SUFFICES ASSUME NEW p \in DOMAIN fd_mapping'
               PROVE  fd_mapping'[p].fd \in DOMAIN fds' /\ fds'[fd_mapping'[p].fd] = p
    BY DEF MappedCurrent
  <2>1. p \in DOMAIN fd_mapping /\ p # path /\ fd_mapping'[p].fd = fd_mapping[p].fd
    BY <1>1
  <2>2. fd_mapping[p].fd \notin own
    BY <2>1, FdsDistinct DEF ManagerInv
  <2>3. fd_mapping[p].fd \in DOMAIN fds /\ fds[fd_mapping[p].fd] = p
    BY <2>1 DEF ManagerInv, MappedCurrent
  <2> HIDE DEF own
  <2> QED
    BY <1>2, <2>1, <2>2, <2>3
<1>5. OutputOpen'
  BY <1>1, <1>2 DEF ManagerInv, OutputOpen
<1>6. IdleDescriptorsBounded'
  BY <1>1 DEF ManagerInv, IdleDescriptorsBounded
<1>7. Leaked' = Leaked
  <2>1. {fd_mapping'[p].fd : p \in DOMAIN fd_mapping'}
          = {fd_mapping[p].fd : p \in DOMAIN fd_mapping \ {path}}
    BY <1>1
  <2>2. {fd_mapping[p].fd : p \in DOMAIN fd_mapping}
          = {fd_mapping[p].fd : p \in DOMAIN fd_mapping \ {path}} \cup own
    OBVIOUS
  <2> HIDE DEF own
  <2> QED
    BY <1>2, <2>1, <2>2 DEF Leaked
<1>8. DOMAIN fd_mapping' \subseteq Path /\ \A p \in DOMAIN fd_mapping' : fd_mapping'[p] \in FdCounter
  BY <1>1 DEF ManagerInv, TypeOK
<1>9. DOMAIN fds' \subseteq Fd /\ \A n \in DOMAIN fds' : fds'[n] \in Path \cup {Deleted, tree_data}
  BY <1>2 DEF ManagerInv, TypeOK
<1> QED
  BY <1>3, <1>4, <1>5, <1>6, <1>7, <1>8, <1>9

----------------------------------------------------------------------------
(* The steps of the tree. *)

(* A merge's output, if it is open, is no descriptor the mapping knows, so *)
(* closing or abandoning it disturbs no table.                             *)
LEMMA OutputNotMapped ==
  ASSUME ManagerInv, NEW p \in DOMAIN fd_mapping
  PROVE  fd_mapping[p].fd # wfd
<1>1. fd_mapping[p].fd \in Nat
  BY DEF ManagerInv, TypeOK, FdCounter, Fd
<1> QED
  BY <1>1 DEF ManagerInv, OutputOpen

LEMMA ManagerStep == ASSUME ManagerInv, [Next]_vars PROVE ManagerInv'
<1> USE DEF ManagerInv
<1>1. ASSUME NEW path \in Path, Flush(path) PROVE ManagerInv'
  BY <1>1 DEF Flush, TypeOK, CountsMatch, ReadersOf, MappedCurrent, ReadersMapped, AllMapped,
              OutputOpen, TaskShape, IdleDescriptorsBounded
<1>2. ASSUME NEW path \in Path, StartLookup(path) PROVE ManagerInv'
  <2>1. AllMapped
    BY <1>2 DEF StartLookup, ReadersMapped
  <2> QED
    BY <1>2, <2>1, CreateReaderKeeps DEF StartLookup, TypeOK, ReadersMapped, TaskShape
<1>3. ASSUME NEW path \in Path, OpenInput(path) PROVE ManagerInv'
  <2>1. AllMapped
    BY <1>3 DEF OpenInput, ReadersMapped
  <2> QED
    BY <1>3, <2>1, CreateReaderKeeps DEF OpenInput, TypeOK, ReadersMapped, TaskShape
<1>4. ASSUME NEW path \in Path, OpenInputThrows(path) PROVE ManagerInv'
  BY <1>4 DEF OpenInputThrows, TypeOK, CountsMatch, ReadersOf, MappedCurrent, ReadersMapped,
              AllMapped, OutputOpen, TaskShape, IdleDescriptorsBounded
<1>5. ASSUME NEW path \in Path, UnlinkInput(path) PROVE ManagerInv'
  <2>1. files' \subseteq Path /\ cache_queue' = cache_queue
    BY <1>5 DEF UnlinkInput, Unlink, TypeOK
  <2> QED
    BY <1>5, <2>1, UnlinkKeeps DEF UnlinkInput, TypeOK, ReadersMapped, TaskShape
<1>6. ASSUME NEW output \in Path, NEW inputs \in SUBSET Path, StartMerge(output, inputs)
      PROVE  ManagerInv'
  <2>1. CountsMatch' /\ IdleDescriptorsBounded' /\ ReadersMapped' /\ TaskShape'
    BY <1>6 DEF StartMerge, CountsMatch, ReadersOf, IdleDescriptorsBounded, ReadersMapped,
                AllMapped, TaskShape
  <2>2. CASE CanOpen
    <3>1. wfd' = LowestFd /\ fds' = Opened(output) /\ files' = files \cup {output}
      BY <1>6, <2>2 DEF StartMerge
    <3>2. LowestFd \in Fd /\ LowestFd \notin DOMAIN fds
      BY <2>2, LowestIsFree
    <3>3. DOMAIN fds' = DOMAIN fds \cup {LowestFd} /\ fds'[LowestFd] = output
          /\ \A n \in DOMAIN fds : fds'[n] = fds[n]
      BY <3>1, <3>2 DEF Opened
    <3>4. TypeOK'
      BY <1>6, <3>1, <3>2, <3>3 DEF StartMerge, TypeOK
    <3>5. MappedCurrent' /\ OutputOpen'
      BY <1>6, <3>1, <3>2, <3>3 DEF StartMerge, MappedCurrent, OutputOpen
    <3> QED
      BY <2>1, <3>4, <3>5
  <2>3. CASE ~CanOpen
    <3>1. UNCHANGED <<wfd, fds, files, fd_mapping, cache_queue, readers>>
      BY <1>6, <2>3 DEF StartMerge
    <3> QED
      BY <1>6, <2>1, <3>1 DEF StartMerge, TypeOK, MappedCurrent, OutputOpen
  <2> QED
    BY <2>2, <2>3
<1>7. CASE EndLookup
  BY <1>7 DEF EndLookup, TypeOK, CountsMatch, ReadersOf, MappedCurrent, ReadersMapped, AllMapped,
              OutputOpen, TaskShape, IdleDescriptorsBounded
<1>8. {readers[i].path : i \in DOMAIN readers} \subseteq Path
  <2>1. \A i \in DOMAIN readers : readers[i] \in Reader
    BY DEF TypeOK
  <2> QED
    BY <2>1 DEF Reader
<1>9. CASE MergeDone
  <2>1. DOMAIN fds' = DOMAIN fds \ {wfd} /\ \A n \in DOMAIN fds' : fds'[n] = fds[n]
    BY <1>9 DEF MergeDone, Closed
  <2>2. MappedCurrent'
    BY <1>9, <2>1, OutputNotMapped DEF MergeDone, MappedCurrent
  <2>3. TypeOK'
    BY <1>8, <1>9, <2>1 DEF MergeDone, TypeOK
  <2>4. CountsMatch' /\ ReadersMapped' /\ OutputOpen' /\ TaskShape' /\ IdleDescriptorsBounded'
    BY <1>9
    DEF MergeDone, CountsMatch, ReadersOf, ReadersMapped, OutputOpen, TaskShape,
        IdleDescriptorsBounded
  <2> QED
    BY <2>2, <2>3, <2>4
<1>10. CASE MergeNothing
  <2>1. TypeOK'
    BY <1>8, <1>10 DEF MergeNothing, TypeOK
  <2>2. CountsMatch' /\ MappedCurrent' /\ ReadersMapped' /\ OutputOpen' /\ TaskShape'
        /\ IdleDescriptorsBounded'
    BY <1>10
    DEF MergeNothing, CountsMatch, ReadersOf, MappedCurrent, ReadersMapped, OutputOpen,
        TaskShape, IdleDescriptorsBounded
  <2> QED
    BY <2>1, <2>2
<1>11. CASE DestroyReader
  <2>1. readers # <<>> /\ DecreaseFdCounter(readers[1].path) /\ readers' = Tail(readers)
        /\ wfd' = wfd /\ files' = files /\ pending' = pending
    BY <1>11 DEF DestroyReader, TaskShape
  <2>2. /\ DOMAIN fd_mapping' \subseteq Path
        /\ \A p \in DOMAIN fd_mapping' : fd_mapping'[p] \in FdCounter
        /\ cache_queue' \in Seq(Path)
        /\ DOMAIN fds' \subseteq Fd
        /\ \A n \in DOMAIN fds' : fds'[n] \in Path \cup {Deleted, tree_data}
        /\ readers' \in Seq(Reader)
        /\ CountsMatch' /\ MappedCurrent' /\ OutputOpen' /\ IdleDescriptorsBounded'
    BY <2>1, DecreaseKeeps
  <2>3. task' = (IF readers' = <<>> THEN "idle" ELSE "release")
    BY <1>11 DEF DestroyReader
  <2>4. TypeOK'
    BY <2>1, <2>2, <2>3 DEF TypeOK
  <2>5. ReadersMapped' /\ TaskShape'
    BY <1>11, <2>1, <2>2, <2>3 DEF DestroyReader, ReadersMapped, AllMapped, TaskShape
  <2> QED
    BY <2>2, <2>4, <2>5
<1>12. CASE DestroyTree
  <2>1. /\ task = "idle" /\ task' = "closed" /\ DOMAIN fd_mapping' = {} /\ cache_queue' = <<>>
        /\ UNCHANGED <<files, fds, readers, wfd, pending>>
    BY <1>12 DEF DestroyTree
  <2>2. TypeOK'
    BY <2>1 DEF TypeOK
  <2>3. IdleDescriptorsBounded'
    BY <2>1, CacheAssumption DEF IdleDescriptorsBounded
  <2>4. CountsMatch' /\ MappedCurrent' /\ ReadersMapped' /\ OutputOpen' /\ TaskShape'
    BY <2>1 DEF CountsMatch, MappedCurrent, ReadersMapped, AllMapped, OutputOpen, TaskShape
  <2> QED
    BY <2>2, <2>3, <2>4
<1>13. CASE CreateTree \/ LoadTree
  <2>1. task' = "idle" /\ task = "closed"
        /\ UNCHANGED <<fd_mapping, cache_queue, files, fds, readers, wfd, pending>>
    BY <1>13 DEF CreateTree, LoadTree
  <2> QED
    BY <2>1 DEF TypeOK, CountsMatch, ReadersOf, MappedCurrent, ReadersMapped, AllMapped, OutputOpen,
                TaskShape, IdleDescriptorsBounded
<1>14. CASE LoadTreeThrows
  <2>1. LowestFd \in Fd /\ LowestFd \notin DOMAIN fds
    BY <1>14, LowestIsFree DEF LoadTreeThrows
  <2>2. UNCHANGED <<fd_mapping, cache_queue, files, readers, wfd, task, pending>>
        /\ DOMAIN fds' = DOMAIN fds \cup {LowestFd} /\ fds'[LowestFd] = tree_data
        /\ \A n \in DOMAIN fds : fds'[n] = fds[n]
    BY <1>14, <2>1 DEF LoadTreeThrows, Opened
  <2>3. TypeOK'
    BY <2>1, <2>2 DEF TypeOK
  <2>4. MappedCurrent' /\ OutputOpen'
    BY <2>1, <2>2 DEF MappedCurrent, OutputOpen
  <2>5. CountsMatch' /\ ReadersMapped' /\ TaskShape' /\ IdleDescriptorsBounded'
    BY <2>2 DEF CountsMatch, ReadersOf, ReadersMapped, AllMapped, TaskShape, IdleDescriptorsBounded
  <2> QED
    BY <2>3, <2>4, <2>5
<1>15. CASE UNCHANGED vars
  BY <1>15 DEF vars, TypeOK, CountsMatch, ReadersOf, MappedCurrent, ReadersMapped, AllMapped,
               OutputOpen, TaskShape, IdleDescriptorsBounded
<1> QED
  BY <1>1, <1>2, <1>3, <1>4, <1>5, <1>6, <1>7, <1>9, <1>10, <1>11, <1>12, <1>13,
     <1>14, <1>15
  DEF Next, LookupThrows, LoadTreeCannotOpen

----------------------------------------------------------------------------
(* Leaks. *)

(* A descriptor that is closed was known before the step. *)
LEMMA LeaksStep ==
  ASSUME ManagerInv, Next, Leaked' # Leaked
  PROVE  /\ Leaked \subseteq Leaked'
         /\ \/ MergeNothing
            \/ DestroyTree
            \/ LoadTreeThrows
            \/ \E path \in Path : OpenInputThrows(path)
<1>1. ASSUME NEW path \in Path, Flush(path) \/ LookupThrows(path) PROVE Leaked' = Leaked
  BY <1>1 DEF Flush, LookupThrows, Leaked, vars
<1>2. ASSUME NEW path \in Path, StartLookup(path) \/ OpenInput(path) PROVE Leaked' = Leaked
  <2>1. AllMapped
    BY <1>2 DEF StartLookup, OpenInput, ManagerInv, ReadersMapped
  <2> QED
    BY <1>2, <2>1, CreateReaderKeeps DEF StartLookup, OpenInput
<1>3. ASSUME NEW path \in Path, UnlinkInput(path) PROVE Leaked' = Leaked
  BY <1>3, UnlinkKeeps DEF UnlinkInput
<1>4. ASSUME NEW output \in Path, NEW inputs \in SUBSET Path, StartMerge(output, inputs)
      PROVE  Leaked' = Leaked
  <2>1. wfd = -1 /\ fd_mapping' = fd_mapping /\ -1 \notin DOMAIN fds
    BY <1>4 DEF StartMerge, ManagerInv, TaskShape, TypeOK, Fd
  <2>2. CASE CanOpen
    <3>1. wfd' = LowestFd /\ fds' = Opened(output)
      BY <1>4, <2>2 DEF StartMerge
    <3>2. LowestFd \notin DOMAIN fds
      BY <2>2, LowestIsFree
    <3>3. DOMAIN fds' = DOMAIN fds \cup {LowestFd}
      BY <3>1 DEF Opened
    <3> QED
      BY <2>1, <3>1, <3>2, <3>3 DEF Leaked
  <2>3. CASE ~CanOpen
    BY <1>4, <2>1, <2>3 DEF StartMerge, Leaked
  <2> QED
    BY <2>2, <2>3
<1>5. CASE EndLookup
  BY <1>5 DEF EndLookup, Leaked
<1>6. CASE MergeDone
  <2>1. DOMAIN fds' = DOMAIN fds \ {wfd} /\ wfd' = -1 /\ fd_mapping' = fd_mapping
        /\ -1 \notin DOMAIN fds
    BY <1>6 DEF MergeDone, Closed, ManagerInv, TypeOK, Fd
  <2> QED
    BY <2>1 DEF Leaked
<1>7. CASE DestroyReader
  <2>1. readers # <<>>
    BY <1>7 DEF DestroyReader, ManagerInv, TaskShape
  <2> QED
    BY <1>7, <2>1, DecreaseKeeps DEF DestroyReader
<1>8. CASE MergeNothing
  <2>1. fds' = fds /\ fd_mapping' = fd_mapping /\ wfd' = -1 /\ -1 \notin DOMAIN fds
    BY <1>8 DEF MergeNothing, ManagerInv, TypeOK, Fd
  <2> QED
    BY <1>8, <2>1 DEF Leaked
<1>9. ASSUME NEW path \in Path, OpenInputThrows(path) PROVE Leaked \subseteq Leaked'
  <2>1. fds' = fds /\ fd_mapping' = fd_mapping /\ wfd' = -1 /\ -1 \notin DOMAIN fds
    BY <1>9 DEF OpenInputThrows, ManagerInv, TypeOK, Fd
  <2> QED
    BY <2>1 DEF Leaked
<1>10. CASE DestroyTree
  <2>1. fds' = fds /\ wfd' = wfd /\ DOMAIN fd_mapping' = {}
    BY <1>10 DEF DestroyTree
  <2> QED
    BY <1>10, <2>1 DEF Leaked
<1>11. CASE CreateTree \/ LoadTree \/ LoadTreeCannotOpen
  BY <1>11 DEF CreateTree, LoadTree, LoadTreeCannotOpen, vars, Leaked
<1>12. CASE LoadTreeThrows
  <2>1. DOMAIN fds' = DOMAIN fds \cup {LowestFd}
    BY <1>12 DEF LoadTreeThrows, Opened
  <2> QED
    BY <1>12, <2>1 DEF LoadTreeThrows, Leaked
<1> QED
  BY <1>1, <1>2, <1>3, <1>4, <1>5, <1>6, <1>7, <1>8, <1>9, <1>10, <1>11, <1>12 DEF Next

----------------------------------------------------------------------------
(* In every reachable state of the cache, for any number of tables and     *)
(* descriptors and any cache size, the variables have their types.         *)
THEOREM ManagerTypeCorrect == Spec => []TypeOK
<1>1. ManagerInv => TypeOK
  BY DEF ManagerInv
<1>2. ManagerInv /\ [Next]_vars => ManagerInv'
  BY ManagerStep
<1> QED
  BY <1>1, <1>2, ManagerInit, PTL DEF Spec

(* A table's count is always the number of its live readers. *)
THEOREM CountsAlwaysMatch == Spec => []CountsMatch
<1>1. ManagerInv => CountsMatch
  BY DEF ManagerInv
<1>2. ManagerInv /\ [Next]_vars => ManagerInv'
  BY ManagerStep
<1> QED
  BY <1>1, <1>2, ManagerInit, PTL DEF Spec

(* As long as the tree reads, no reader's descriptor is closed or refers   *)
(* to another file.                                                        *)
THEOREM DescriptorsAlwaysCurrent == Spec => []DescriptorsCurrent
<1>1. ManagerInv => DescriptorsCurrent
  BY DEF ManagerInv, DescriptorsCurrent, MappedCurrent, ReadersMapped, AllMapped
<1>2. ManagerInv /\ [Next]_vars => ManagerInv'
  BY ManagerStep
<1> QED
  BY <1>1, <1>2, ManagerInit, PTL DEF Spec

(* Eviction bounds the idle descriptors by the cache size, and finds all.  *)
THEOREM IdleAlwaysBounded == Spec => []IdleDescriptorsBounded
<1>1. ManagerInv => IdleDescriptorsBounded
  BY DEF ManagerInv
<1>2. ManagerInv /\ [Next]_vars => ManagerInv'
  BY ManagerStep
<1> QED
  BY <1>1, <1>2, ManagerInit, PTL DEF Spec

(* No step but a merge that throws or writes nothing, the end of a tree,   *)
(* and a load that throws leaks a descriptor.                              *)
THEOREM OnlyFourStepsLeak == Spec => LeaksOnlyThere
<1>1. ASSUME ManagerInv, [Next]_vars
      PROVE  [Leaked' # Leaked =>
                /\ Leaked \subseteq Leaked'
                /\ \/ MergeNothing
                   \/ DestroyTree
                   \/ LoadTreeThrows
                   \/ \E path \in Path : OpenInputThrows(path)]_vars
  BY <1>1, LeaksStep
<1>2. ManagerInv /\ [Next]_vars => ManagerInv'
  BY ManagerStep
<1> QED
  BY <1>1, <1>2, ManagerInit, PTL DEF Spec, LeaksOnlyThere

=============================================================================
