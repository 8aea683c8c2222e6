----------------------- MODULE SSTableReadersManager -----------------------
(***************************************************************************)
(* The cache of file descriptors behind the table readers                  *)
(* (src/lsm_tree/sstable/sstable_reader.cpp), driven the way the tree      *)
(* drives it: a lookup holds one reader at a time, a merge holds the       *)
(* output's descriptor and a reader of every input, and unlinks the inputs *)
(* before its readers are destroyed.  The mutex of the tree admits one     *)
(* operation at a time; here its steps are visible one by one.  One tree   *)
(* follows another in the process, built anew or loaded.  That memory runs *)
(* out in an operation is left out.                                        *)
(*                                                                         *)
(* Descriptors are numbers and open() takes the lowest free one, as POSIX  *)
(* says, so a descriptor closed too early is soon another file's.          *)
(***************************************************************************)
EXTENDS Integers, Sequences, FiniteSets

CONSTANTS
  Path,        \* the names of tables
  Deleted,     \* what a descriptor refers to once its file is unlinked
  tree_data,   \* the name of the tree's own file
  cache_size,  \* cache_size_: idle descriptors that are kept open
  OpenMax      \* descriptors the process may have open

ASSUME CacheAssumption ==
  /\ Deleted \notin Path /\ tree_data \notin Path \cup {Deleted}
  /\ cache_size \in Nat
  /\ OpenMax \in Nat

VARIABLES
  fd_mapping,   \* fd_mapping_: the open tables, with count and descriptor
  cache_queue,  \* cache_queue_: paths in the order their count became 0
  files,        \* the names of tables in the directory
  fds,          \* what every open descriptor of the process refers to
  readers,      \* the live SSTableReaders, oldest first
  wfd,          \* the output of the running merge, or -1
  task,         \* what the tree is doing; "closed" if there is none
  pending       \* tables the merge has yet to open, or to unlink

vars == <<fd_mapping, cache_queue, files, fds, readers, wfd, task, pending>>

Fd == 0 .. OpenMax - 1
FdCounter == [count : Nat, fd : Fd]
Reader == [path : Path, fd : Fd]

----------------------------------------------------------------------------
(* The operating system. *)

CanOpen == Fd \ DOMAIN fds # {}
LowestFd == CHOOSE n \in Fd \ DOMAIN fds : \A m \in Fd \ DOMAIN fds : n <= m
Opened(path) == [n \in DOMAIN fds \cup {LowestFd} |-> IF n = LowestFd THEN path ELSE fds[n]]
Closed(fdset) == [n \in DOMAIN fds \ fdset |-> fds[n]]

----------------------------------------------------------------------------
(* The operations of the manager. *)

(* MUTANT: the count of a table that is open already stays. *)
CreateReaderUncounted(path) ==
  \/ /\ path \in DOMAIN fd_mapping
     /\ readers' = Append(readers, [path |-> path, fd |-> fd_mapping[path].fd])
     /\ UNCHANGED <<fd_mapping, fds>>
  \/ /\ path \in files \ DOMAIN fd_mapping
     /\ CanOpen
     /\ fd_mapping' = [p \in DOMAIN fd_mapping \cup {path} |->
                         IF p = path THEN [count |-> 1, fd |-> LowestFd] ELSE fd_mapping[p]]
     /\ fds' = Opened(path)
     /\ readers' = Append(readers, [path |-> path, fd |-> LowestFd])

CreateReader(path) ==
  \/ /\ path \in DOMAIN fd_mapping
     /\ fd_mapping' = [fd_mapping EXCEPT ![path].count = @ + 1]
     /\ readers' = Append(readers, [path |-> path, fd |-> fd_mapping[path].fd])
     /\ UNCHANGED fds
  \/ /\ path \in files \ DOMAIN fd_mapping
     /\ CanOpen
     /\ fd_mapping' = [p \in DOMAIN fd_mapping \cup {path} |->
                         IF p = path THEN [count |-> 1, fd |-> LowestFd] ELSE fd_mapping[p]]
     /\ fds' = Opened(path)
     /\ readers' = Append(readers, [path |-> path, fd |-> LowestFd])

CreateReaderThrows(path) ==
  /\ path \notin DOMAIN fd_mapping
  /\ path \in files => ~CanOpen

(* MUTANT: the size that is compared is the one before the push. *)
ExcessBeforePush(queue) == IF Len(queue) > cache_size + 1 THEN Len(queue) - cache_size - 1 ELSE 0

(* TryClearingCache: the oldest entries beyond cache_size_ leave the       *)
(* queue; those of them that are idle in this mapping are closed.          *)
Excess(queue) == IF Len(queue) > cache_size THEN Len(queue) - cache_size ELSE 0
Kept(queue) == SubSeq(queue, Excess(queue) + 1, Len(queue))

Evicted(mapping, queue) ==
  {p \in DOMAIN mapping : mapping[p].count = 0 /\ \E i \in 1 .. Excess(queue) : queue[i] = p}

TryClearingCache(mapping, queue) ==
  /\ cache_queue' = Kept(queue)
  /\ fd_mapping' = [p \in DOMAIN mapping \ Evicted(mapping, queue) |-> mapping[p]]
  /\ fds' = Closed({mapping[p].fd : p \in Evicted(mapping, queue)})

DecreaseFdCounter(path) ==
  LET mapping == [fd_mapping EXCEPT ![path].count = @ - 1]
  IN  \/ /\ path \notin DOMAIN fd_mapping
         /\ UNCHANGED <<fd_mapping, cache_queue, fds>>
      \/ /\ path \in DOMAIN fd_mapping
         /\ mapping[path].count # 0
         /\ fd_mapping' = mapping
         /\ UNCHANGED <<cache_queue, fds>>
      \/ /\ path \in DOMAIN fd_mapping
         /\ mapping[path].count = 0
         /\ TryClearingCache(mapping, Append(cache_queue, path))

(* The descriptors of an unlinked file keep it alive without a name. *)
Orphaned(map, path) == [n \in DOMAIN map |-> IF map[n] = path THEN Deleted ELSE map[n]]

(* MUTANTS: the descriptor is closed, or the entry erased, but not both.   *)
UnlinkKeepingEntry(path) ==
  /\ fds' = Orphaned(Closed({fd_mapping[p].fd : p \in {path} \cap DOMAIN fd_mapping}), path)
  /\ files' = files \ {path}
  /\ UNCHANGED <<fd_mapping, cache_queue>>
UnlinkKeepingFd(path) ==
  /\ fds' = Orphaned(fds, path)
  /\ fd_mapping' = [p \in DOMAIN fd_mapping \ {path} |-> fd_mapping[p]]
  /\ files' = files \ {path}
  /\ UNCHANGED cache_queue

Unlink(path) ==
  /\ fds' = Orphaned(Closed({fd_mapping[p].fd : p \in {path} \cap DOMAIN fd_mapping}), path)
  /\ fd_mapping' = [p \in DOMAIN fd_mapping \ {path} |-> fd_mapping[p]]
  /\ files' = files \ {path}
  /\ UNCHANGED cache_queue

----------------------------------------------------------------------------
(* The tree as a client. *)

Init ==
  /\ fd_mapping = [p \in {} |-> 0]
  /\ cache_queue = <<>>
  /\ files = {}
  /\ fds = [n \in {} |-> Deleted]
  /\ readers = <<>>
  /\ wfd = -1
  /\ task = "closed"
  /\ pending = {}

(* The constructor of a new tree opens nothing. *)
CreateTree ==
  /\ task = "closed"
  /\ task' = "idle"
  /\ UNCHANGED <<fd_mapping, cache_queue, files, fds, readers, wfd, pending>>

(* The one that loads opens tree_data, which may be missing, ...           *)
LoadTreeCannotOpen ==
  /\ task = "closed"
  /\ UNCHANGED vars

(* ... closes it when it has read it, ...                                  *)
LoadTree ==
  /\ task = "closed"
  /\ CanOpen
  /\ task' = "idle"
  /\ UNCHANGED <<fd_mapping, cache_queue, files, fds, readers, wfd, pending>>

(* ... but not if the file is too short for the parameters, or a vector    *)
(* cannot have the size that was read for it.                              *)
LoadTreeThrows ==
  /\ task = "closed"
  /\ CanOpen
  /\ fds' = Opened(tree_data)
  /\ UNCHANGED <<fd_mapping, cache_queue, files, readers, wfd, task, pending>>

(* TryCompacting writes a table.  Its descriptor is closed at once; a name *)
(* that exists keeps its file, truncated.                                  *)
Flush(path) ==
  /\ task = "idle"
  /\ CanOpen
  /\ files' = files \cup {path}
  /\ UNCHANGED <<fd_mapping, cache_queue, fds, readers, wfd, task, pending>>

(* Find and FindRange: a reader per component, destroyed before the next.  *)
StartLookup(path) ==
  /\ task = "idle"
  /\ CreateReader(path)
  /\ task' = "lookup"
  /\ UNCHANGED <<cache_queue, files, wfd, pending>>

LookupThrows(path) ==
  /\ task = "idle"
  /\ CreateReaderThrows(path)
  /\ UNCHANGED vars

EndLookup ==
  /\ task = "lookup"
  /\ task' = "release"
  /\ UNCHANGED <<fd_mapping, cache_queue, files, fds, readers, wfd, pending>>

(* CompactLevelsUpTo: the output first, its descriptor unchecked. *)
StartMerge(output, inputs) ==
  /\ task = "idle"
  /\ inputs # {}
  /\ output \notin inputs
  /\ \/ /\ CanOpen
        /\ wfd' = LowestFd
        /\ fds' = Opened(output)
        /\ files' = files \cup {output}
     \/ /\ ~CanOpen
        /\ UNCHANGED <<wfd, fds, files>>
  /\ task' = "opening"
  /\ pending' = inputs
  /\ UNCHANGED <<fd_mapping, cache_queue, readers>>

OpenInput(path) ==
  /\ task = "opening"
  /\ path \in pending
  /\ CreateReader(path)
  /\ pending' = pending \ {path}
  /\ task' = IF pending' = {} THEN "merge" ELSE task
  /\ UNCHANGED <<cache_queue, files, wfd>>

(* The exception destroys the readers; nobody closes the output. *)
OpenInputThrows(path) ==
  /\ task = "opening"
  /\ path \in pending
  /\ CreateReaderThrows(path)
  /\ wfd' = -1
  /\ pending' = {}
  /\ task' = IF readers = <<>> THEN "idle" ELSE "release"
  /\ UNCHANGED <<fd_mapping, cache_queue, files, fds, readers>>

(* The merge has read all its inputs; the output is closed. *)
MergeDone ==
  /\ task = "merge"
  /\ fds' = Closed({wfd})
  /\ wfd' = -1
  /\ pending' = {readers[i].path : i \in DOMAIN readers}
  /\ task' = "unlink"
  /\ UNCHANGED <<fd_mapping, cache_queue, files, readers>>

(* Nothing but tombstones: the output has no entry and is not closed. *)
MergeNothing ==
  /\ task = "merge"
  /\ wfd' = -1
  /\ pending' = {readers[i].path : i \in DOMAIN readers}
  /\ task' = "unlink"
  /\ UNCHANGED <<fd_mapping, cache_queue, files, fds, readers>>

UnlinkInput(path) ==
  /\ task = "unlink"
  /\ path \in pending
  /\ Unlink(path)
  /\ pending' = pending \ {path}
  /\ task' = IF pending' = {} THEN "release" ELSE task
  /\ UNCHANGED <<readers, wfd>>

(* ~SSTableReader, for the readers of a vector from the first on. *)
DestroyReader ==
  /\ task = "release"
  /\ DecreaseFdCounter(readers[1].path)
  /\ readers' = Tail(readers)
  /\ task' = IF readers' = <<>> THEN "idle" ELSE task
  /\ UNCHANGED <<files, wfd, pending>>

(* The destructor closes tree_data, which it writes; the manager dies with *)
(* its tree and closes no descriptor.  The next tree has a new one.        *)
DestroyTree ==
  /\ task = "idle"
  /\ task' = "closed"
  /\ fd_mapping' = [p \in {} |-> 0]
  /\ cache_queue' = <<>>
  /\ UNCHANGED <<files, fds, readers, wfd, pending>>

Next ==
  \/ \E path \in Path :
       \/ Flush(path)
       \/ StartLookup(path)
       \/ LookupThrows(path)
       \/ OpenInput(path)
       \/ OpenInputThrows(path)
       \/ UnlinkInput(path)
  \/ \E output \in Path, inputs \in SUBSET Path : StartMerge(output, inputs)
  \/ EndLookup
  \/ MergeDone
  \/ MergeNothing
  \/ DestroyReader
  \/ DestroyTree
  \/ CreateTree
  \/ LoadTree
  \/ LoadTreeThrows
  \/ LoadTreeCannotOpen

Spec == Init /\ [][Next]_vars

----------------------------------------------------------------------------
(* Properties. *)

(* The mapping, the queue, the descriptors and the readers hold what their *)
(* C++ types and the steps of the tree allow.                              *)
TypeOK ==
  /\ DOMAIN fd_mapping \subseteq Path
  /\ \A p \in DOMAIN fd_mapping : fd_mapping[p] \in FdCounter
  /\ cache_queue \in Seq(Path)
  /\ files \subseteq Path
  /\ DOMAIN fds \subseteq Fd
  /\ \A n \in DOMAIN fds : fds[n] \in Path \cup {Deleted, tree_data}
  /\ readers \in Seq(Reader)
  /\ wfd \in Fd \cup {-1}
  /\ task \in {"closed", "idle", "lookup", "opening", "merge", "unlink", "release"}
  /\ pending \subseteq Path

ReadersOf(path) == {i \in DOMAIN readers : readers[i].path = path}

(* A table's count is the number of its live readers, in the middle of a   *)
(* merge that unlinks under its readers too: no destructor decrements a    *)
(* count twice or past zero.                                               *)
CountsMatch ==
  \A p \in DOMAIN fd_mapping : fd_mapping[p].count = Cardinality(ReadersOf(p))

(* While the tree may still read, the descriptor of every live reader, and *)
(* of every cached table, is open and refers to the file of that name.     *)
DescriptorsCurrent ==
  /\ \A p \in DOMAIN fd_mapping : fd_mapping[p].fd \in DOMAIN fds /\ fds[fd_mapping[p].fd] = p
  /\ task \in {"lookup", "opening", "merge"} =>
       \A i \in DOMAIN readers :
         /\ readers[i].fd \in DOMAIN fds
         /\ fds[readers[i].fd] = readers[i].path

(* A table nobody reads is in the queue, and the queue is within the cache *)
(* size: the tree keeps at most cache_size_ idle descriptors, and none     *)
(* that eviction can no longer find.                                       *)
IdleDescriptorsBounded ==
  /\ Len(cache_queue) <= cache_size
  /\ \A p \in DOMAIN fd_mapping :
       fd_mapping[p].count = 0 => \E i \in DOMAIN cache_queue : cache_queue[i] = p

(* Descriptors that are open and that neither the mapping nor a running    *)
(* merge knows.                                                            *)
Leaked == DOMAIN fds \ ({wfd} \cup {fd_mapping[p].fd : p \in DOMAIN fd_mapping})

(* Four steps leak descriptors: a merge that throws, a merge without       *)
(* output, the end of a tree, and a load that throws.  No other step here  *)
(* does, and none closes or reuses what is not its own.                    *)
LeaksOnlyThere ==
  [][Leaked' # Leaked =>
       /\ Leaked \subseteq Leaked'
       /\ \/ MergeNothing
          \/ DestroyTree
          \/ LoadTreeThrows
          \/ \E path \in Path : OpenInputThrows(path)]_vars
============================================================================
