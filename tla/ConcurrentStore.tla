--------------------------- MODULE ConcurrentStore ---------------------------
(***************************************************************************)
(* What the public operations promise threads that call them at once: each *)
(* takes effect in one instant between its call and its return, on the map *)
(* of KVStore, and answers from that instant.  A lookup may throw instead  *)
(* of answering; a write that throws has taken its effect all the same.    *)
(***************************************************************************)
CONSTANTS Thread, Key, Value, Empty, nullopt, exception

VARIABLES store, open,
          status,     \* status[t]: "idle", "called" or "done"
          call,       \* call[t]: the operation of t
          answer      \* answer[t]: its result

vars == <<store, open, status, call, answer>>

Store == INSTANCE KVStore

Calls ==
  [op : {"Insert"}, key : Key, entry : Value \cup {Empty}]   \* Erase: the entry Empty
    \cup [op : {"Find"}, key : Key]
    \cup {[op |-> "FindRange"]}                              \* of all keys

Init ==
  /\ Store!Init
  /\ status = [t \in Thread |-> "idle"]
  /\ call = [t \in Thread |-> nullopt]
  /\ answer = [t \in Thread |-> nullopt]

Call(t, c) ==
  /\ open
  /\ status[t] = "idle"
  /\ status' = [status EXCEPT ![t] = "called"]
  /\ call' = [call EXCEPT ![t] = c]
  /\ UNCHANGED <<store, open, answer>>

Effect(c) ==
  IF c.op # "Insert" THEN UNCHANGED store
  ELSE store' = [store EXCEPT ![c.key] = IF c.entry = Empty THEN nullopt ELSE c.entry]

Answer(c) ==
  CASE c.op = "Insert" -> nullopt
    [] c.op = "Find" -> store[c.key]
    [] c.op = "FindRange" -> store

Act(t) ==
  /\ status[t] = "called"
  /\ Effect(call[t])
  /\ status' = [status EXCEPT ![t] = "done"]
  /\ answer' = [answer EXCEPT ![t] = Answer(call[t])]
  /\ UNCHANGED <<open, call>>

Throw(t) ==
  /\ status[t] = "called"
  /\ call[t].op # "Insert"
  /\ status' = [status EXCEPT ![t] = "done"]
  /\ answer' = [answer EXCEPT ![t] = exception]
  /\ UNCHANGED <<store, open, call>>

Return(t) ==
  /\ status[t] = "done"
  /\ status' = [status EXCEPT ![t] = "idle"]
  /\ call' = [call EXCEPT ![t] = nullopt]
  /\ answer' = [answer EXCEPT ![t] = nullopt]
  /\ UNCHANGED <<store, open>>

(* Objects are made and destroyed while no thread uses them. *)
Session ==
  /\ \A t \in Thread : status[t] = "idle"
  /\ Store!Create \/ Store!Load \/ Store!Close
  /\ UNCHANGED <<status, call, answer>>

Next ==
  \/ Session
  \/ \E t \in Thread : Act(t) \/ Throw(t) \/ Return(t) \/ \E c \in Calls : Call(t, c)

Spec == Init /\ [][Next]_vars
============================================================================
