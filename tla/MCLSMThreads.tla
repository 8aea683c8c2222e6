---------------------------- MODULE MCLSMThreads ----------------------------
(***************************************************************************)
(* Two threads.  At most MaxWrites writes; lookups are not bounded, Find   *)
(* asks for k1, to which the filter of every table says yes.  A run throws *)
(* at most MaxThrows times.  One tree is created at the start; its         *)
(* sessions are MCLSMTree's business.  The threads are interchangeable, so *)
(* the one that writes first is called t1; the first write is not an Erase *)
(* (a tombstone below all other entries is MCLSMTree's business, too).     *)
(***************************************************************************)
EXTENDS LSMThreads

CONSTANTS t1, k1, k2, b1, b2, MaxWrites, MaxThrows

VARIABLES writes, throws

Bits == [k \in Key |-> IF k = k1 THEN {b1} ELSE {b1, b2}]

MCInit == Init /\ writes = 0 /\ throws = 0

MCCall(t, c) ==
  /\ Call(t, c)
  /\ c.op = "Insert" => writes < MaxWrites /\ (writes = 0 => t = t1 /\ c.entry # Empty)
  /\ c.op = "Find" => c.key = k1
  /\ writes' = writes + IF c.op = "Insert" THEN 1 ELSE 0
  /\ UNCHANGED throws

MCNext ==
  \/ writes = 0 /\ Session /\ UNCHANGED <<writes, throws>>
  \/ \E t \in Thread : (Step(t) \/ Return(t)) /\ UNCHANGED <<writes, throws>>
  \/ \E t \in Thread : throws < MaxThrows /\ Throw(t) /\ throws' = throws + 1 /\ UNCHANGED writes
  \/ \E t \in Thread, c \in Abstract!Calls : MCCall(t, c)

MCSpec == MCInit /\ [][MCNext]_<<vars, writes, throws>> /\ Fairness
============================================================================
