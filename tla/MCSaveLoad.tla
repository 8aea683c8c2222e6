----------------------------- MODULE MCSaveLoad -----------------------------
(***************************************************************************)
(* Numbers of two bits; up to three of four entries with keys of one to    *)
(* three bytes and values of none to three; up to three levels.            *)
(***************************************************************************)
EXTENDS SaveLoad, SequencesExt

MCFixed == <<1>>
MCLevels == {<<>>, <<0, 3>>, <<2, 1, 3>>}
MCEntries == <<<<<<0>>, <<1, 1>>>>, <<<<0, 1>>, <<>>>>, <<<<1>>, <<1>>>>, <<<<1, 0, 1>>, <<0, 1, 0>>>>>>
MCMemtables ==
  {[n \in DOMAIN chosen |-> MCEntries[chosen[n]]] :
     chosen \in {SetToSortSeq(ns, <) : ns \in {ns \in SUBSET (1 .. 4) : Cardinality(ns) <= 3}}}
============================================================================
