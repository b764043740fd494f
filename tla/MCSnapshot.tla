----------------------------- MODULE MCSnapshot -----------------------------
(***************************************************************************)
(* Small instances of Snapshot: one export and an index that changes; or   *)
(* exports and calls that overlap, and an index that stands still.         *)
(***************************************************************************)
EXTENDS Snapshot, TLC

CONSTANTS north, south
MCScopeMap == <<north, south>>

Alone == (\A r \in Readers : reading[r] = 0) /\ \E e \in Exports : \A o \in Exports \ {e} : step[o] = "new"
AllFound == \A e \in Exports : \A i \in DOMAIN gathered[e].areas : gathered[e].areas[i] = version
Interesting == Alone \/ (version = 0 /\ AllFound)

Symmetry == Permutations(Exports) \cup Permutations(Readers)
=============================================================================
