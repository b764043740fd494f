--------------------------- MODULE MCSseSessions ---------------------------
(***************************************************************************)
(* Small instances of SseSessions.                                         *)
(***************************************************************************)
EXTENDS SseSessions, TLC

Symmetry == Permutations(Sessions) \cup Permutations(Posts)
=============================================================================
