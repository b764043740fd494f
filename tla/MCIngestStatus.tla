--------------------------- MODULE MCIngestStatus ---------------------------
(***************************************************************************)
(* Small instances of IngestStatus.  Commands of two projects affect each  *)
(* other through the state file, which the server only reads: once it has  *)
(* been launched, all commands are of one project, and at most two.        *)
(***************************************************************************)
EXTENDS IngestStatus, TLC

MaxServed == 2
OneProject == \A p, q \in Procs : pc[p] # "idle" /\ pc[q] # "idle" => Job(p) = Job(q)
Interesting == srv.pc # "down" => OneProject /\ started <= MaxServed

Symmetry == Permutations(Procs)
=============================================================================
