---------------------------- MODULE MCReadiness ----------------------------
(***************************************************************************)
(* Small instances of Readiness: an embedder that is loaded, or fails, or  *)
(* is replaced by its fallback; then a database that comes and goes, and   *)
(* probes that are cached; and one report of everything that two projects  *)
(* and the database can be like.                                           *)
(***************************************************************************)
EXTENDS Readiness, TLC

CONSTANTS p1, p2
AllStatuses == {"ok", "indexing", "not_indexed", "stale", "unreliable"}

Still == now = StartTime /\ database = "up" /\ integrity = [p \in Projects |-> "ok"]
Loaded == pc[Warm] = "idle" /\ embedder = "local-hash" /\ \A t \in Threads : pc[t] # "want"
OneProject == database \in {"up", "no_schema"} /\ integrity[p1] \in {"ok", "indexing"} /\ integrity[p2] = "stale"
OneReport == pc[Warm] = "idle" /\ embedder = "none" /\ ~allowFallback /\ calls <= 1 /\ now = StartTime

Interesting == Still \/ (Loaded /\ OneProject) \/ OneReport

Symmetry == Permutations(Threads)
=============================================================================
