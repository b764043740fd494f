--------------------------- MODULE MCInstanceLock ---------------------------
(***************************************************************************)
(* Small instances of InstanceLock.  An inode more than processes keeps    *)
(* one free for a new lock file.                                           *)
(***************************************************************************)
EXTENDS InstanceLock, TLC

Symmetry == Permutations(Procs) \cup Permutations(Inodes)
=============================================================================
