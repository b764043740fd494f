------------------------------ MODULE MCProxy ------------------------------
(***************************************************************************)
(* Small instances of Proxy.                                               *)
(***************************************************************************)
EXTENDS Proxy

MCInputs == UNION {[1..n -> Kinds] : n \in 0..3}
=============================================================================
