---------------------------- MODULE SearchIndex ----------------------------
(***************************************************************************)
(* What the index promises its readers, whatever runs feed it: a path      *)
(* answers queries with the chunks of one whole text that a file of that   *)
(* path has held, or with nothing, and a step that publishes one document  *)
(* touches no other.                                                       *)
(***************************************************************************)
CONSTANTS Paths, Contents, Models

VARIABLES
    offered,  \* the texts that files of each path have ever held
    index     \* the chunks each path answers queries with

Init ==
    /\ offered \in [Paths -> SUBSET Contents]
    /\ index = [n \in Paths |-> {}]

\* A file of path n is given text c.
Offer(n, c) ==
    /\ offered' = [offered EXCEPT ![n] = @ \cup {c}]
    /\ UNCHANGED index

\* The document of path n is replaced as a whole.
Publish(n, c, m) ==
    /\ c \in offered[n]
    /\ index' = [index EXCEPT ![n] = {[text |-> c, model |-> m]}]
    /\ UNCHANGED offered

\* Documents stop answering.
Withdraw(S) ==
    /\ index' = [n \in Paths |-> IF n \in S THEN {} ELSE index[n]]
    /\ UNCHANGED offered

Next ==
    \/ \E n \in Paths, c \in Contents : Offer(n, c)
    \/ \E n \in Paths, c \in Contents, m \in Models : Publish(n, c, m)
    \/ \E S \in SUBSET Paths : Withdraw(S)

Spec == Init /\ [][Next]_<<offered, index>>
=============================================================================
