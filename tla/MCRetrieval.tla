---------------------------- MODULE MCRetrieval ----------------------------
(***************************************************************************)
(* Small instances of Retrieval.                                           *)
(***************************************************************************)
EXTENDS Retrieval, TLC

CONSTANTS d, e, d1, d2, d3, e1, e2

\* Document d is replaced: d1 and d2 by d3; e has two chunks.
MCChunks == {d1, d2, d3, e1, e2}
MCDocOf == [c \in MCChunks |-> IF c \in {e1, e2} THEN e ELSE d]
MCVersionOf == [c \in MCChunks |-> IF c = d3 THEN 1 ELSE 0]

\* The text of d2 stays in d3, or is also that of e1.
SameText == {[c \in MCChunks |-> IF c \in same THEN d2 ELSE c] : same \in {{}, {d2, d3}, {d2, e1}}}
Marked(S) == [c \in MCChunks |-> c \in S]

\* Chunks at every distance from the query, some with its words.
Scored ==
    [text : SameText, close : [MCChunks -> 0..2],
     rank : {[c \in MCChunks |-> IF c \in S THEN 1 ELSE 0] : S \in SUBSET {d2, d3, e1}},
     header : {Marked({}), Marked({d1})}, size : {[c \in MCChunks |-> 3]}]

\* Chunks alike, with blocks of many lengths up to one more than the context.
Sized ==
    [text : {[c \in MCChunks |-> c]}, close : {[c \in MCChunks |-> 1]}, rank : {[c \in MCChunks |-> 0]},
     header : {Marked({})}, size : [MCChunks -> {1, 2, 3, 5, 9}]]

MCCorpora == Scored \cup Sized
=============================================================================
