------------------------------ MODULE Mailbox ------------------------------
(***************************************************************************)
(* What an SSE session promises: answers posted to an open session reach   *)
(* its event stream in the order in which they were posted, each once and  *)
(* none in between missing, until the session is closed.                   *)
(***************************************************************************)
EXTENDS Sequences

CONSTANTS Sessions, Items
VARIABLES
    open,       \* sessions that take answers
    pending,    \* session -> answers not yet in its stream
    sent        \* session -> answers in its stream

Init ==
    /\ open = {}
    /\ pending = [s \in Sessions |-> <<>>]
    /\ sent = [s \in Sessions |-> <<>>]

Open(s) ==
    /\ open' = open \cup {s}
    /\ UNCHANGED <<pending, sent>>

Put(s, i) ==
    /\ s \in open
    /\ pending' = [pending EXCEPT ![s] = Append(@, i)]
    /\ UNCHANGED <<open, sent>>

Send(s) ==
    /\ s \in open /\ pending[s] # <<>>
    /\ pending' = [pending EXCEPT ![s] = Tail(@)]
    /\ sent' = [sent EXCEPT ![s] = Append(@, Head(pending[s]))]
    /\ UNCHANGED open

\* What was pending is lost.
Close(s) ==
    /\ open' = open \ {s}
    /\ pending' = [pending EXCEPT ![s] = <<>>]
    /\ UNCHANGED sent

Next == \E s \in Sessions : Open(s) \/ Send(s) \/ Close(s) \/ \E i \in Items : Put(s, i)

Spec == Init /\ [][Next]_<<open, pending, sent>>
=============================================================================
