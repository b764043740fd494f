---------------------------- MODULE SseSessions ----------------------------
(***************************************************************************)
(* The transports of build_app in the HTTP server: event streams (GET      *)
(* /sse), messages posted to them (POST /message) and synchronous posts    *)
(* (POST /mcp, /sse, /rpc).  Handlers are coroutines of one event loop: a  *)
(* step runs from one await to the next.  A message is dispatched to a     *)
(* thread pool, so that answers come in any order.                         *)
(*                                                                         *)
(* Operators named TimeoutDropping, WriteUnguarded and FinishBroadcast are *)
(* deliberate defects that nothing uses; PROJECT.json names the property   *)
(* that each breaks.                                                       *)
(***************************************************************************)
EXTENDS Naturals, Sequences, FiniteSets

CONSTANTS
    Sessions,   \* session ids (uuid4)
    Posts,      \* requests, each with a body of its own
    Workers,    \* threads of the default executor
    Direct,     \* a synchronous post: no session
    Keepalive,  \* the comment that is written when there is no answer
    Nothing     \* nothing is being written

ASSUME SseAssumption ==
    /\ Direct \notin Sessions
    /\ Keepalive \notin Posts /\ Nothing \notin Posts /\ Keepalive # Nothing
    /\ Workers \in Nat \ {0}

VARIABLES
    sessions,   \* keys of the dict "sessions"
    queue,      \* session -> its asyncio.Queue, of posts that are answered
    stream,     \* session -> where its handle_sse is
    writing,    \* session -> what it is about to write
    connected,  \* session -> its connection is up, as the server sees it
    sent,       \* session -> answers written to its stream
    post,       \* post -> where its handler is, its session, its answer
    stopping    \* runner.cleanup has been called

vars == <<sessions, queue, stream, writing, connected, sent, post, stopping>>
streams == <<stream, writing, connected, sent>>

Running == {"prepare", "endpoint", "get", "wait", "write"}
Statuses == {"none", "200", "202", "204", "400", "500"}

TypeOK ==
    /\ sessions \subseteq Sessions
    /\ queue \in [Sessions -> Seq(Posts)]
    /\ stream \in [Sessions -> Running \cup {"unused", "ended", "failed"}]
    /\ writing \in [Sessions -> Posts \cup {Keepalive, Nothing}]
    /\ connected \in [Sessions -> BOOLEAN]
    /\ sent \in [Sessions -> Seq(Posts)]
    /\ post \in [Posts -> [pc : {"new", "body", "queued", "running", "computed", "done"},
                           to : Sessions \cup {Direct}, answered : BOOLEAN, status : Statuses]]
    /\ stopping \in BOOLEAN

Init ==
    /\ sessions = {} /\ stopping = FALSE
    /\ queue = [s \in Sessions |-> <<>>]
    /\ stream = [s \in Sessions |-> "unused"]
    /\ writing = [s \in Sessions |-> Nothing]
    /\ connected = [s \in Sessions |-> FALSE]
    /\ sent = [s \in Sessions |-> <<>>]
    /\ post = [p \in Posts |-> [pc |-> "new", to |-> Direct, answered |-> FALSE, status |-> "none"]]

At(s, here) == stream[s] = here
Go(s, there) == stream' = [stream EXCEPT ![s] = there]

-----------------------------------------------------------------------------
(* handle_sse *)

\* The session is registered before anything is written.
Connect(s) ==
    /\ At(s, "unused") /\ ~stopping
    /\ sessions' = sessions \cup {s}
    /\ connected' = [connected EXCEPT ![s] = TRUE]
    /\ Go(s, "prepare")
    /\ UNCHANGED <<queue, writing, sent, post, stopping>>

\* response.prepare, and the write of the endpoint event: both are outside the
\* try, and an exception there leaves the session registered.
Setup(s) ==
    /\ stream[s] \in {"prepare", "endpoint"}
    /\ Go(s, IF ~connected[s] THEN "failed" ELSE IF At(s, "prepare") THEN "endpoint" ELSE "get")
    /\ UNCHANGED <<sessions, queue, writing, connected, sent, post, stopping>>

Taken(s) ==
    /\ writing' = [writing EXCEPT ![s] = Head(queue[s])]
    /\ queue' = [queue EXCEPT ![s] = Tail(@)]
    /\ Go(s, "write")

\* queue.get: an answer that is there is taken without waiting.
Get(s) ==
    /\ At(s, "get")
    /\ IF queue[s] # <<>> THEN Taken(s) ELSE Go(s, "wait") /\ UNCHANGED <<queue, writing>>
    /\ UNCHANGED <<sessions, connected, sent, post, stopping>>

Wake(s) ==
    /\ At(s, "wait") /\ queue[s] # <<>>
    /\ Taken(s)
    /\ UNCHANGED <<sessions, connected, sent, post, stopping>>

\* An answer that arrives with the timeout is taken from the queue and lost.
TimeoutDropping(s) ==
    /\ At(s, "wait")
    /\ writing' = [writing EXCEPT ![s] = Keepalive]
    /\ queue' = [queue EXCEPT ![s] = IF @ = <<>> THEN @ ELSE Tail(@)]
    /\ Go(s, "write")
    /\ UNCHANGED <<sessions, connected, sent, post, stopping>>

\* wait_for gives up after 30 seconds; an answer that arrives at that moment
\* stays in the queue.
Timeout(s) ==
    /\ At(s, "wait")
    /\ writing' = [writing EXCEPT ![s] = Keepalive]
    /\ Go(s, "write")
    /\ UNCHANGED <<sessions, queue, connected, sent, post, stopping>>

\* The finally clause: the queue is forgotten with what it holds.
Ended(s) ==
    /\ sessions' = sessions \ {s}
    /\ queue' = [queue EXCEPT ![s] = <<>>]
    /\ writing' = [writing EXCEPT ![s] = Nothing]
    /\ Go(s, "ended")

\* The exception of a write ends the handler without a finally.
WriteUnguarded(s) ==
    /\ At(s, "write")
    /\ IF connected[s]
       THEN /\ sent' = [sent EXCEPT ![s] = IF writing[s] = Keepalive THEN @ ELSE Append(@, writing[s])]
            /\ writing' = [writing EXCEPT ![s] = Nothing]
            /\ Go(s, "get")
       ELSE UNCHANGED sent /\ writing' = [writing EXCEPT ![s] = Nothing] /\ Go(s, "ended")
    /\ UNCHANGED <<sessions, queue, connected, post, stopping>>

\* response.write raises ConnectionResetError once the connection is down.
Write(s) ==
    /\ At(s, "write")
    /\ IF connected[s]
       THEN /\ sent' = [sent EXCEPT ![s] = IF writing[s] = Keepalive THEN @ ELSE Append(@, writing[s])]
            /\ writing' = [writing EXCEPT ![s] = Nothing]
            /\ Go(s, "get")
            /\ UNCHANGED <<sessions, queue>>
       ELSE UNCHANGED sent /\ Ended(s)
    /\ UNCHANGED <<connected, post, stopping>>

\* runner.cleanup cancels a handler at the await where it is.
Cancel(s) ==
    /\ stopping
    /\ \/ stream[s] \in {"wait", "write"} /\ Ended(s)
       \/ stream[s] \in {"prepare", "endpoint"} /\ Go(s, "failed") /\ UNCHANGED <<sessions, queue, writing>>
    /\ UNCHANGED <<connected, sent, post, stopping>>

-----------------------------------------------------------------------------
(* handle_message, handle_streamable, handle_rpc *)

Posted(p, r) == post' = [post EXCEPT ![p] = r]

\* A client knows a session from its endpoint event.  A session that is not
\* registered is refused before the body is read.
Arrive(p, to) ==
    /\ post[p].pc = "new" /\ ~stopping
    /\ to # Direct => stream[to] \notin {"unused", "prepare", "endpoint", "failed"}
    /\ Posted(p, IF to = Direct \/ to \in sessions
                 THEN [post[p] EXCEPT !.pc = "body", !.to = to]
                 ELSE [post[p] EXCEPT !.pc = "done", !.to = to, !.status = "400"])
    /\ UNCHANGED <<sessions, queue, streams, stopping>>

\* _read_json_body, and _coerce_rpc_message: too large, not JSON, not a request.
ReadBody(p) ==
    /\ post[p].pc = "body"
    /\ \/ Posted(p, [post[p] EXCEPT !.pc = "queued"])
       \/ Posted(p, [post[p] EXCEPT !.pc = "done", !.status = "400"])
    /\ UNCHANGED <<sessions, queue, streams, stopping>>

\* dispatch: asyncio.to_thread waits for a free worker.
StartWork(p) ==
    /\ post[p].pc = "queued"
    /\ Cardinality({q \in Posts : post[q].pc = "running"}) < Workers
    /\ Posted(p, [post[p] EXCEPT !.pc = "running"])
    /\ UNCHANGED <<sessions, queue, streams, stopping>>

\* MCPHandler.handle_message: a response, or None for a notification; it
\* raises when params is not an object, and aiohttp answers 500.
Compute(p) ==
    /\ post[p].pc = "running"
    /\ \/ \E a \in BOOLEAN : Posted(p, [post[p] EXCEPT !.pc = "computed", !.answered = a])
       \/ Posted(p, [post[p] EXCEPT !.pc = "done", !.status = "500"])
    /\ UNCHANGED <<sessions, queue, streams, stopping>>

\* The answer goes to every registered session.
FinishBroadcast(p) ==
    /\ post[p].pc = "computed"
    /\ queue' = [s \in Sessions |-> IF post[p].answered /\ post[p].to # Direct /\ s \in sessions
                                    THEN Append(queue[s], p) ELSE queue[s]]
    /\ Posted(p, [post[p] EXCEPT !.pc = "done", !.status = "202"])
    /\ UNCHANGED <<sessions, streams, stopping>>

\* The session is looked up again: its queue may be gone, and the answer with
\* it, but the post is accepted.
Finish(p) ==
    /\ post[p].pc = "computed"
    /\ queue' = [s \in Sessions |-> IF post[p].answered /\ post[p].to = s /\ s \in sessions
                                    THEN Append(queue[s], p) ELSE queue[s]]
    /\ \E code \in IF post[p].to # Direct THEN {"202"}
                   ELSE IF post[p].answered THEN {"200"} ELSE {"202", "204"} :
         Posted(p, [post[p] EXCEPT !.pc = "done", !.status = code])
    /\ UNCHANGED <<sessions, streams, stopping>>

-----------------------------------------------------------------------------
(* The world outside *)

Disconnect(s) ==
    /\ connected[s]
    /\ connected' = [connected EXCEPT ![s] = FALSE]
    /\ UNCHANGED <<sessions, queue, stream, writing, sent, post, stopping>>

Shutdown ==
    /\ ~stopping
    /\ stopping' = TRUE
    /\ UNCHANGED <<sessions, queue, streams, post>>

Serve(s) == Setup(s) \/ Get(s) \/ Wake(s) \/ Timeout(s) \/ Write(s) \/ Cancel(s)
Handle(p) == ReadBody(p) \/ StartWork(p) \/ Compute(p) \/ Finish(p)

Next ==
    \/ \E s \in Sessions : Connect(s) \/ Serve(s) \/ Disconnect(s)
    \/ \E p \in Posts : Handle(p) \/ \E to \in Sessions \cup {Direct} : Arrive(p, to)
    \/ Shutdown

Spec == Init /\ [][Next]_vars

\* The event loop and the threads run what can run, and the timer of a stream
\* goes off; a body that has begun arrives.  Clients are free.
FairSpec ==
    /\ Spec
    /\ \A s \in Sessions : WF_vars(Serve(s))
    /\ \A p \in Posts : WF_vars(Handle(p))

-----------------------------------------------------------------------------
(* Properties *)

\* A registered session whose handler has returned would take answers for
\* ever.  That happens only to a session whose set-up was cut short, before
\* its client could know it.
RegisteredIsServed ==
    \A s \in Sessions : s \in sessions => stream[s] \in Running \/ (At(s, "failed") /\ queue[s] = <<>>)

\* In whatever order the threads answer, a stream carries answers to posts to
\* its own session only, each at most once, and an unregistered session holds
\* no answer.
Lane(s) == sent[s] \o (IF writing[s] \in Posts THEN <<writing[s]>> ELSE <<>>) \o queue[s]
OwnAnswersOnce ==
    \A s \in Sessions :
        /\ \A i \in DOMAIN Lane(s) : post[Lane(s)[i]].to = s /\ post[Lane(s)[i]].answered
        /\ \A i, j \in DOMAIN Lane(s) : Lane(s)[i] = Lane(s)[j] => i = j
        /\ s \notin sessions => queue[s] = <<>>

Elements(q) == {q[i] : i \in DOMAIN q}

\* Streams are mailboxes: what is put while a session is registered is sent in
\* order and without a gap, whatever keepalives and timeouts come between.
Channel == INSTANCE Mailbox WITH
    Items <- Posts,
    open <- sessions,
    pending <- [s \in Sessions |->
                  (IF writing[s] \in Posts THEN <<writing[s]>> ELSE <<>>) \o queue[s]],
    sent <- sent
ImplementsMailbox == Channel!Spec

\* An answer to an accepted post is written to the stream, unless the client
\* has gone or the server is stopping.
AnswerArrives ==
    \A s \in Sessions, p \in Posts :
        (post[p].pc = "computed" /\ post[p].answered /\ post[p].to = s)
          ~> (p \in Elements(sent[s]) \/ ~connected[s] \/ stopping)

\* Every session whose client has gone is forgotten, within a keepalive: only
\* one that was cut short during its set-up stays.
GoneIsForgotten ==
    \A s \in Sessions : ~connected[s] /\ s \in sessions ~> s \notin sessions \/ At(s, "failed")
=============================================================================
