------------------------- MODULE SseSessionsProofs -------------------------
(***************************************************************************)
(* Theorems about SseSessions, for any streams, posts and threads.         *)
(***************************************************************************)
EXTENDS SseSessions, SequenceTheorems, TLAPS

PostRecord == [pc : {"new", "body", "queued", "running", "computed", "done"},
               to : Sessions \cup {Direct}, answered : BOOLEAN, status : Statuses]

LEMMA TypeInit == Init => TypeOK
<1> SUFFICES ASSUME Init PROVE TypeOK
  OBVIOUS
<1>1. post \in [Posts -> PostRecord]
  BY DEF Init, PostRecord, Statuses
<1>2. queue \in [Sessions -> Seq(Posts)] /\ sent \in [Sessions -> Seq(Posts)]
  BY DEF Init
<1>3. stream \in [Sessions -> Running \cup {"unused", "ended", "failed"}]
  BY DEF Init
<1>4. writing \in [Sessions -> Posts \cup {Keepalive, Nothing}] /\ connected \in [Sessions -> BOOLEAN]
  BY DEF Init
<1>5. sessions \subseteq Sessions /\ stopping \in BOOLEAN
  BY DEF Init
<1> QED
  BY <1>1, <1>2, <1>3, <1>4, <1>5 DEF TypeOK, PostRecord

LEMMA PostedTyped ==
  ASSUME TypeOK, NEW p \in Posts, NEW r \in PostRecord, Posted(p, r)
  PROVE  post' \in [Posts -> PostRecord] /\ post'[p] = r /\ \A q \in Posts : q # p => post'[q] = post[q]
  BY DEF Posted, TypeOK, PostRecord

\* What a handler of a post does: its record changes, and an answer is put.
HandleChanges(p) ==
  /\ post' \in [Posts -> PostRecord]
  /\ \A q \in Posts : q # p => post'[q] = post[q]
  /\ post[p].pc # "done"
  /\ \/ queue' = queue /\ post'[p].to = post[p].to
     \/ queue' = queue /\ post[p].pc = "new"
          /\ (post'[p].to # Direct => stream[post'[p].to] \notin {"unused", "prepare", "endpoint", "failed"})
     \/ /\ post[p].answered /\ post[p].to \in sessions
        /\ queue' = [queue EXCEPT ![post[p].to] = Append(queue[post[p].to], p)]
        /\ post'[p].to = post[p].to /\ post'[p].answered /\ post'[p].pc = "done"

LEMMA ArriveChanges ==
  ASSUME TypeOK, NEW p \in Posts, NEW to \in Sessions \cup {Direct}, Arrive(p, to)
  PROVE  HandleChanges(p)
<1>1. post[p] \in PostRecord
  BY DEF TypeOK, PostRecord
<1> DEFINE r == IF to = Direct \/ to \in sessions
                THEN [post[p] EXCEPT !.pc = "body", !.to = to]
                ELSE [post[p] EXCEPT !.pc = "done", !.to = to, !.status = "400"]
<1>2. r \in PostRecord /\ r.to = to
  BY <1>1 DEF PostRecord, Statuses
<1>3. Posted(p, r) /\ UNCHANGED queue /\ post[p].pc = "new"
      /\ (to # Direct => stream[to] \notin {"unused", "prepare", "endpoint", "failed"})
  BY DEF Arrive
<1> HIDE DEF r
<1> QED
  BY <1>2, <1>3, PostedTyped DEF HandleChanges

LEMMA HandleCases ==
  ASSUME TypeOK, NEW p \in Posts, Handle(p)
  PROVE  HandleChanges(p) /\ UNCHANGED <<sessions, streams, stopping>>
<1>1. post[p] \in PostRecord
  BY DEF TypeOK, PostRecord
<1>2. ASSUME NEW r \in PostRecord, Posted(p, r), UNCHANGED queue, r.to = post[p].to,
             post[p].pc # "done"
      PROVE  HandleChanges(p)
  BY <1>2, PostedTyped DEF HandleChanges
<1>3. CASE ReadBody(p)
  <2>1. /\ [post[p] EXCEPT !.pc = "queued"] \in PostRecord
        /\ [post[p] EXCEPT !.pc = "queued"].to = post[p].to
        /\ [post[p] EXCEPT !.pc = "done", !.status = "400"] \in PostRecord
        /\ [post[p] EXCEPT !.pc = "done", !.status = "400"].to = post[p].to
    BY <1>1 DEF PostRecord, Statuses
  <2> QED
    BY <1>2, <1>3, <2>1 DEF ReadBody
<1>4. CASE StartWork(p)
  <2>1. /\ [post[p] EXCEPT !.pc = "running"] \in PostRecord
        /\ [post[p] EXCEPT !.pc = "running"].to = post[p].to
    BY <1>1 DEF PostRecord, Statuses
  <2> QED
    BY <1>2, <1>4, <2>1 DEF StartWork
<1>5. CASE Compute(p)
  <2>1. /\ \A a \in BOOLEAN : /\ [post[p] EXCEPT !.pc = "computed", !.answered = a] \in PostRecord
                              /\ [post[p] EXCEPT !.pc = "computed", !.answered = a].to = post[p].to
        /\ [post[p] EXCEPT !.pc = "done", !.status = "500"] \in PostRecord
        /\ [post[p] EXCEPT !.pc = "done", !.status = "500"].to = post[p].to
    BY <1>1 DEF PostRecord, Statuses
  <2> QED
    BY <1>2, <1>5, <2>1 DEF Compute
<1>6. CASE Finish(p)
  <2>1. PICK code \in Statuses : Posted(p, [post[p] EXCEPT !.pc = "done", !.status = code])
    BY <1>6 DEF Finish, Statuses
  <2> DEFINE r == [post[p] EXCEPT !.pc = "done", !.status = code]
  <2>2. r \in PostRecord /\ r.to = post[p].to /\ r.answered = post[p].answered /\ r.pc = "done"
    BY <1>1, <2>1 DEF PostRecord, Statuses
  <2>3. post[p].pc = "computed" /\ UNCHANGED <<sessions, streams, stopping>>
        /\ queue' = [s \in Sessions |-> IF post[p].answered /\ post[p].to = s /\ s \in sessions
                                        THEN Append(queue[s], p) ELSE queue[s]]
    BY <1>6 DEF Finish
  <2>4. queue \in [Sessions -> Seq(Posts)] /\ sessions \subseteq Sessions
    BY DEF TypeOK
  <2>5. CASE post[p].answered /\ post[p].to \in sessions
    <3>1. queue' = [queue EXCEPT ![post[p].to] = Append(queue[post[p].to], p)]
      BY <2>3, <2>4, <2>5
    <3> HIDE DEF r
    <3> QED
      BY <2>1, <2>2, <2>3, <2>5, <3>1, PostedTyped DEF HandleChanges, r
  <2>6. CASE ~(post[p].answered /\ post[p].to \in sessions)
    <3>1. queue' = queue
      BY <2>3, <2>4, <2>6
    <3> QED
      BY <1>2, <2>1, <2>2, <2>3, <3>1
  <2> QED
    BY <2>3, <2>5, <2>6
<1>7. UNCHANGED <<sessions, streams, stopping>>
  BY DEF Handle, ReadBody, StartWork, Compute, Finish
<1> QED
  BY <1>3, <1>4, <1>5, <1>6, <1>7 DEF Handle

-----------------------------------------------------------------------------
(* Types *)

\* What a step of the handler of stream s does.
Moves(s) ==
  /\ post' = post
  /\ \/ /\ stream[s] = "unused" /\ sessions' = sessions \cup {s}                      \* Connect
        /\ stream' = [stream EXCEPT ![s] = "prepare"]
        /\ queue' = queue /\ writing' = writing /\ sent' = sent
     \/ /\ sessions' = sessions /\ queue' = queue /\ writing' = writing /\ sent' = sent  \* Setup, Get, Cancel
        /\ \/ /\ stream[s] \in {"prepare", "endpoint"}
              /\ \E a \in {"failed", "endpoint", "get"} : stream' = [stream EXCEPT ![s] = a]
           \/ stream[s] = "get" /\ stream' = [stream EXCEPT ![s] = "wait"]
           \/ stream' = stream
     \/ /\ stream[s] \in {"get", "wait"} /\ sessions' = sessions /\ sent' = sent         \* Taken
        /\ stream' = [stream EXCEPT ![s] = "write"] /\ queue[s] # <<>>
        /\ writing' = [writing EXCEPT ![s] = Head(queue[s])]
        /\ queue' = [queue EXCEPT ![s] = Tail(queue[s])]
     \/ /\ stream[s] = "wait" /\ sessions' = sessions /\ sent' = sent /\ queue' = queue   \* Timeout
        /\ stream' = [stream EXCEPT ![s] = "write"]
        /\ writing' = [writing EXCEPT ![s] = Keepalive]
     \/ /\ stream[s] = "write" /\ sessions' = sessions /\ queue' = queue                 \* Write
        /\ stream' = [stream EXCEPT ![s] = "get"]
        /\ writing' = [writing EXCEPT ![s] = Nothing]
        /\ sent' = [sent EXCEPT ![s] = IF writing[s] = Keepalive THEN sent[s]
                                       ELSE Append(sent[s], writing[s])]
     \/ stream[s] \in {"wait", "write"} /\ Ended(s) /\ sent' = sent

LEMMA MovesCases ==
  ASSUME TypeOK, NEW s \in Sessions, Connect(s) \/ Serve(s) \/ Disconnect(s)
  PROVE  Moves(s)
<1>1. CASE Connect(s)
  BY <1>1 DEF Connect, Moves, At, Go
<1>2. CASE Setup(s)
  BY <1>2 DEF Setup, Moves, At, Go
<1>3. CASE Get(s)
  <2>1. CASE queue[s] # <<>>
    BY <1>3, <2>1 DEF Get, Taken, Moves, At, Go, TypeOK
  <2>2. CASE queue[s] = <<>>
    BY <1>3, <2>2 DEF Get, Moves, At, Go
  <2> QED
    BY <2>1, <2>2
<1>4. CASE Wake(s)
  BY <1>4 DEF Wake, Taken, Moves, At, Go, TypeOK
<1>5. CASE Timeout(s)
  BY <1>5 DEF Timeout, Moves, At, Go
<1>6. CASE Write(s)
  <2>1. CASE connected[s]
    BY <1>6, <2>1 DEF Write, Moves, At, Go, TypeOK
  <2>2. CASE ~connected[s]
    BY <1>6, <2>2 DEF Write, Moves, At
  <2> QED
    BY <2>1, <2>2
<1>7. CASE Cancel(s)
  BY <1>7 DEF Cancel, Moves, Go
<1>8. CASE Disconnect(s)
  BY <1>8 DEF Disconnect, Moves
<1> QED
  BY <1>1, <1>2, <1>3, <1>4, <1>5, <1>6, <1>7, <1>8 DEF Serve

\* A stream writes an answer or a keepalive, and only in its write step.
StreamsInv ==
  \A s \in Sessions :
    /\ s \in sessions => stream[s] \in Running \cup {"failed"}
    /\ stream[s] \in Running => s \in sessions
    /\ s \notin sessions => queue[s] = <<>>
    /\ stream[s] \in {"unused", "prepare", "endpoint", "failed"} => queue[s] = <<>>
    /\ stream[s] # "write" => writing[s] = Nothing
    /\ stream[s] = "write" => writing[s] \in Posts \cup {Keepalive}

\* Only a session that its client has been told about gets posts.
KnownInv ==
  \A p \in Posts : post[p].to \in Sessions
                      => stream[post[p].to] \notin {"unused", "prepare", "endpoint", "failed"}

StepCases ==
  \/ \E s \in Sessions : Moves(s)
  \/ \E p \in Posts : HandleChanges(p) /\ UNCHANGED <<sessions, streams>>
  \/ UNCHANGED <<sessions, queue, streams, post>>

LEMMA NextCases ==
  ASSUME TypeOK, [Next]_vars
  PROVE  StepCases
<1>1. ASSUME NEW s \in Sessions, Connect(s) \/ Serve(s) \/ Disconnect(s)
      PROVE  StepCases
  BY <1>1, MovesCases DEF StepCases
<1>2. ASSUME NEW p \in Posts, Handle(p)
      PROVE  StepCases
  BY <1>2, HandleCases DEF StepCases
<1>3. ASSUME NEW p \in Posts, NEW to \in Sessions \cup {Direct}, Arrive(p, to)
      PROVE  StepCases
  <2>1. UNCHANGED <<sessions, streams>>
    BY <1>3 DEF Arrive
  <2> QED
    BY <1>3, <2>1, ArriveChanges DEF StepCases
<1>4. CASE Shutdown \/ UNCHANGED vars
  BY <1>4 DEF Shutdown, vars, StepCases, streams
<1> QED
  BY <1>1, <1>2, <1>3, <1>4 DEF Next

LEMMA TypeNext == TypeOK /\ StreamsInv /\ [Next]_vars => TypeOK'
<1> SUFFICES ASSUME TypeOK, StreamsInv, [Next]_vars PROVE TypeOK'
  OBVIOUS
<1>1. connected' \in [Sessions -> BOOLEAN] /\ stopping' \in BOOLEAN
  BY DEF TypeOK, Next, vars, streams, Connect, Serve, Setup, Get, Taken, Wake, Timeout, Write, Ended,
         Cancel, Disconnect, Handle, ReadBody, StartWork, Compute, Finish, Arrive, Shutdown
<1>2. ASSUME NEW s \in Sessions, Moves(s)
      PROVE  TypeOK'
  <2>1. sessions' \subseteq Sessions /\ post' = post
    BY <1>2 DEF Moves, Ended, TypeOK
  <2> DEFINE q == queue[s]
  <2>6. q # <<>> => Head(q) \in Posts /\ Tail(q) \in Seq(Posts)
    <3>1. q \in Seq(Posts)
      BY DEF TypeOK
    <3> HIDE DEF q
    <3> QED
      BY <3>1
  <2>2. queue' \in [Sessions -> Seq(Posts)]
    <3>1. \/ queue' = queue
          \/ q # <<>> /\ queue' = [queue EXCEPT ![s] = Tail(q)]
          \/ queue' = [queue EXCEPT ![s] = <<>>]
      BY <1>2 DEF Moves, Ended
    <3>2. <<>> \in Seq(Posts) /\ queue \in [Sessions -> Seq(Posts)]
      BY DEF TypeOK
    <3> HIDE DEF q
    <3> QED
      BY <2>6, <3>1, <3>2
  <2>3. stream' \in [Sessions -> Running \cup {"unused", "ended", "failed"}]
    BY <1>2 DEF Moves, Ended, Go, TypeOK, Running
  <2>4. writing' \in [Sessions -> Posts \cup {Keepalive, Nothing}]
    BY <1>2, <2>6 DEF Moves, Ended, TypeOK
  <2>5. sent' \in [Sessions -> Seq(Posts)]
    <3>1. CASE stream[s] = "write" /\ writing[s] # Keepalive
      <4>1. writing[s] \in Posts /\ sent[s] \in Seq(Posts)
        BY <3>1 DEF StreamsInv, TypeOK
      <4>2. Append(sent[s], writing[s]) \in Seq(Posts)
        BY <4>1
      <4> QED
        BY <1>2, <3>1, <4>2 DEF Moves, TypeOK
    <3>2. CASE stream[s] = "write" /\ writing[s] = Keepalive
      BY <1>2, <3>2 DEF Moves, TypeOK
    <3>3. CASE stream[s] # "write"
      BY <1>2, <3>3 DEF Moves, TypeOK
    <3> QED
      BY <3>1, <3>2, <3>3
  <2> QED
    BY <1>1, <2>1, <2>2, <2>3, <2>4, <2>5 DEF TypeOK
<1>3. ASSUME NEW p \in Posts, HandleChanges(p), UNCHANGED <<sessions, streams>>
      PROVE  TypeOK'
  <2>1. post' \in [Posts -> PostRecord]
    BY <1>3 DEF HandleChanges
  <2>2. queue' \in [Sessions -> Seq(Posts)]
    <3>1. CASE queue' = queue
      BY <3>1 DEF TypeOK
    <3>2. CASE queue' # queue
      <4>1. post[p].to \in Sessions
        BY <1>3, <3>2 DEF HandleChanges, TypeOK
      <4>2. Append(queue[post[p].to], p) \in Seq(Posts)
        BY <4>1 DEF TypeOK
      <4> QED
        BY <1>3, <3>2, <4>1, <4>2 DEF HandleChanges, TypeOK
    <3> QED
      BY <3>1, <3>2
  <2> QED
    BY <1>1, <1>3, <2>1, <2>2 DEF TypeOK, PostRecord, streams
<1>4. CASE UNCHANGED <<sessions, queue, streams, post>>
  BY <1>1, <1>4 DEF TypeOK, streams
<1> QED
  BY <1>2, <1>3, <1>4, NextCases DEF StepCases

-----------------------------------------------------------------------------
(* Streams *)

LEMMA InitStreams == Init => StreamsInv /\ KnownInv
BY SseAssumption DEF Init, StreamsInv, KnownInv, Running

LEMMA NextStreams == TypeOK /\ StreamsInv /\ KnownInv /\ [Next]_vars => StreamsInv' /\ KnownInv'
<1> SUFFICES ASSUME TypeOK, StreamsInv, KnownInv, [Next]_vars PROVE StreamsInv' /\ KnownInv'
  OBVIOUS
<1>1. ASSUME NEW s \in Sessions, Moves(s)
      PROVE  StreamsInv' /\ KnownInv'
  <2>1. \A o \in Sessions \ {s} : /\ stream'[o] = stream[o] /\ queue'[o] = queue[o]
                                 /\ writing'[o] = writing[o] /\ (o \in sessions' <=> o \in sessions)
    BY <1>1 DEF Moves, Ended, Go, TypeOK
  <2>2. /\ s \in sessions' => stream'[s] \in Running \cup {"failed"}
        /\ stream'[s] \in Running => s \in sessions'
        /\ s \notin sessions' => queue'[s] = <<>>
    BY <1>1 DEF Moves, Ended, Go, TypeOK, StreamsInv, Running
  <2>3. stream'[s] \in {"unused", "prepare", "endpoint", "failed"} => queue'[s] = <<>>
    BY <1>1 DEF Moves, Ended, Go, TypeOK, StreamsInv, Running
  <2>4. stream'[s] # "write" => writing'[s] = Nothing
    BY <1>1 DEF Moves, Ended, Go, TypeOK, StreamsInv, Running
  <2>5. stream'[s] = "write" => writing'[s] \in Posts \cup {Keepalive}
    <3>1. queue[s] # <<>> => Head(queue[s]) \in Posts
      BY DEF TypeOK
    <3> QED
      BY <1>1, <3>1 DEF Moves, Ended, Go, TypeOK, StreamsInv, Running
  <2>6. stream'[s] \in {"unused", "prepare", "endpoint", "failed"}
          => stream[s] \in {"unused", "prepare", "endpoint", "failed"}
    BY <1>1 DEF Moves, Ended, Go, TypeOK
  <2>7. post' = post
    BY <1>1 DEF Moves
  <2> QED
    BY <2>1, <2>2, <2>3, <2>4, <2>5, <2>6, <2>7 DEF StreamsInv, KnownInv
<1>2. ASSUME NEW p \in Posts, HandleChanges(p), UNCHANGED <<sessions, streams>>
      PROVE  StreamsInv' /\ KnownInv'
  <2>1. KnownInv'
    BY <1>2, SseAssumption DEF HandleChanges, KnownInv, streams
  <2>2. CASE queue' = queue
    BY <1>2, <2>1, <2>2 DEF StreamsInv, streams
  <2>3. CASE queue' # queue
    <3>1. post[p].to \in sessions /\ sessions \subseteq Sessions
      BY <1>2, <2>3 DEF HandleChanges, TypeOK
    <3>2. \A o \in Sessions \ {post[p].to} : queue'[o] = queue[o]
      BY <1>2, <2>3, <3>1 DEF HandleChanges, TypeOK
    <3>3. stream[post[p].to] \notin {"unused", "prepare", "endpoint", "failed"}
      BY <3>1 DEF KnownInv
    <3> QED
      BY <1>2, <2>1, <3>1, <3>2, <3>3 DEF StreamsInv, streams
  <2> QED
    BY <2>2, <2>3
<1>3. CASE UNCHANGED <<sessions, queue, streams, post>>
  BY <1>3 DEF StreamsInv, KnownInv, streams
<1> QED
  BY <1>1, <1>2, <1>3, NextCases DEF StepCases

-----------------------------------------------------------------------------
(* Mailboxes *)

Pending(s) == (IF writing[s] \in Posts THEN <<writing[s]>> ELSE <<>>) \o queue[s]

LEMMA LaneIs ==
  ASSUME TypeOK, NEW s \in Sessions
  PROVE  Pending(s) \in Seq(Posts) /\ Lane(s) = sent[s] \o Pending(s)
<1>1. sent[s] \in Seq(Posts) /\ queue[s] \in Seq(Posts)
  BY DEF TypeOK
<1> DEFINE w == IF writing[s] \in Posts THEN <<writing[s]>> ELSE <<>>
<1>2. w \in Seq(Posts)
  OBVIOUS
<1>3. Pending(s) = w \o queue[s] /\ Lane(s) = (sent[s] \o w) \o queue[s]
  BY DEF Pending, Lane
<1> HIDE DEF w
<1>4. w \o queue[s] \in Seq(Posts)
  BY <1>1, <1>2
<1>5. (sent[s] \o w) \o queue[s] = sent[s] \o (w \o queue[s])
  <2>1. \A a, b, c \in Seq(Posts) : (a \o b) \o c = a \o (b \o c)
    BY ConcatAssociative
  <2> QED
    BY <1>1, <1>2, <2>1
<1> QED
  BY <1>3, <1>4, <1>5

\* What a step does to the mailboxes.
Kept == UNCHANGED sent /\ \A s \in Sessions : Pending(s)' = Pending(s)
Idle == Kept /\ UNCHANGED post /\ (sessions' = sessions \/ \E s \in Sessions : sessions' = sessions \cup {s})
Handled(p) ==
  /\ Kept /\ UNCHANGED sessions
  /\ post[p].pc # "done" /\ \A q \in Posts : q # p => post'[q] = post[q]
PutOn(s, p) ==
  /\ UNCHANGED <<sessions, sent>>
  /\ \A o \in Sessions : Pending(o)' = IF o = s THEN Append(Pending(s), p) ELSE Pending(o)
  /\ post[p].pc # "done" /\ \A q \in Posts : q # p => post'[q] = post[q]
  /\ post'[p].to = s /\ post'[p].answered /\ post'[p].pc = "done"
SentOn(s) ==
  /\ UNCHANGED <<sessions, post>> /\ Pending(s) # <<>>
  /\ \A o \in Sessions : Pending(o)' = IF o = s THEN Tail(Pending(s)) ELSE Pending(o)
  /\ sent' = [sent EXCEPT ![s] = Append(sent[s], Head(Pending(s)))]
Closed(s) ==
  /\ sessions' = sessions \ {s} /\ UNCHANGED <<sent, post>>
  /\ \A o \in Sessions : Pending(o)' = IF o = s THEN <<>> ELSE Pending(o)
MailboxCases ==
  \/ Idle
  \/ \E p \in Posts : Handled(p)
  \/ \E s \in sessions, p \in Posts : PutOn(s, p)
  \/ \E s \in sessions : SentOn(s)
  \/ \E s \in Sessions : Closed(s)

LEMMA QueueFacts ==
  ASSUME NEW q \in Seq(Posts), NEW x \in Posts
  PROVE  /\ <<>> \o q = q
         /\ <<x>> \o q # <<>> /\ Head(<<x>> \o q) = x /\ Tail(<<x>> \o q) = q
         /\ q # <<>> => Head(q) \in Posts /\ Tail(q) \in Seq(Posts) /\ <<Head(q)>> \o Tail(q) = q
         /\ \A w \in Seq(Posts) : w \o Append(q, x) = Append(w \o q, x)
<1>1. <<>> \o q = q
  OBVIOUS
<1>2. <<x>> \o q # <<>> /\ Head(<<x>> \o q) = x /\ Tail(<<x>> \o q) = q
  OBVIOUS
<1>3. q # <<>> => Head(q) \in Posts /\ Tail(q) \in Seq(Posts) /\ <<Head(q)>> \o Tail(q) = q
  OBVIOUS
<1>4. \A w \in Seq(Posts) : w \o Append(q, x) = Append(w \o q, x)
  OBVIOUS
<1> QED
  BY <1>1, <1>2, <1>3, <1>4

LEMMA MovesMailbox ==
  ASSUME TypeOK, StreamsInv, NEW s \in Sessions, Moves(s)
  PROVE  MailboxCases
<1> DEFINE q == queue[s]
<1>1. q \in Seq(Posts) /\ post' = post
  BY DEF TypeOK, Moves
<1>2. \A o \in Sessions : o # s => Pending(o)' = Pending(o)
  BY DEF Moves, Ended, Pending, TypeOK
<1>3. Keepalive \notin Posts /\ Nothing \notin Posts
  BY SseAssumption
<1>4. ASSUME queue' = queue, writing' = writing, sent' = sent,
             sessions' = sessions \/ sessions' = sessions \cup {s}
      PROVE  MailboxCases
  BY <1>1, <1>4 DEF MailboxCases, Idle, Kept, Pending
<1>5. CASE /\ stream[s] \in {"get", "wait"} /\ sessions' = sessions /\ sent' = sent
           /\ q # <<>> /\ writing' = [writing EXCEPT ![s] = Head(q)]
           /\ queue' = [queue EXCEPT ![s] = Tail(q)]
  <2>1. writing[s] \notin Posts /\ writing'[s] = Head(q) /\ queue'[s] = Tail(q)
    BY <1>3, <1>5 DEF StreamsInv, TypeOK
  <2>2. \A x \in Posts : <<>> \o q = q /\ Head(q) \in Posts /\ <<Head(q)>> \o Tail(q) = q
    BY <1>1, <1>5, QueueFacts
  <2>3. Head(q) \in Posts
    BY <1>1, <1>5
  <2>4. Pending(s)' = <<Head(q)>> \o Tail(q) /\ Pending(s) = <<>> \o q
    BY <2>1, <2>3 DEF Pending
  <2> QED
    BY <1>1, <1>2, <1>5, <2>2, <2>3, <2>4 DEF MailboxCases, Idle, Kept
<1>6. CASE /\ stream[s] = "wait" /\ sessions' = sessions /\ sent' = sent /\ queue' = queue
           /\ writing' = [writing EXCEPT ![s] = Keepalive]
  <2>1. writing[s] \notin Posts /\ writing'[s] \notin Posts
    BY <1>3, <1>6 DEF StreamsInv, TypeOK
  <2>2. Pending(s)' = Pending(s)
    BY <1>6, <2>1 DEF Pending
  <2> QED
    BY <1>1, <1>2, <1>6, <2>2 DEF MailboxCases, Idle, Kept
<1>7. CASE /\ stream[s] = "write" /\ sessions' = sessions /\ queue' = queue
           /\ writing' = [writing EXCEPT ![s] = Nothing]
           /\ sent' = [sent EXCEPT ![s] = IF writing[s] = Keepalive THEN sent[s]
                                          ELSE Append(sent[s], writing[s])]
  <2>1. writing'[s] \notin Posts /\ queue'[s] = q
    BY <1>3, <1>7 DEF TypeOK
  <2>2. CASE writing[s] = Keepalive
    <3>1. sent' = sent
      BY <1>7, <2>2 DEF TypeOK
    <3>2. Pending(s)' = Pending(s)
      BY <1>3, <2>1, <2>2 DEF Pending
    <3> QED
      BY <1>1, <1>2, <1>7, <3>1, <3>2 DEF MailboxCases, Idle, Kept
  <2>3. CASE writing[s] # Keepalive
    <3>1. writing[s] \in Posts /\ s \in sessions
      BY <1>7, <2>3 DEF StreamsInv, Running
    <3>2. Pending(s) = <<writing[s]>> \o q /\ Pending(s)' = <<>> \o q
      BY <2>1, <3>1 DEF Pending
    <3>3. Pending(s) # <<>> /\ Head(Pending(s)) = writing[s] /\ Pending(s)' = Tail(Pending(s))
      BY <1>1, <3>1, <3>2, QueueFacts
    <3>4. sent' = [sent EXCEPT ![s] = Append(sent[s], Head(Pending(s)))]
      BY <1>7, <2>3, <3>3
    <3> QED
      BY <1>1, <1>2, <1>7, <3>1, <3>3, <3>4 DEF MailboxCases, SentOn
  <2> QED
    BY <2>2, <2>3
<1>8. CASE Ended(s) /\ sent' = sent
  <2>1. sessions' = sessions \ {s} /\ queue'[s] = <<>> /\ writing'[s] = Nothing
    BY <1>8 DEF Ended, TypeOK
  <2>2. Pending(s)' = <<>>
    BY <1>3, <2>1 DEF Pending
  <2> QED
    BY <1>1, <1>2, <1>8, <2>1, <2>2 DEF MailboxCases, Closed
<1> QED
  BY <1>4, <1>5, <1>6, <1>7, <1>8 DEF Moves

LEMMA NextMailbox ==
  ASSUME TypeOK, StreamsInv, [Next]_vars
  PROVE  MailboxCases
<1>1. ASSUME NEW p \in Posts, HandleChanges(p), UNCHANGED <<sessions, streams>>
      PROVE  MailboxCases
  <2>1. CASE queue' = queue
    BY <1>1, <2>1 DEF MailboxCases, Handled, Kept, Pending, HandleChanges, streams
  <2>2. CASE queue' # queue
    <3>0. PICK s \in Sessions : s = post[p].to
      BY <1>1, <2>2 DEF HandleChanges, TypeOK
    <3>1. /\ s \in sessions
          /\ queue' = [queue EXCEPT ![s] = Append(queue[s], p)]
          /\ post'[p].to = s /\ post'[p].answered /\ post'[p].pc = "done"
      BY <1>1, <2>2, <3>0 DEF HandleChanges
    <3>2. \A o \in Sessions : o # s => Pending(o)' = Pending(o)
      BY <1>1, <3>1 DEF Pending, TypeOK, streams
    <3> DEFINE w == IF writing[s] \in Posts THEN <<writing[s]>> ELSE <<>>
    <3>3. w \in Seq(Posts) /\ queue[s] \in Seq(Posts)
      BY <3>1 DEF TypeOK
    <3>4. Pending(s) = w \o queue[s] /\ Pending(s)' = w \o Append(queue[s], p)
      BY <1>1, <3>1 DEF Pending, TypeOK, streams
    <3> HIDE DEF w
    <3>5. Pending(s)' = Append(Pending(s), p)
      BY <3>3, <3>4, QueueFacts
    <3>6. /\ UNCHANGED <<sessions, sent>> /\ post[p].pc # "done"
          /\ \A q \in Posts : q # p => post'[q] = post[q]
      BY <1>1 DEF HandleChanges, streams
    <3> QED
      BY <3>1, <3>2, <3>5, <3>6 DEF MailboxCases, PutOn
  <2> QED
    BY <2>1, <2>2
<1>2. CASE UNCHANGED <<sessions, queue, streams, post>>
  BY <1>2 DEF MailboxCases, Idle, Kept, Pending, streams
<1> QED
  BY <1>1, <1>2, MovesMailbox, NextCases DEF StepCases

-----------------------------------------------------------------------------
(* Answers *)

Own(s, lane) ==
  /\ \A i \in DOMAIN lane : post[lane[i]].to = s /\ post[lane[i]].answered /\ post[lane[i]].pc = "done"
  /\ \A i, j \in DOMAIN lane : lane[i] = lane[j] => i = j

\* What a stream carries or will carry are finished answers of its own posts.
AnswersInv == \A s \in Sessions : Own(s, sent[s] \o Pending(s))

LEMMA InitAnswers == Init => AnswersInv
<1> SUFFICES ASSUME Init, NEW s \in Sessions PROVE Own(s, sent[s] \o Pending(s))
  BY DEF AnswersInv
<1>1. sent[s] = <<>> /\ Pending(s) = <<>> \o <<>>
  BY SseAssumption DEF Init, Pending
<1>2. sent[s] \o Pending(s) = <<>>
  BY <1>1
<1> QED
  BY <1>2 DEF Own

LEMMA LaneFacts ==
  ASSUME NEW a \in Seq(Posts), NEW b \in Seq(Posts), NEW p \in Posts
  PROVE  /\ a \o Append(b, p) = Append(a \o b, p)
         /\ b # <<>> => Append(a, Head(b)) \o Tail(b) = a \o b
<1>1. a \o Append(b, p) = Append(a \o b, p)
  OBVIOUS
<1>2. b # <<>> => Append(a, Head(b)) \o Tail(b) = a \o b
  OBVIOUS
<1> QED
  BY <1>1, <1>2

LEMMA OwnStable ==
  ASSUME NEW s, NEW lane \in Seq(Posts), Own(s, lane), NEW p \in Posts, post[p].pc # "done",
         \A q \in Posts : q # p => post'[q] = post[q]
  PROVE  /\ \A i \in DOMAIN lane : lane[i] # p
         /\ \A i \in DOMAIN lane : /\ post'[lane[i]].to = s /\ post'[lane[i]].answered
                                   /\ post'[lane[i]].pc = "done"
<1>1. \A i \in DOMAIN lane : lane[i] \in Posts /\ lane[i] # p
  BY DEF Own
<1> QED
  BY <1>1 DEF Own

LEMMA NextAnswers == TypeOK /\ StreamsInv /\ AnswersInv /\ [Next]_vars => AnswersInv'
<1> SUFFICES ASSUME TypeOK, StreamsInv, AnswersInv, [Next]_vars, NEW s \in Sessions
             PROVE  Own(s, sent[s] \o Pending(s))'
  BY DEF AnswersInv
<1> DEFINE a == sent[s]
           b == Pending(s)
<1>1. a \in Seq(Posts) /\ b \in Seq(Posts) /\ a \o b \in Seq(Posts)
  BY LaneIs DEF TypeOK
<1>2. Own(s, a \o b)
  BY DEF AnswersInv
<1>3. CASE UNCHANGED post /\ a' \o b' = a \o b
  <2> DEFINE lane == a \o b
  <2>1. Own(s, lane) /\ lane' = lane /\ post' = post
    BY <1>2, <1>3
  <2> HIDE DEF lane
  <2>2. Own(s, lane)'
    BY <2>1 DEF Own
  <2> QED
    BY <2>2 DEF lane
<1>4. CASE UNCHANGED post /\ a' \o b' = a
  <2>1. \A i \in DOMAIN a : i \in DOMAIN (a \o b) /\ (a \o b)[i] = a[i]
    BY <1>1
  <2> DEFINE lane == a \o b
             next == a' \o b'
             rest == a
  <2>2. /\ Own(s, lane) /\ next = rest /\ post' = post
        /\ \A i \in DOMAIN rest : i \in DOMAIN lane /\ lane[i] = rest[i]
    BY <1>2, <1>4, <2>1
  <2> HIDE DEF lane, next, rest
  <2>3. /\ \A i \in DOMAIN next : /\ post'[next[i]].to = s /\ post'[next[i]].answered
                                  /\ post'[next[i]].pc = "done"
        /\ \A i, j \in DOMAIN next : next[i] = next[j] => i = j
    BY <2>2 DEF Own
  <2> QED
    BY <2>3 DEF Own, next
<1>5. ASSUME NEW p \in Posts, post[p].pc # "done", \A q \in Posts : q # p => post'[q] = post[q],
             \/ a' \o b' = a \o b
             \/ /\ a' \o b' = Append(a \o b, p)
                /\ post'[p].to = s /\ post'[p].answered /\ post'[p].pc = "done"
      PROVE  Own(s, a \o b)'
  <2> DEFINE lane == a \o b
             next == a' \o b'
  <2>1. /\ \A i \in DOMAIN lane : lane[i] # p
        /\ \A i \in DOMAIN lane : /\ post'[lane[i]].to = s /\ post'[lane[i]].answered
                                  /\ post'[lane[i]].pc = "done"
    <3>1. lane \in Seq(Posts) /\ Own(s, lane)
      BY <1>1, <1>2
    <3> HIDE DEF lane
    <3> QED
      BY <1>5, <3>1, OwnStable
  <2>2. \A i, j \in DOMAIN lane : lane[i] = lane[j] => i = j
    BY <1>2 DEF Own
  <2>3. lane \in Seq(Posts)
    BY <1>1
  <2>4. \/ next = lane
        \/ next = Append(lane, p) /\ post'[p].to = s /\ post'[p].answered /\ post'[p].pc = "done"
    BY <1>5
  <2> HIDE DEF lane, next
  <2>5. CASE next = lane
    <3>1. /\ \A i \in DOMAIN next : /\ post'[next[i]].to = s /\ post'[next[i]].answered
                                    /\ post'[next[i]].pc = "done"
          /\ \A i, j \in DOMAIN next : next[i] = next[j] => i = j
      BY <2>1, <2>2, <2>5
    <3> QED
      BY <3>1 DEF Own, next
  <2>6. CASE next = Append(lane, p) /\ post'[p].to = s /\ post'[p].answered /\ post'[p].pc = "done"
    <3>1. /\ DOMAIN lane = 1..Len(lane) /\ DOMAIN next = 1..(Len(lane) + 1) /\ Len(lane) \in Nat
          /\ \A i \in 1..Len(lane) : next[i] = lane[i]
          /\ next[Len(lane) + 1] = p
      BY <2>3, <2>6
    <3>2. /\ \A i \in DOMAIN next : /\ post'[next[i]].to = s /\ post'[next[i]].answered
                                    /\ post'[next[i]].pc = "done"
          /\ \A i, j \in DOMAIN next : next[i] = next[j] => i = j
      BY <2>1, <2>2, <2>6, <3>1
    <3> QED
      BY <3>2 DEF Own, next
  <2> QED
    BY <2>4, <2>5, <2>6
<1>6. MailboxCases
  BY NextMailbox
<1>7. CASE UNCHANGED sent /\ UNCHANGED post /\ \A o \in Sessions : Pending(o)' = Pending(o)
  BY <1>3, <1>7
<1>8. ASSUME NEW p \in Posts, UNCHANGED sent, \A o \in Sessions : Pending(o)' = Pending(o),
             post[p].pc # "done", \A q \in Posts : q # p => post'[q] = post[q]
      PROVE  Own(s, a \o b)'
  BY <1>5, <1>8
<1>9. ASSUME NEW t \in sessions, NEW p \in Posts, UNCHANGED sent,
             \A o \in Sessions : Pending(o)' = IF o = t THEN Append(Pending(t), p) ELSE Pending(o),
             post[p].pc # "done", \A q \in Posts : q # p => post'[q] = post[q],
             post'[p].to = t, post'[p].answered, post'[p].pc = "done"
      PROVE  Own(s, a \o b)'
  <2>1. CASE s = t
    <3>1. a' = a /\ b' = Append(b, p)
      BY <1>9, <2>1
    <3>2. a' \o b' = Append(a \o b, p)
      <4> HIDE DEF a, b
      <4>1. a \o Append(b, p) = Append(a \o b, p)
        BY <1>1, <1>9, LaneFacts
      <4> QED
        BY <3>1, <4>1
    <3> QED
      BY <1>5, <1>9, <2>1, <3>2
  <2>2. CASE s # t
    BY <1>5, <1>9, <2>2
  <2> QED
    BY <2>1, <2>2
<1>10. ASSUME NEW t \in sessions, UNCHANGED post, Pending(t) # <<>>,
              \A o \in Sessions : Pending(o)' = IF o = t THEN Tail(Pending(t)) ELSE Pending(o),
              sent' = [sent EXCEPT ![t] = Append(sent[t], Head(Pending(t)))]
       PROVE  Own(s, a \o b)'
  <2>1. CASE s = t
    <3>1. a' = Append(a, Head(b)) /\ b' = Tail(b) /\ b # <<>>
      BY <1>10, <2>1 DEF TypeOK
    <3>2. b # <<>> => Head(b) \in Posts
      BY <1>1
    <3>3. a' \o b' = a \o b
      BY <1>1, <3>1, <3>2, LaneFacts
    <3> QED
      BY <1>3, <1>10, <3>3
  <2>2. CASE s # t
    <3>1. a' = a /\ b' = b
      BY <1>10, <2>2 DEF TypeOK
    <3> QED
      BY <1>3, <1>10, <3>1
  <2> QED
    BY <2>1, <2>2
<1>11. ASSUME NEW t \in Sessions, UNCHANGED <<sent, post>>,
              \A o \in Sessions : Pending(o)' = IF o = t THEN <<>> ELSE Pending(o)
       PROVE  Own(s, a \o b)'
  <2>1. a' = a /\ (b' = b \/ b' = <<>>) /\ a \o <<>> = a
    BY <1>1, <1>11
  <2> QED
    BY <1>3, <1>4, <1>11, <2>1
<1> HIDE DEF a, b
<1> QED
  BY <1>6, <1>7, <1>8, <1>9, <1>10, <1>11 DEF MailboxCases, Idle, Handled, Kept, PutOn, SentOn, Closed, a, b

-----------------------------------------------------------------------------
(* Refinement *)

Lanes == [s \in Sessions |->
            (IF writing[s] \in Posts THEN <<writing[s]>> ELSE <<>>) \o queue[s]]

LEMMA LanesArePending == \A s \in Sessions : Lanes[s] = Pending(s)
BY DEF Lanes, Pending

LEMMA InitRefines == Init => Channel!Init
<1> SUFFICES ASSUME Init PROVE Channel!Init
  OBVIOUS
<1>1. \A s \in Sessions : Pending(s) = <<>> \o <<>>
  BY SseAssumption DEF Init, Pending
<1>2. <<>> \o <<>> = <<>>
  OBVIOUS
<1>3. Lanes = [s \in Sessions |-> <<>>]
  BY <1>1, <1>2 DEF Lanes, Pending
<1> QED
  BY <1>3 DEF Init, Channel!Init, Lanes

LEMMA StepRefines ==
  ASSUME TypeOK, StreamsInv, [Next]_vars
  PROVE  [Channel!Next]_<<sessions, Lanes, sent>>
<1>1. \A s \in Sessions : Lanes[s] = Pending(s)
  BY LanesArePending
<1>2. Lanes' = [s \in Sessions |-> Pending(s)'] /\ Lanes = [s \in Sessions |-> Pending(s)]
  BY DEF Lanes, Pending
<1>3. MailboxCases
  BY NextMailbox
<1>4. sessions \subseteq Sessions
  BY DEF TypeOK
<1>5. ASSUME Idle \/ \E p \in Posts : Handled(p)
      PROVE  [Channel!Next]_<<sessions, Lanes, sent>>
  <2>0. /\ Kept
        /\ sessions' = sessions \/ \E s \in Sessions : sessions' = sessions \cup {s}
    BY <1>5 DEF Idle, Handled
  <2>1. Lanes' = Lanes /\ UNCHANGED sent
    BY <1>2, <2>0 DEF Kept
  <2>2. CASE sessions' = sessions
    BY <2>1, <2>2
  <2>3. CASE \E s \in Sessions : sessions' = sessions \cup {s}
    <3>1. PICK s \in Sessions : sessions' = sessions \cup {s}
      BY <2>3
    <3>2. Channel!Open(s)
      BY <2>1, <3>1 DEF Channel!Open, Lanes
    <3> QED
      BY <3>2 DEF Channel!Next
  <2> QED
    BY <2>0, <2>2, <2>3
<1>6. ASSUME NEW s \in sessions, NEW p \in Posts, PutOn(s, p)
      PROVE  [Channel!Next]_<<sessions, Lanes, sent>>
  <2>1. Lanes' = [Lanes EXCEPT ![s] = Append(Lanes[s], p)]
    BY <1>1, <1>2, <1>4, <1>6 DEF PutOn
  <2>2. Channel!Put(s, p)
    BY <1>6, <2>1 DEF PutOn, Channel!Put, Lanes
  <2> QED
    BY <1>4, <2>2 DEF Channel!Next
<1>7. ASSUME NEW s \in sessions, SentOn(s)
      PROVE  [Channel!Next]_<<sessions, Lanes, sent>>
  <2>1. Lanes' = [Lanes EXCEPT ![s] = Tail(Lanes[s])] /\ Lanes[s] # <<>>
    BY <1>1, <1>2, <1>4, <1>7 DEF SentOn
  <2>2. sent' = [sent EXCEPT ![s] = Append(sent[s], Head(Lanes[s]))]
    BY <1>1, <1>4, <1>7 DEF SentOn
  <2>3. Channel!Send(s)
    BY <1>7, <2>1, <2>2 DEF SentOn, Channel!Send, Lanes
  <2> QED
    BY <1>4, <2>3 DEF Channel!Next
<1>8. ASSUME NEW s \in Sessions, Closed(s)
      PROVE  [Channel!Next]_<<sessions, Lanes, sent>>
  <2>1. Lanes' = [Lanes EXCEPT ![s] = <<>>]
    BY <1>1, <1>2, <1>8 DEF Closed
  <2>2. Channel!Close(s)
    BY <1>8, <2>1 DEF Closed, Channel!Close, Lanes
  <2> QED
    BY <2>2 DEF Channel!Next
<1> QED
  BY <1>3, <1>5, <1>6, <1>7, <1>8 DEF MailboxCases

-----------------------------------------------------------------------------
(* Theorems *)

\* The inductive invariant.
IInv == TypeOK /\ StreamsInv /\ KnownInv /\ AnswersInv

\* However streams come and go and in whatever order the threads answer, an
\* answer is in the stream of its own session or on the way to it.
THEOREM Inductive == Spec => []IInv
<1>1. Init => IInv
  BY TypeInit, InitStreams, InitAnswers DEF IInv
<1>2. IInv /\ [Next]_vars => IInv'
  BY TypeNext, NextStreams, NextAnswers DEF IInv
<1>3. QED
  BY <1>1, <1>2, PTL DEF Spec

\* Queues and streams hold posts; a post has one place, one addressee and one
\* status at a time.
THEOREM TypeCorrect == Spec => []TypeOK
<1>1. IInv => TypeOK
  BY DEF IInv
<1> QED
  BY <1>1, Inductive, PTL

\* The finally clause of handle_sse: a session that is registered has a
\* handler that will take its answers, or was never known to its client.
THEOREM RegisteredServed == Spec => []RegisteredIsServed
<1>1. IInv => RegisteredIsServed
  BY DEF IInv, StreamsInv, RegisteredIsServed, At
<1>2. QED
  BY <1>1, Inductive, PTL

\* handle_message and handle_sse: a stream carries answers to posts to its
\* own session, each at most once, for any number of threads.
THEOREM StreamsCarryOwnAnswers == Spec => []OwnAnswersOnce
<1>1. ASSUME IInv PROVE OwnAnswersOnce
  <2>1. \A s \in Sessions : Lane(s) = sent[s] \o Pending(s)
    BY <1>1, LaneIs DEF IInv
  <2>2. \A s \in Sessions : s \notin sessions => queue[s] = <<>>
    BY <1>1 DEF IInv, StreamsInv
  <2>3. \A s \in Sessions : Own(s, Lane(s))
    BY <1>1, <2>1 DEF IInv, AnswersInv
  <2> HIDE DEF Lane
  <2> QED
    BY <2>2, <2>3 DEF Own, OwnAnswersOnce
<1>2. QED
  BY <1>1, Inductive, PTL

\* Every stream is a mailbox: in order, without gaps, until it is closed.
THEOREM Refinement == Spec => ImplementsMailbox
<1>1. IInv /\ [Next]_vars => [Channel!Next]_<<sessions, Lanes, sent>>
  BY StepRefines DEF IInv
<1>2. QED
  BY <1>1, InitRefines, Inductive, PTL DEF Spec, ImplementsMailbox, Channel!Spec, Lanes
=============================================================================
