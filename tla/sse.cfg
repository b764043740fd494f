\* Two streams, two posts that share one thread.
SPECIFICATION FairSpec
CONSTANTS
    Sessions = {s1, s2}
    Posts = {a, b}
    Workers = 1
    Direct = Direct
    Keepalive = Keepalive
    Nothing = Nothing
CHECK_DEADLOCK FALSE
INVARIANTS RegisteredIsServed OwnAnswersOnce
PROPERTIES ImplementsMailbox AnswerArrives GoneIsForgotten
