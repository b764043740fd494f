------------------------------- MODULE Proxy -------------------------------
(***************************************************************************)
(* mcp_proxy: the lines that a client writes are posted one by one to      *)
(* /rpc of the HTTP server, which may be down, die with a request, and     *)
(* start again.  The proxy neither retries nor gives up waiting.           *)
(*                                                                         *)
(* Operators named ConnectAgain and SendTwice are deliberate defects that  *)
(* nothing uses; PROJECT.json names the property that each breaks.         *)
(***************************************************************************)
EXTENDS Naturals, Sequences

CONSTANTS
    Inputs,     \* what clients write: sequences of Kinds
    MaxCrashes  \* bound: how often the server dies

\* A request has an id, a notification has none, "scalar" is JSON but neither
\* object nor list, "junk" is not JSON, or an empty line.
Kinds == {"request", "notification", "scalar", "junk"}

ASSUME ProxyAssumption == Inputs \subseteq Seq(Kinds) /\ MaxCrashes \in Nat

VARIABLES
    input,      \* lines of the client
    line,       \* number of the line at hand
    loop,       \* where the loop of main is
    reply,      \* what the server sent
    output,     \* lines written to the client: [of: line, what]
    executed,   \* line -> how often the server has handled it
    up, crashes \* the server runs; how often it has died

proxyVars == <<input, line, loop, reply, output, executed, up, crashes>>

ProxyTypeOK ==
    /\ input \in Inputs /\ line \in 1..(Len(input) + 1)
    /\ loop \in {"read", "connect", "sent", "reply", "end"}
    /\ reply \in {"none", "answer", "error"}
    /\ output \in Seq([of : 1..Len(input), what : {"answer", "error"}])
    /\ executed \in [1..Len(input) -> Nat]
    /\ up \in BOOLEAN /\ crashes \in 0..MaxCrashes

ProxyInit ==
    /\ input \in Inputs /\ line = 1 /\ loop = "read" /\ reply = "none"
    /\ output = <<>> /\ executed = [i \in 1..Len(input) |-> 0]
    /\ up \in BOOLEAN /\ crashes = 0

ReadLine ==
    /\ loop = "read"
    /\ IF line > Len(input) THEN loop' = "end" /\ UNCHANGED line
       ELSE IF input[line] = "junk" THEN line' = line + 1 /\ UNCHANGED loop
       ELSE loop' = "connect" /\ UNCHANGED line
    /\ UNCHANGED <<input, reply, output, executed, up, crashes>>

Tell(what) == output' = Append(output, [of |-> line, what |-> what])
Continue == loop' = "read" /\ line' = line + 1

\* A refused connection is tried again until the server is there.
ConnectAgain ==
    /\ loop = "connect" /\ up
    /\ loop' = "sent" /\ UNCHANGED <<line, output>>
    /\ UNCHANGED <<input, reply, executed, up, crashes>>

\* URLError: a request is answered with an error; looking for an id in a
\* scalar raises, which is only logged.
ConnectionFailed ==
    /\ Continue
    /\ IF input[line] = "request" THEN Tell("error") ELSE UNCHANGED output

Connect ==
    /\ loop = "connect"
    /\ IF up THEN loop' = "sent" /\ UNCHANGED <<line, output>> ELSE ConnectionFailed
    /\ UNCHANGED <<input, reply, executed, up, crashes>>

\* handle_rpc: 200 or 204, or an HTTP error, when the message is refused or
\* handling it raises.
Serve ==
    /\ loop = "sent" /\ up
    /\ reply' \in CASE input[line] = "request" -> {"answer", "error"}
                    [] input[line] = "notification" -> {"none", "error"}
                    [] OTHER -> {"error"}
    /\ \E times \in IF input[line] = "scalar" THEN {0} ELSE IF reply' = "error" THEN {0, 1} ELSE {1} :
          executed' = [executed EXCEPT ![line] = @ + times]
    /\ loop' = "reply"
    /\ UNCHANGED <<input, line, output, up, crashes>>

\* A request whose connection broke is sent again.
SendTwice ==
    /\ loop = "sent" /\ ~up
    /\ loop' = "connect"
    /\ UNCHANGED <<input, line, reply, output, executed, up, crashes>>

\* The connection breaks with a request: not a URLError, hence only logged.
Broken ==
    /\ loop = "sent" /\ ~up
    /\ Continue
    /\ UNCHANGED <<input, reply, output, executed, up, crashes>>

\* HTTPError is a URLError.
Reply ==
    /\ loop = "reply"
    /\ CASE reply = "answer" -> Tell("answer") /\ Continue
         [] reply = "error" -> ConnectionFailed
         [] OTHER -> Continue /\ UNCHANGED output
    /\ reply' = "none"
    /\ UNCHANGED <<input, executed, up, crashes>>

\* The server dies; it may have handled the request before.
ServerDies ==
    /\ up /\ crashes < MaxCrashes
    /\ up' = FALSE /\ crashes' = crashes + 1
    /\ \E times \in IF loop = "sent" /\ input[line] # "scalar" THEN {0, 1} ELSE {0} :
          executed' = IF loop = "sent" THEN [executed EXCEPT ![line] = @ + times] ELSE executed
    /\ UNCHANGED <<input, line, loop, reply, output>>

ServerRestarts ==
    /\ ~up /\ loop # "sent"
    /\ up' = TRUE
    /\ UNCHANGED <<input, line, loop, reply, output, executed, crashes>>

ProxyNext == ReadLine \/ Connect \/ Serve \/ Broken \/ Reply \/ ServerDies \/ ServerRestarts

\* The proxy runs, and a server that has a request answers it or dies.
ProxySpec ==
    /\ ProxyInit /\ [][ProxyNext]_proxyVars
    /\ WF_proxyVars(ReadLine \/ Connect \/ Serve \/ Broken \/ Reply)

-----------------------------------------------------------------------------
(* Properties *)

\* A request is handled at most once, although the server may die and come
\* back, and it is answered at most once, in order; an answer means that it was
\* handled.
AtMostOnce ==
    /\ \A i \in DOMAIN input : executed[i] <= 1
    /\ \A i, j \in DOMAIN output : i < j => output[i].of < output[j].of
    /\ \A i \in DOMAIN output :
          /\ input[output[i].of] = "request"
          /\ output[i].what = "answer" => executed[output[i].of] = 1

\* Whatever the server does, every line of the client is looked at.
ReadsOn == <>(loop = "end")

=============================================================================
