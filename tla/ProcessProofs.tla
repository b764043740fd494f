---------------------------- MODULE ProcessProofs ----------------------------
(***************************************************************************)
(* Proofs about the three places where processes that may die meet: the    *)
(* servers of one checkout at their lock (InstanceLock), mcp_proxy and the *)
(* HTTP server (Proxy), and export-snapshot with the calls that read its   *)
(* files (Snapshot).  They hold for any number of processes, inodes,       *)
(* ports, lines, exports and calls.                                        *)
(*                                                                         *)
(* That one instance runs needs two facts: a flock has one holder          *)
(* (OwnershipInv), and, while no release has removed a file of another     *)
(* process, everybody has the same inode open (NameInv).  The variables of *)
(* the three modules are disjoint; each theorem is about one of them.      *)
(***************************************************************************)
EXTENDS InstanceLock, Proxy, Snapshot, TLAPS

\* While undisturbed, the lock file that is open anywhere is the one that
\* _LOCK_PATH names.
NameInv ==
    ~disturbed => \A p \in Procs : handle[p] # NoInode => handle[p] = lockName

IInv == TypeOK /\ OwnershipInv /\ NameInv /\ PidUnlessDisturbed

\* The steps of one process.
Move(p) ==
    \/ \E t \in Ports, i \in Inodes : Open(p, t, i)
    \/ Acquire(p) \/ CheckPort(p) \/ Bind(p) \/ Stop(p)
    \/ Release(p) \/ Die(p)

LEMMA InitInv == Init => IInv
BY LockAssumption DEF Init, IInv, TypeOK, OwnershipInv, NameInv, PidUnlessDisturbed,
      Locked, Instance, Removing, PCs

-----------------------------------------------------------------------------
(* Type correctness *)

LEMMA StepType ==
    ASSUME TypeOK, NEW p \in Procs, Move(p)
    PROVE  TypeOK'
<1> USE LockAssumption DEF TypeOK, PCs, Instance, Removing
<1>1. CASE \E t \in Ports, i \in Inodes : Open(p, t, i)
    BY <1>1 DEF Open
<1>2. CASE TryLock(p)
    BY <1>2 DEF TryLock
<1>3. CASE WriteLockFile(p)
    BY <1>3 DEF WriteLockFile
<1>4. CASE Refuse(p)
    BY <1>4 DEF Refuse, Unlocked
<1>5. CASE WritePid(p)
    BY <1>5 DEF WritePid
<1>6. CASE CheckPort(p)
    BY <1>6 DEF CheckPort
<1>7. CASE Bind(p)
    BY <1>7 DEF Bind
<1>8. CASE Stop(p)
    BY <1>8 DEF Stop, Unbound
<1>9. CASE Unlock(p)
    BY <1>9 DEF Unlock, Unlocked
<1>10. CASE UnlinkLock(p)
    BY <1>10 DEF UnlinkLock
<1>11. CASE UnlinkPid(p)
    BY <1>11 DEF UnlinkPid
<1>12. CASE Die(p)
    BY <1>12 DEF Die, Unlocked, Unbound
<1>13. QED
    BY <1>1, <1>2, <1>3, <1>4, <1>5, <1>6, <1>7, <1>8, <1>9, <1>10, <1>11, <1>12
    DEF Move, Acquire, Release

-----------------------------------------------------------------------------
(* Who holds what *)

LEMMA StepOwnership ==
    ASSUME TypeOK, OwnershipInv, NEW p \in Procs, Move(p)
    PROVE  OwnershipInv'
<1> USE LockAssumption DEF TypeOK, OwnershipInv, Locked, Instance, Removing, PCs
<1>1. CASE \E t \in Ports, i \in Inodes : Open(p, t, i)
    BY <1>1 DEF Open
<1>2. CASE TryLock(p)
    BY <1>2 DEF TryLock
<1>3. CASE WriteLockFile(p)
    BY <1>3 DEF WriteLockFile
<1>4. CASE Refuse(p)
    BY <1>4 DEF Refuse, Unlocked
<1>5. CASE WritePid(p)
    BY <1>5 DEF WritePid
<1>6. CASE CheckPort(p)
    BY <1>6 DEF CheckPort
<1>7. CASE Bind(p)
    BY <1>7 DEF Bind
<1>8. CASE Stop(p)
    BY <1>8 DEF Stop, Unbound
<1>9. CASE Unlock(p)
    BY <1>9 DEF Unlock, Unlocked
<1>10. CASE UnlinkLock(p)
    BY <1>10 DEF UnlinkLock
<1>11. CASE UnlinkPid(p)
    BY <1>11 DEF UnlinkPid
<1>12. CASE Die(p)
    BY <1>12 DEF Die, Unlocked, Unbound
<1>13. QED
    BY <1>1, <1>2, <1>3, <1>4, <1>5, <1>6, <1>7, <1>8, <1>9, <1>10, <1>11, <1>12
    DEF Move, Acquire, Release

\* One flock has one holder, and all locks undisturbed are locks of one inode.
LEMMA OneHolder ==
    ASSUME TypeOK, OwnershipInv, NameInv, ~disturbed,
           NEW p \in Procs, NEW q \in Procs, Locked(p), Locked(q)
    PROVE  p = q
<1>1. handle[p] \in Inodes /\ handle[q] = handle[p]
    BY DEF TypeOK, OwnershipInv, NameInv
<1>2. flock[handle[p]] = p /\ flock[handle[p]] = q
    BY <1>1 DEF OwnershipInv
<1>3. QED
    BY <1>2

-----------------------------------------------------------------------------
(* The name and the pid file *)

LEMMA StepName ==
    ASSUME TypeOK, OwnershipInv, NameInv, NEW p \in Procs, Move(p)
    PROVE  NameInv'
<1> USE LockAssumption DEF TypeOK, NameInv
<1>1. CASE \E t \in Ports, i \in Inodes : Open(p, t, i)
    BY <1>1 DEF Open
<1>2. CASE Refuse(p) \/ Unlock(p) \/ Die(p)
    BY <1>2 DEF Refuse, Unlock, Die
<1>3. CASE UnlinkLock(p)
    <2>1. handle[p] = NoInode
        BY <1>3 DEF UnlinkLock, OwnershipInv, Locked, Instance
    <2>2. QED
        BY <1>3, <2>1 DEF UnlinkLock, OthersActive
<1>4. CASE UnlinkPid(p)
    BY <1>4 DEF UnlinkPid
<1>5. CASE TryLock(p) \/ WriteLockFile(p) \/ WritePid(p) \/ CheckPort(p) \/ Bind(p) \/ Stop(p)
    BY <1>5 DEF TryLock, WriteLockFile, WritePid, CheckPort, Bind, Stop
<1>6. QED
    BY <1>1, <1>2, <1>3, <1>4, <1>5 DEF Move, Acquire, Release

LEMMA StepPid ==
    ASSUME TypeOK, OwnershipInv, NameInv, PidUnlessDisturbed, NEW p \in Procs, Move(p)
    PROVE  PidUnlessDisturbed'
<1> USE DEF TypeOK, PidUnlessDisturbed, Instance
<1>1. CASE \E t \in Ports, i \in Inodes : Open(p, t, i)
    BY <1>1 DEF Open
<1>2. CASE WritePid(p)
    <2>1. ~disturbed => \A q \in Procs : pc[q] \in Instance => q = p
        BY <1>2, OneHolder DEF WritePid, Locked
    <2>2. QED
        BY <1>2, <2>1 DEF WritePid
<1>3. CASE UnlinkPid(p)
    <2>1. ~disturbed' /\ pidFile' # pidFile => \A q \in Procs \ {p} : handle[q] = NoInode
        BY <1>3 DEF UnlinkPid, OthersActive
    <2>2. ~disturbed' /\ pidFile' # pidFile => \A q \in Procs \ {p} : pc[q] \notin Instance
        BY <2>1 DEF OwnershipInv, Locked
    <2>3. QED
        BY <1>3, <2>2 DEF UnlinkPid
<1>4. CASE TryLock(p) \/ WriteLockFile(p) \/ Refuse(p) \/ Die(p)
    BY <1>4 DEF TryLock, WriteLockFile, Refuse, Die
<1>5. CASE CheckPort(p) \/ Bind(p) \/ Stop(p)
    BY <1>5 DEF CheckPort, Bind, Stop
<1>6. CASE Unlock(p) \/ UnlinkLock(p)
    BY <1>6 DEF Unlock, UnlinkLock
<1>7. QED
    BY <1>1, <1>2, <1>3, <1>4, <1>5, <1>6 DEF Move, Acquire, Release

-----------------------------------------------------------------------------
(* Theorems *)

LEMMA NextInv == IInv /\ [Next]_vars => IInv'
<1> SUFFICES ASSUME IInv, [Next]_vars PROVE IInv'
    OBVIOUS
<1>1. CASE UNCHANGED vars
    BY <1>1 DEF IInv, TypeOK, OwnershipInv, NameInv, PidUnlessDisturbed, Locked, vars
<1>2. CASE Next
    <2>1. PICK p \in Procs : Move(p)
        BY <1>2 DEF Next, Move
    <2>2. QED
        BY <2>1, StepType, StepOwnership, StepName, StepPid DEF IInv
<1>3. QED
    BY <1>1, <1>2

\* Every reachable state has the inductive invariant.
THEOREM Inductive == Spec => []IInv
BY InitInv, NextInv, PTL DEF Spec

\* Every variable keeps its type.
THEOREM TypeCorrect == Spec => []TypeOK
<1>1. IInv => TypeOK
    BY DEF IInv
<1>2. QED
    BY <1>1, Inductive, PTL

\* Handles, flocks and ports are exactly those of the processes that are at
\* the lines between acquiring and giving them up, crashes included.
THEOREM Ownership == Spec => []OwnershipInv
<1>1. IInv => OwnershipInv
    BY DEF IInv
<1>2. QED
    BY <1>1, Inductive, PTL

\* Two instances of one checkout run only after a release has removed the lock
\* or pid file while another process had the lock file open.
THEOREM OneInstance == Spec => []OneUnlessDisturbed
<1>1. IInv => OneUnlessDisturbed
    BY OneHolder DEF IInv, OneUnlessDisturbed, Running, Locked
<1>2. QED
    BY <1>1, Inductive, PTL

\* Under the same condition the pid file names the running instance.
THEOREM PidOfInstance == Spec => []PidUnlessDisturbed
<1>1. IInv => PidUnlessDisturbed
    BY DEF IInv
<1>2. QED
    BY <1>1, Inductive, PTL

-----------------------------------------------------------------------------
(* mcp_proxy *)

Answered == [of : Nat, what : {"answer", "error"}]

\* What has been written so far is in the order of the lines, before the one at
\* hand; an answer is of a line that was handled.
OutputInv ==
    /\ output \in Seq(Answered)
    /\ \A i \in DOMAIN output :
          /\ output[i].of < line /\ output[i].of \in 1..Len(input)
          /\ input[output[i].of] = "request"
          /\ output[i].what = "answer" => executed[output[i].of] = 1
    /\ \A i, j \in DOMAIN output : i < j => output[i].of < output[j].of

\* A line has not been handled before it is posted to a server that runs: one
\* that died with it is not asked again.
BridgeInv ==
    /\ input \in Seq(Kinds)
    /\ line \in 1..(Len(input) + 1)
    /\ executed \in [1..Len(input) -> {0, 1}]
    /\ loop \in {"connect", "sent", "reply"} => line <= Len(input)
    /\ \A i \in 1..Len(input) :
          \/ i > line
          \/ i = line /\ (loop = "sent" => up) /\ loop # "reply"
          => executed[i] = 0
    /\ loop = "reply" /\ reply = "answer" => input[line] = "request" /\ executed[line] = 1
    /\ OutputInv

\* One more line is written, of the line at hand.
LEMMA OneMoreLine ==
    ASSUME BridgeInv, NEW what \in {"answer", "error"}, Tell(what), Continue,
           line <= Len(input), input[line] = "request", what = "answer" => executed[line] = 1,
           UNCHANGED <<input, executed>>
    PROVE  OutputInv'
<1> DEFINE new == [of |-> line, what |-> what]
<1>1. new \in Answered /\ new.of = line /\ new.what = what
    BY DEF BridgeInv, Answered
<1>2. output' = Append(output, new) /\ line' = line + 1 /\ output \in Seq(Answered)
    BY DEF Tell, Continue, BridgeInv, OutputInv
<1> HIDE DEF new
<1>3. /\ output' \in Seq(Answered) /\ Len(output) \in Nat
      /\ DOMAIN output = 1..Len(output)
      /\ DOMAIN output' = 1..(Len(output) + 1)
      /\ output'[Len(output) + 1] = new
      /\ \A i \in DOMAIN output : output'[i] = output[i]
    BY <1>1, <1>2
<1>4. Len(input) \in Nat /\ line \in Nat
    BY DEF BridgeInv
<1>5. ASSUME NEW i \in DOMAIN output'
      PROVE  /\ output'[i].of < line' /\ output'[i].of \in 1..Len(input)
             /\ input[output'[i].of] = "request"
             /\ output'[i].what = "answer" => executed[output'[i].of] = 1
    <2>1. CASE i = Len(output) + 1
        BY <1>1, <1>2, <1>3, <1>4, <2>1 DEF BridgeInv
    <2>2. CASE i \in DOMAIN output
        BY <1>2, <1>3, <1>4, <2>2 DEF BridgeInv, OutputInv, Answered
    <2> QED
        BY <1>3, <2>1, <2>2
<1>6. ASSUME NEW i \in DOMAIN output', NEW j \in DOMAIN output', i < j
      PROVE  output'[i].of < output'[j].of
    <2>1. i \in DOMAIN output
        BY <1>3, <1>6
    <2>2. CASE j = Len(output) + 1
        BY <1>1, <1>3, <1>4, <2>1, <2>2 DEF BridgeInv, OutputInv
    <2>3. CASE j \in DOMAIN output
        BY <1>3, <1>6, <2>1, <2>3 DEF BridgeInv, OutputInv
    <2> QED
        BY <1>3, <2>2, <2>3
<1> QED
    BY <1>2, <1>3, <1>5, <1>6 DEF OutputInv

\* Nothing is written, and what was written keeps its lines.
LEMMA NoMoreLine ==
    ASSUME BridgeInv, UNCHANGED <<input, output>>, line' \in {line, line + 1},
           \A i \in 1..Len(input) : executed[i] = 1 => executed'[i] = 1
    PROVE  OutputInv'
<1>1. line \in Nat
    BY DEF BridgeInv
<1>2. \A i \in DOMAIN output : output[i].of \in Nat /\ output[i].of < line'
    BY <1>1 DEF BridgeInv, OutputInv, Answered
<1> QED
    BY <1>2 DEF BridgeInv, OutputInv

LEMMA BridgeInit == ASSUME ProxyInit PROVE BridgeInv
<1>1. input \in Seq(Kinds)
    BY ProxyAssumption DEF ProxyInit
<1> QED
    BY <1>1 DEF ProxyInit, BridgeInv, OutputInv

LEMMA BridgeNext == BridgeInv /\ [ProxyNext]_proxyVars => BridgeInv'
<1> SUFFICES ASSUME BridgeInv, [ProxyNext]_proxyVars PROVE BridgeInv'
    OBVIOUS
<1>0. input \in Seq(Kinds) /\ Len(input) \in Nat /\ line \in Nat /\ line >= 1
    BY DEF BridgeInv
<1>1. CASE ReadLine
    <2>1. /\ UNCHANGED <<input, reply, output, executed, up>> /\ loop = "read"
          /\ \/ loop' = "end" /\ line' = line
             \/ line <= Len(input) /\ line' = line + 1 /\ loop' = "read"
             \/ line <= Len(input) /\ line' = line /\ loop' = "connect"
        BY <1>0, <1>1 DEF ReadLine
    <2>2. OutputInv'
        BY <2>1, NoMoreLine
    <2> QED
        BY <1>0, <2>1, <2>2 DEF BridgeInv
<1>2. ASSUME ConnectionFailed, UNCHANGED <<input, executed, up>>, loop \in {"connect", "reply"}
      PROVE  BridgeInv'
    <2>1. loop' = "read" /\ line' = line + 1 /\ line <= Len(input)
        BY <1>2 DEF ConnectionFailed, Continue, BridgeInv
    <2>2. OutputInv'
        <3>1. CASE input[line] = "request"
            BY <1>2, <2>1, <3>1, OneMoreLine DEF ConnectionFailed
        <3>2. CASE input[line] # "request"
            BY <1>2, <2>1, <3>2, NoMoreLine DEF ConnectionFailed
        <3> QED
            BY <3>1, <3>2
    <2> QED
        BY <1>0, <1>2, <2>1, <2>2 DEF BridgeInv
<1>3. CASE Connect
    <2>1. CASE up
        <3>1. /\ UNCHANGED <<input, line, reply, output, executed, up>>
              /\ loop = "connect" /\ loop' = "sent"
            BY <1>3, <2>1 DEF Connect
        <3>2. OutputInv'
            BY <3>1, NoMoreLine
        <3> QED
            BY <1>0, <2>1, <3>1, <3>2 DEF BridgeInv
    <2>2. CASE ~up
        BY <1>2, <1>3, <2>2 DEF Connect
    <2> QED
        BY <2>1, <2>2
<1>4. CASE Serve
    <2>1. /\ UNCHANGED <<input, line, output, up>>
          /\ loop = "sent" /\ up /\ loop' = "reply"
          /\ line \in 1..Len(input) /\ executed[line] = 0
        BY <1>0, <1>4 DEF Serve, BridgeInv
    <2>2. PICK times \in {0, 1} :
             /\ executed' = [executed EXCEPT ![line] = @ + times]
             /\ reply' = "answer" => input[line] = "request" /\ times = 1
        <3>1. PICK times \in IF input[line] = "scalar" THEN {0} ELSE IF reply' = "error" THEN {0, 1} ELSE {1} :
                 executed' = [executed EXCEPT ![line] = @ + times]
            BY <1>4 DEF Serve
        <3>2. reply' = "answer" => input[line] = "request"
            BY <1>4 DEF Serve
        <3> QED
            BY <3>1, <3>2
    <2>3. /\ executed' \in [1..Len(input) -> {0, 1}] /\ executed'[line] = times
          /\ \A i \in 1..Len(input) : i # line => executed'[i] = executed[i]
        BY <2>1, <2>2 DEF BridgeInv
    <2>4. OutputInv'
        BY <2>1, <2>3, NoMoreLine
    <2> QED
        BY <1>0, <2>1, <2>2, <2>3, <2>4 DEF BridgeInv
<1>5. CASE Broken
    <2>1. /\ UNCHANGED <<input, reply, output, executed, up>> /\ loop = "sent"
          /\ loop' = "read" /\ line' = line + 1 /\ line <= Len(input)
        BY <1>5 DEF Broken, Continue, BridgeInv
    <2>2. OutputInv'
        BY <2>1, NoMoreLine
    <2> QED
        BY <1>0, <2>1, <2>2 DEF BridgeInv
<1>6. CASE Reply
    <2>1. UNCHANGED <<input, executed, up>> /\ loop = "reply" /\ line <= Len(input) /\ reply' = "none"
        BY <1>6 DEF Reply, BridgeInv
    <2>2. CASE reply = "answer"
        <3>1. Tell("answer") /\ Continue
            BY <1>6, <2>2 DEF Reply
        <3>2. OutputInv'
            BY <2>1, <2>2, <3>1, OneMoreLine DEF BridgeInv
        <3> QED
            BY <1>0, <2>1, <3>1, <3>2 DEF BridgeInv, Continue
    <2>3. CASE reply = "error"
        BY <1>2, <1>6, <2>1, <2>3 DEF Reply
    <2>4. CASE reply \notin {"answer", "error"}
        <3>1. Continue /\ UNCHANGED output
            BY <1>6, <2>4 DEF Reply
        <3>2. OutputInv'
            BY <2>1, <3>1, NoMoreLine DEF Continue
        <3> QED
            BY <1>0, <2>1, <3>1, <3>2 DEF BridgeInv, Continue
    <2> QED
        BY <2>2, <2>3, <2>4
<1>7. CASE ServerDies
    <2>1. UNCHANGED <<input, line, loop, reply, output>> /\ up /\ up' = FALSE
        BY <1>7 DEF ServerDies
    <2>2. CASE loop = "sent"
        <3>1. PICK times \in {0, 1} : executed' = [executed EXCEPT ![line] = @ + times]
            BY <1>7, <2>2 DEF ServerDies
        <3>2. line \in 1..Len(input) /\ executed[line] = 0
            BY <1>0, <2>1, <2>2 DEF BridgeInv
        <3>3. /\ executed' \in [1..Len(input) -> {0, 1}]
              /\ \A i \in 1..Len(input) : i # line => executed'[i] = executed[i]
            BY <3>1, <3>2 DEF BridgeInv
        <3>4. OutputInv'
            BY <2>1, <3>2, <3>3, NoMoreLine
        <3> QED
            BY <1>0, <2>1, <2>2, <3>3, <3>4 DEF BridgeInv
    <2>3. CASE loop # "sent"
        <3>1. executed' = executed
            BY <1>7, <2>3 DEF ServerDies
        <3>2. OutputInv'
            BY <2>1, <3>1, NoMoreLine
        <3> QED
            BY <1>0, <2>1, <2>3, <3>1, <3>2 DEF BridgeInv
    <2> QED
        BY <2>2, <2>3
<1>8. CASE ServerRestarts
    <2>1. UNCHANGED <<input, line, loop, reply, output, executed>> /\ loop # "sent"
        BY <1>8 DEF ServerRestarts
    <2>2. OutputInv'
        BY <2>1, NoMoreLine
    <2> QED
        BY <1>0, <2>1, <2>2 DEF BridgeInv
<1>9. CASE UNCHANGED proxyVars
    BY <1>9 DEF proxyVars, BridgeInv, OutputInv
<1> QED
    BY <1>1, <1>3, <1>4, <1>5, <1>6, <1>7, <1>8, <1>9 DEF ProxyNext

\* Whenever the server dies and comes back, a request is handled at most once,
\* answered at most once and in order, and an answer means that it was handled.
THEOREM BridgeAtMostOnce == ProxySpec => []AtMostOnce
<1>1. BridgeInv => AtMostOnce
    BY DEF BridgeInv, OutputInv, AtMostOnce
<1> QED
    BY <1>1, BridgeInit, BridgeNext, PTL DEF ProxySpec

\* What BridgeInv does not say of the types.
BridgeTyped ==
    /\ input \in Inputs
    /\ loop \in {"read", "connect", "sent", "reply", "end"}
    /\ reply \in {"none", "answer", "error"}
    /\ up \in BOOLEAN /\ crashes \in 0..MaxCrashes

LEMMA BridgeTypedNext == BridgeTyped /\ [ProxyNext]_proxyVars => BridgeTyped'
<1> SUFFICES ASSUME BridgeTyped, [ProxyNext]_proxyVars PROVE BridgeTyped'
    OBVIOUS
<1> USE DEF BridgeTyped
<1>1. CASE ReadLine
    BY <1>1 DEF ReadLine
<1>2. CASE Connect
    BY <1>2 DEF Connect, ConnectionFailed, Continue
<1>3. CASE Serve
    BY <1>3 DEF Serve
<1>4. CASE Broken
    BY <1>4 DEF Broken, Continue
<1>5. CASE Reply
    <2>1. loop' = "read"
        BY <1>5 DEF Reply, ConnectionFailed, Continue
    <2>2. reply' = "none" /\ UNCHANGED <<input, up, crashes>>
        BY <1>5 DEF Reply
    <2> QED
        BY <2>1, <2>2
<1>6. CASE ServerDies
    <2>1. up' = FALSE /\ UNCHANGED <<input, loop, reply>> /\ crashes < MaxCrashes /\ crashes' = crashes + 1
        BY <1>6 DEF ServerDies
    <2>2. crashes' \in 0..MaxCrashes
        BY <2>1, ProxyAssumption
    <2> QED
        BY <2>1, <2>2
<1>7. CASE ServerRestarts
    BY <1>7 DEF ServerRestarts
<1>8. CASE UNCHANGED proxyVars
    BY <1>8 DEF proxyVars
<1> QED
    BY <1>1, <1>2, <1>3, <1>4, <1>5, <1>6, <1>7, <1>8 DEF ProxyNext

LEMMA ElementsSeq ==
    ASSUME NEW S, NEW T, NEW s \in Seq(S), \A i \in DOMAIN s : s[i] \in T
    PROVE  s \in Seq(T)
    OBVIOUS

\* The proxy is always at one line of the client or behind the last one, and
\* all it has written is of a line of the client.
THEOREM BridgeTypeCorrect == ProxySpec => []ProxyTypeOK
<1>1. ProxyInit => BridgeTyped
    BY ProxyAssumption DEF ProxyInit, BridgeTyped
<1>2. BridgeInv /\ BridgeTyped => ProxyTypeOK
    <2> SUFFICES ASSUME BridgeInv, BridgeTyped PROVE ProxyTypeOK
        OBVIOUS
    <2>1. output \in Seq([of : 1..Len(input), what : {"answer", "error"}])
        <3>1. output \in Seq(Answered) /\ \A i \in DOMAIN output : output[i].of \in 1..Len(input)
            BY DEF BridgeInv, OutputInv
        <3>2. ASSUME NEW i \in DOMAIN output
              PROVE  output[i] \in [of : 1..Len(input), what : {"answer", "error"}]
            <4>1. output[i] \in Answered /\ output[i].of \in 1..Len(input)
                BY <3>1, <3>2
            <4> QED
                BY <4>1 DEF Answered
        <3> QED
            BY <3>1, <3>2, ElementsSeq
    <2>2. executed \in [1..Len(input) -> Nat]
        BY DEF BridgeInv
    <2> QED
        BY <2>1, <2>2 DEF BridgeInv, BridgeTyped, ProxyTypeOK
<1> QED
    BY <1>1, <1>2, BridgeInit, BridgeNext, BridgeTypedNext, PTL DEF ProxySpec

-----------------------------------------------------------------------------
(* export-snapshot, what an export gathers *)

Steps == {"new", "stats", "symbols", "areas", "callers", "open", "write", "done", "dead"}
Gathered == [stats : Version \cup {Nothing}, symbols : Version \cup {Nothing},
             areas : Seq(Version \cup {Nothing, Failed, Refused})]

ExportsTyped ==
    /\ version \in Version
    /\ step \in [Exports -> Steps]
    /\ aborted \in [Exports -> BOOLEAN]
    /\ gathered \in [Exports -> Gathered]
    /\ file \in [Exports -> 1..(Len(Files) + 1)]

\* What an export at step s shows of version v, when it has gathered g and its
\* transaction is aborted or not (a).
Shown(v, s, a, g) ==
    /\ s \in {"new", "stats", "symbols"} => g.areas = <<>>
    /\ s \in {"symbols", "areas", "callers"} => g.stats \in Nat /\ g.stats <= v
    /\ s \in {"areas", "callers"} /\ g.stats = v =>
          /\ g.symbols = v
          /\ \A i \in DOMAIN g.areas :
                \/ g.areas[i] \in {v, Nothing}
                \/ \E j \in 1..i : g.areas[j] = Failed
    /\ a => \E j \in DOMAIN g.areas : g.areas[j] = Failed

\* An export writes the files one after the other, and then is done.
Paced(s, f) ==
    /\ s \in {"new", "stats", "symbols", "areas", "callers"} => f = 1
    /\ s = "write" => f <= Len(Files)
    /\ s = "done" => f = Len(Files) + 1

ShownInv ==
    /\ ExportsTyped
    /\ \A e \in Exports :
          Shown(version, step[e], aborted[e], gathered[e]) /\ Paced(step[e], file[e])

\* What a step of export e does to the exports: its own entries become s, a, g, f.
Becomes(e, s, a, g, f) ==
    /\ step' = [step EXCEPT ![e] = s] /\ aborted' = [aborted EXCEPT ![e] = a]
    /\ gathered' = [gathered EXCEPT ![e] = g] /\ file' = [file EXCEPT ![e] = f]
    /\ UNCHANGED version

LEMMA ShownOfStep ==
    ASSUME ShownInv, NEW e \in Exports, NEW s \in Steps, NEW a \in BOOLEAN, NEW g \in Gathered,
           NEW f \in 1..(Len(Files) + 1), Becomes(e, s, a, g, f), Shown(version, s, a, g), Paced(s, f)
    PROVE  ShownInv'
<1>1. ExportsTyped'
    BY DEF ShownInv, ExportsTyped, Becomes
<1>2. ASSUME NEW o \in Exports
      PROVE  Shown(version', step'[o], aborted'[o], gathered'[o]) /\ Paced(step'[o], file'[o])
    <2>1. CASE o = e
        BY <2>1 DEF ShownInv, ExportsTyped, Becomes
    <2>2. CASE o # e
        <3>1. step'[o] = step[o] /\ aborted'[o] = aborted[o] /\ gathered'[o] = gathered[o]
              /\ file'[o] = file[o] /\ version' = version
            BY <2>2 DEF ShownInv, ExportsTyped, Becomes
        <3> QED
            BY <3>1 DEF ShownInv
    <2> QED
        BY <2>1, <2>2
<1> QED
    BY <1>1, <1>2 DEF ShownInv

\* One more area.
LEMMA AreaShown ==
    ASSUME NEW v \in Nat, NEW a \in BOOLEAN, NEW g \in Gathered, Shown(v, "areas", a, g),
           NEW found \in Version \cup {Nothing, Failed, Refused},
           found \notin {v, Nothing, Failed} => a,
           NEW b \in BOOLEAN, b => a \/ found = Failed, NEW s \in {"areas", "callers"}
    PROVE  /\ [g EXCEPT !.areas = Append(@, found)] \in Gathered
           /\ Shown(v, s, b, [g EXCEPT !.areas = Append(@, found)])
<1> DEFINE S == Version \cup {Nothing, Failed, Refused}
           h == [g EXCEPT !.areas = Append(@, found)]
<1>1. g.areas \in Seq(S)
    BY DEF Gathered
<1>2. h \in Gathered /\ h.stats = g.stats /\ h.symbols = g.symbols /\ h.areas = Append(g.areas, found)
    BY <1>1 DEF Gathered
<1>3. /\ DOMAIN h.areas = DOMAIN g.areas \cup {Len(g.areas) + 1}
      /\ h.areas[Len(g.areas) + 1] = found /\ Len(g.areas) \in Nat
      /\ DOMAIN g.areas = 1..Len(g.areas)
      /\ \A i \in DOMAIN g.areas : h.areas[i] = g.areas[i]
    BY <1>1, <1>2
<1> HIDE DEF h, S
<1>4. b => \E j \in DOMAIN h.areas : h.areas[j] = Failed
    BY <1>3 DEF Shown
<1>5. ASSUME g.stats = v, NEW i \in DOMAIN h.areas
      PROVE  h.areas[i] \in {v, Nothing} \/ \E j \in 1..i : h.areas[j] = Failed
    <2>1. CASE i \in DOMAIN g.areas
        <3>1. g.areas[i] \in {v, Nothing} \/ \E j \in 1..i : g.areas[j] = Failed
            BY <1>5, <2>1 DEF Shown
        <3>2. \A j \in 1..i : j \in DOMAIN g.areas
            BY <1>3, <2>1
        <3> QED
            BY <1>3, <2>1, <3>1, <3>2
    <2>2. CASE i = Len(g.areas) + 1
        <3>1. \A j \in DOMAIN g.areas : j \in 1..i
            BY <1>3, <2>2
        <3>2. i \in 1..i
            BY <1>3, <2>2
        <3>3. a => \E j \in DOMAIN g.areas : g.areas[j] = Failed
            BY DEF Shown
        <3> QED
            BY <1>3, <2>2, <3>1, <3>2, <3>3
    <2> QED
        BY <1>3, <2>1, <2>2
<1>6. g.stats \in Nat /\ g.stats <= v /\ (g.stats = v => g.symbols = v)
    BY DEF Shown
<1>7. Shown(v, s, b, h)
    BY <1>2, <1>4, <1>5, <1>6 DEF Shown
<1> QED
    BY <1>2, <1>7 DEF h

LEMMA ClosedShown ==
    ASSUME ShownInv, NEW e \in Exports, NEW s \in {"open", "dead"}, Closed(e, s),
           UNCHANGED <<file, version>>
    PROVE  ShownInv'
<1>1. Fresh \in Gathered /\ Shown(version, s, FALSE, Fresh)
    BY DEF Fresh, Gathered, Shown
<1>2. Becomes(e, s, FALSE, Fresh, file[e])
    BY DEF Closed, Go, Becomes, ShownInv, ExportsTyped
<1>3. s \in Steps /\ file[e] \in 1..(Len(Files) + 1) /\ Paced(s, file[e])
    BY DEF Steps, ShownInv, ExportsTyped, Paced
<1> QED
    BY <1>1, <1>2, <1>3, ShownOfStep

\* Gathering, statement by statement.
LEMMA GatherShown ==
    ASSUME ShownInv, NEW e \in Exports, Gather(e)
    PROVE  ShownInv'
<1>0. /\ step[e] \in Steps /\ aborted[e] \in BOOLEAN /\ gathered[e] \in Gathered
      /\ file[e] \in 1..(Len(Files) + 1) /\ version \in Version /\ version \in Nat
      /\ Shown(version, step[e], aborted[e], gathered[e])
      /\ Paced(step[e], file[e])
    BY DEF ShownInv, ExportsTyped, Version
<1>1. CASE Begin(e)
    <2>1. Becomes(e, "stats", aborted[e], gathered[e], file[e]) /\ step[e] = "new"
        BY <1>1 DEF Begin, Go, Becomes, ShownInv, ExportsTyped
    <2>2. Shown(version, "stats", aborted[e], gathered[e]) /\ Paced("stats", file[e])
        BY <1>0, <2>1 DEF Shown, Paced
    <2> QED
        BY <1>0, <2>1, <2>2, ShownOfStep DEF Steps
<1>2. CASE Stats(e)
    <2> DEFINE g == [gathered[e] EXCEPT !.stats = version]
    <2>1. g \in Gathered /\ g.stats = version /\ g.areas = gathered[e].areas
        BY <1>0 DEF Gathered
    <2>2. Becomes(e, "symbols", aborted[e], g, file[e]) /\ step[e] = "stats"
        BY <1>2 DEF Stats, Go, Becomes, ShownInv, ExportsTyped
    <2> HIDE DEF g
    <2>3. Shown(version, "symbols", aborted[e], g) /\ Paced("symbols", file[e])
        BY <1>0, <2>1, <2>2 DEF Shown, Paced
    <2> QED
        BY <1>0, <2>1, <2>2, <2>3, ShownOfStep DEF Steps
<1>3. CASE Symbols(e)
    <2> DEFINE g == [gathered[e] EXCEPT !.symbols = version]
    <2>1. g \in Gathered /\ g.stats = gathered[e].stats /\ g.symbols = version /\ g.areas = gathered[e].areas
        BY <1>0 DEF Gathered
    <2>2. Becomes(e, "areas", aborted[e], g, file[e]) /\ step[e] = "symbols"
        BY <1>3 DEF Symbols, Go, Becomes, ShownInv, ExportsTyped
    <2> HIDE DEF g
    <2>3. g.areas = <<>> /\ DOMAIN g.areas = {}
        BY <1>0, <2>1, <2>2 DEF Shown
    <2>4. Shown(version, "areas", aborted[e], g) /\ Paced("areas", file[e])
        BY <1>0, <2>1, <2>2, <2>3 DEF Shown, Paced
    <2> QED
        BY <1>0, <2>1, <2>2, <2>4, ShownOfStep DEF Steps
<1>4. CASE Area(e)
    <2>1. PICK found \in IF aborted[e] THEN {Failed, Refused} ELSE {version, Nothing, Failed} :
             IF found = Failed /\ ScopeMap = <<>>
             THEN Closed(e, "dead")
             ELSE /\ gathered' = [gathered EXCEPT ![e].areas = Append(@, found)]
                  /\ \E sql \in IF found = Failed THEN BOOLEAN ELSE {FALSE} :
                        aborted' = [aborted EXCEPT ![e] = @ \/ sql]
                  /\ Go(e, IF Len(gathered[e].areas) + 1 = Len(Areas) THEN "callers" ELSE "areas")
        BY <1>4 DEF Area
    <2>2. UNCHANGED <<file, version>> /\ step[e] = "areas"
        BY <1>4 DEF Area
    <2>3. CASE found = Failed /\ ScopeMap = <<>>
        BY <2>1, <2>2, <2>3, ClosedShown
    <2>4. CASE ~(found = Failed /\ ScopeMap = <<>>)
        <3> DEFINE g == [gathered[e] EXCEPT !.areas = Append(@, found)]
        <3>1. PICK b \in BOOLEAN : aborted' = [aborted EXCEPT ![e] = b] /\ (b => aborted[e] \/ found = Failed)
            <4>1. PICK sql \in IF found = Failed THEN BOOLEAN ELSE {FALSE} :
                     aborted' = [aborted EXCEPT ![e] = @ \/ sql]
                BY <2>1, <2>4
            <4>2. aborted' = [aborted EXCEPT ![e] = aborted[e] \/ sql]
                BY <4>1 DEF ShownInv, ExportsTyped
            <4>3. (aborted[e] \/ sql) \in BOOLEAN /\ (sql => found = Failed)
                BY <4>1
            <4> QED
                BY <4>2, <4>3
        <3>2. PICK s \in {"areas", "callers"} : step' = [step EXCEPT ![e] = s]
            BY <2>1, <2>4 DEF Go
        <3>3. gathered' = [gathered EXCEPT ![e] = g]
            BY <2>1, <2>4 DEF ShownInv, ExportsTyped
        <3>4. found \in Version \cup {Nothing, Failed, Refused}
              /\ (found \notin {version, Nothing, Failed} => aborted[e])
            BY <1>0, <2>1
        <3>5. g \in Gathered /\ Shown(version, s, b, g)
            BY <1>0, <2>2, <3>1, <3>2, <3>4, AreaShown
        <3> HIDE DEF g
        <3>6. Becomes(e, s, b, g, file[e]) /\ Paced(s, file[e])
            BY <1>0, <2>2, <3>1, <3>2, <3>3 DEF Becomes, ShownInv, ExportsTyped, Paced
        <3> QED
            BY <1>0, <3>1, <3>2, <3>5, <3>6, ShownOfStep DEF Steps
    <2> QED
        BY <2>3, <2>4
<1>5. CASE Callers(e)
    <2>1. UNCHANGED <<file, version>> /\ \E s \in {"open", "dead"} : Closed(e, s)
        BY <1>5 DEF Callers
    <2> QED
        BY <2>1, ClosedShown
<1> QED
    BY <1>1, <1>2, <1>3, <1>4, <1>5 DEF Gather

\* Writing shows nothing more of the index.
LEMMA WritingShown ==
    ASSUME ShownInv, NEW e \in Exports, OpenFile(e) \/ Write(e) \/ ExportDies(e)
    PROVE  ShownInv'
<1>0. /\ step[e] \in Steps /\ aborted[e] \in BOOLEAN /\ gathered[e] \in Gathered
      /\ file[e] \in 1..(Len(Files) + 1) /\ Len(Files) = 5
      /\ Shown(version, step[e], aborted[e], gathered[e])
      /\ Paced(step[e], file[e])
    BY DEF ShownInv, ExportsTyped, Files
<1>1. CASE OpenFile(e)
    <2>1. Becomes(e, "write", aborted[e], gathered[e], file[e])
        BY <1>1 DEF OpenFile, Go, Becomes, ShownInv, ExportsTyped
    <2>2. Shown(version, "write", aborted[e], gathered[e]) /\ Paced("write", file[e])
        BY <1>0, <1>1 DEF Shown, Paced, OpenFile
    <2> QED
        BY <1>0, <2>1, <2>2, ShownOfStep DEF Steps
<1>2. CASE Write(e)
    <2>1. step[e] = "write" /\ file[e] \in 1..5
        BY <1>0, <1>2 DEF Write, Paced
    <2> DEFINE s == IF file[e] = Len(Files) THEN "done" ELSE "open"
    <2>2. Becomes(e, s, aborted[e], gathered[e], file[e] + 1)
        BY <1>2 DEF Write, Go, Becomes, ShownInv, ExportsTyped
    <2>3. s \in Steps /\ file[e] + 1 \in 1..(Len(Files) + 1)
        BY <1>0, <2>1 DEF Steps
    <2>4. Shown(version, s, aborted[e], gathered[e]) /\ Paced(s, file[e] + 1)
        BY <1>0, <2>1 DEF Shown, Paced
    <2> HIDE DEF s
    <2> QED
        BY <1>0, <2>2, <2>3, <2>4, ShownOfStep
<1>3. CASE ExportDies(e)
    BY <1>3, ClosedShown DEF ExportDies
<1> QED
    BY <1>1, <1>2, <1>3
LEMMA ShownInit == SnapshotInit => ShownInv
<1> SUFFICES ASSUME SnapshotInit PROVE ShownInv
    OBVIOUS
<1>1. Fresh \in Gathered /\ Shown(0, "new", FALSE, Fresh)
    <2> DEFINE S == Version \cup {Nothing, Failed, Refused}
    <2>1. <<>> \in Seq(S)
        OBVIOUS
    <2> QED
        BY <2>1 DEF Fresh, Gathered, Shown
<1>2. ExportsTyped
    <2>1. 0 \in Version /\ 1 \in 1..(Len(Files) + 1) /\ "new" \in Steps
        BY SnapshotAssumption DEF Version, Files, Steps
    <2> QED
        BY <1>1, <2>1 DEF SnapshotInit, ExportsTyped
<1> QED
    BY <1>1, <1>2 DEF SnapshotInit, ShownInv, Paced

LEMMA ShownNext == ShownInv /\ [SnapshotNext]_snapshotVars => ShownInv'
<1> SUFFICES ASSUME ShownInv, [SnapshotNext]_snapshotVars PROVE ShownInv'
    OBVIOUS
<1>1. CASE Ingest
    <2>1. version' = version + 1 /\ version < LastVersion
          /\ UNCHANGED <<step, aborted, gathered, file>>
        BY <1>1 DEF Ingest, exporting
    <2>2. version \in Nat /\ version + 1 \in Version
        BY <2>1, SnapshotAssumption DEF ShownInv, ExportsTyped, Version
    <2>3. ASSUME NEW s, NEW a, NEW g, Shown(version, s, a, g)
          PROVE  Shown(version + 1, s, a, g)
        <3>1. s \in {"symbols", "areas", "callers"} =>
                 g.stats \in Nat /\ g.stats <= version + 1 /\ g.stats # version + 1
            BY <2>2, <2>3 DEF Shown
        <3> QED
            BY <2>3, <3>1 DEF Shown
    <2> QED
        BY <2>1, <2>2, <2>3 DEF ShownInv, ExportsTyped
<1>2. CASE \E r \in Readers : StartReading(r) \/ ReadPart(r)
    <2>1. UNCHANGED <<version, step, aborted, gathered, file>>
        BY <1>2 DEF StartReading, ReadPart, exporting
    <2> QED
        BY <2>1 DEF ShownInv, ExportsTyped
<1>3. CASE UNCHANGED snapshotVars
    <2>1. UNCHANGED <<version, step, aborted, gathered, file>>
        BY <1>3 DEF snapshotVars
    <2> QED
        BY <2>1 DEF ShownInv, ExportsTyped
<1> QED
    BY <1>1, <1>2, <1>3, GatherShown, WritingShown DEF SnapshotNext

\* Although an export reads with a statement for each part, it shows one version
\* of an index that did not change meanwhile; an area that it could not search
\* comes after one whose search failed.
THEOREM ExportShowsOneIndex == SnapshotSpec => []ShowsOneIndex
<1>1. ShownInv => ShowsOneIndex
    BY DEF ShownInv, Shown, ShowsOneIndex
<1> QED
    BY <1>1, ShownInit, ShownNext, PTL DEF SnapshotSpec

-----------------------------------------------------------------------------
(* export-snapshot, the files *)

DiskTyped ==
    /\ disk \in [Parts -> [by : Exports \cup {NoExport}, whole : BOOLEAN, shared : BOOLEAN]]
    /\ asked \in [Readers -> Asked] /\ reading \in [Readers -> 0..6]
    /\ answer \in [Readers -> [Parts -> Answers]]
    /\ mixed \subseteq Exports
    /\ latest \in Exports \cup {NoExport} /\ quiet \subseteq Readers

LEMMA FilesListed ==
    /\ DOMAIN Files = 1..5 /\ Len(Files) = 5
    /\ \A i \in 1..5 : Files[i] \in Parts
    /\ \A i, j \in 1..5 : Files[i] = Files[j] => i = j
<1>1. DOMAIN Files = 1..5 /\ Len(Files) = 5
    BY DEF Files
<1>2. \A i, j \in 1..5 : Files[i] = Files[j] => i = j
    BY DEF Files
<1> QED
    BY <1>1, <1>2 DEF Parts

LEMMA OrderListed ==
    /\ DOMAIN ReadOrder = 1..5 /\ Len(ReadOrder) = 5
    /\ \A i \in 1..5 : ReadOrder[i] \in Parts
    /\ \A p \in Parts : \E i \in 1..5 : p = ReadOrder[i]
    /\ \A i, j \in 1..5 : ReadOrder[i] = ReadOrder[j] => i = j
<1>1. DOMAIN ReadOrder = 1..5 /\ Len(ReadOrder) = 5
    BY DEF ReadOrder
<1>2. Parts = {"index", "symbols", "areas", "top_files", "context_md"}
    BY DEF Parts, Files
<1>3. \A i \in 1..5 : ReadOrder[i] \in Parts
    BY <1>2 DEF ReadOrder
<1>4. /\ ReadOrder[1] = "index" /\ ReadOrder[2] = "context_md" /\ ReadOrder[3] = "symbols"
      /\ ReadOrder[4] = "areas" /\ ReadOrder[5] = "top_files"
    BY DEF ReadOrder
<1>5. \A p \in Parts : \E i \in 1..5 : p = ReadOrder[i]
    BY <1>2, <1>4
<1>6. \A i, j \in 1..5 : ReadOrder[i] = ReadOrder[j] => i = j
    BY DEF ReadOrder
<1> QED
    BY <1>1, <1>3, <1>5, <1>6

\* A step of an export that is not at its files; it ends or moves on.
Elsewhere(e) ==
    /\ UNCHANGED <<file, disk, asked, reading, answer, mixed, latest, quiet>>
    /\ \E s \in Steps :
          /\ step' = [step EXCEPT ![e] = s]
          /\ \/ s = "dead" /\ step[e] # "done"
             \/ /\ step[e] \in {"new", "stats", "symbols", "areas", "callers"}
                /\ s \in {"stats", "symbols", "areas", "callers", "open"}

LEMMA GatherElsewhere ==
    ASSUME ShownInv, NEW e \in Exports, Gather(e) \/ ExportDies(e)
    PROVE  Elsewhere(e)
<1>1. UNCHANGED <<file, disk, asked, reading, answer, mixed, latest, quiet>>
    BY DEF Gather, Begin, Stats, Symbols, Area, Callers, ExportDies,
           readers, history
<1>2. CASE Begin(e) \/ Stats(e) \/ Symbols(e)
    BY <1>1, <1>2 DEF Begin, Stats, Symbols, Go, Elsewhere, Steps
<1>3. CASE Area(e)
    <2>1. step[e] = "areas"
        BY <1>3 DEF Area
    <2>2. \E s \in {"dead", "callers", "areas"} : step' = [step EXCEPT ![e] = s]
        BY <1>3 DEF Area, Closed, Go
    <2> QED
        BY <1>1, <2>1, <2>2 DEF Elsewhere, Steps
<1>4. CASE Callers(e)
    <2>1. step[e] = "callers"
        BY <1>4 DEF Callers
    <2>2. \E s \in {"dead", "open"} : step' = [step EXCEPT ![e] = s]
        BY <1>4 DEF Callers, Closed, Go
    <2> QED
        BY <1>1, <2>1, <2>2 DEF Elsewhere, Steps
<1>5. CASE ExportDies(e)
    BY <1>1, <1>5 DEF ExportDies, Closed, Go, Elsewhere, Steps
<1> QED
    BY <1>2, <1>3, <1>4, <1>5 DEF Gather

\* A file that is whole was finished by its author, and so was what calls have
\* read of it.
TornInv ==
    /\ DiskTyped
    /\ \A i \in 1..5 : disk[Files[i]].whole =>
          disk[Files[i]].by \in Exports /\ file[disk[Files[i]].by] > i
    /\ \A r \in Readers, i \in 1..5 :
          answer[r][Files[i]] \in Exports => file[answer[r][Files[i]]] > i

LEMMA FilesGoOn ==
    ASSUME ShownInv, [SnapshotNext]_snapshotVars, NEW e \in Exports
    PROVE  file[e] \in Nat /\ file'[e] \in Nat /\ file[e] <= file'[e]
<1>1. file[e] \in Nat
    BY FilesListed DEF ShownInv, ExportsTyped
<1>2. CASE UNCHANGED file
    BY <1>1, <1>2
<1>3. ASSUME NEW x \in Exports, Write(x)
      PROVE  file'[e] = IF e = x THEN file[e] + 1 ELSE file[e]
    BY <1>3 DEF Write, ShownInv, ExportsTyped
<1>4. UNCHANGED file \/ \E x \in Exports : Write(x)
    <2>1. \A x \in Exports : Gather(x) \/ ExportDies(x) => UNCHANGED file
        BY GatherElsewhere DEF Elsewhere
    <2> QED
        BY <2>1 DEF SnapshotNext, snapshotVars, Ingest, OpenFile, StartReading, ReadPart,
                    exporting
<1> QED
    BY <1>1, <1>2, <1>3, <1>4

\* What has been read, and the files, stay.
LEMMA TornKept ==
    ASSUME ShownInv, TornInv, [SnapshotNext]_snapshotVars, DiskTyped',
           UNCHANGED disk, \A r \in Readers : answer'[r] = answer[r]
    PROVE  TornInv'
<1>1. ASSUME NEW i \in 1..5, disk[Files[i]].whole
      PROVE  disk[Files[i]].by \in Exports /\ file'[disk[Files[i]].by] > i
    BY <1>1, FilesGoOn DEF TornInv
<1>2. ASSUME NEW r \in Readers, NEW i \in 1..5, answer[r][Files[i]] \in Exports
      PROVE  file'[answer[r][Files[i]]] > i
    BY <1>2, FilesGoOn DEF TornInv
<1> QED
    BY <1>1, <1>2 DEF TornInv

\* The entry of a file while e has it open, and after it was written.
LEMMA OpenChanges ==
    ASSUME ShownInv, DiskTyped, NEW e \in Exports, OpenFile(e)
    PROVE  /\ step[e] = "open" /\ file[e] \in 1..5 /\ UNCHANGED <<file, asked, reading, answer>>
           /\ step' = [step EXCEPT ![e] = "write"] /\ latest' = e /\ quiet' = {}
           /\ \E b \in BOOLEAN :
                 /\ disk' = [disk EXCEPT ![Files[file[e]]] = [by |-> e, whole |-> FALSE, shared |-> b]]
                 /\ b => \E o \in Exports \ {e} : step[o] = "write"
           /\ mixed' = mixed \cup IF \E o \in Exports \ {e} : Writing(o)
                                  THEN {e} \cup {o \in Exports : Writing(o)} ELSE {}
           /\ DiskTyped'
<1>1. /\ step[e] = "open" /\ UNCHANGED <<file, asked, reading, answer>>
      /\ step' = [step EXCEPT ![e] = "write"] /\ latest' = e /\ quiet' = {}
      /\ mixed' = mixed \cup IF \E o \in Exports \ {e} : Writing(o)
                             THEN {e} \cup {o \in Exports : Writing(o)} ELSE {}
    BY DEF OpenFile, Go, readers
<1>2. file[e] \in 1..5
    BY FilesListed DEF OpenFile, ShownInv, ExportsTyped
<1> DEFINE p == Files[file[e]]
           b == \E o \in Exports \ {e} : step[o] = "write" /\ Files[file[o]] = p
<1>3. disk' = [disk EXCEPT ![p] = [by |-> e, whole |-> FALSE, shared |-> b]]
    BY DEF OpenFile
<1>4. b \in BOOLEAN /\ (b => \E o \in Exports \ {e} : step[o] = "write")
    OBVIOUS
<1>5. DiskTyped'
    <2>1. p \in Parts
        BY <1>2, FilesListed
    <2> HIDE DEF p, b
    <2>2. disk' \in [Parts -> [by : Exports \cup {NoExport}, whole : BOOLEAN, shared : BOOLEAN]]
        BY <1>3, <1>4, <2>1 DEF DiskTyped
    <2> QED
        BY <1>1, <2>2 DEF DiskTyped
<1> HIDE DEF b
<1> QED
    BY <1>1, <1>2, <1>3, <1>4, <1>5

LEMMA WriteChanges ==
    ASSUME ShownInv, DiskTyped, NEW e \in Exports, Write(e)
    PROVE  /\ step[e] = "write" /\ file[e] \in 1..5
           /\ file' = [file EXCEPT ![e] = file[e] + 1]
           /\ step' = [step EXCEPT ![e] = IF file[e] = 5 THEN "done" ELSE "open"] /\ quiet' = {}
           /\ UNCHANGED <<asked, reading, answer, mixed, latest>>
           /\ \E w \in BOOLEAN, b \in BOOLEAN :
                 /\ disk' = [disk EXCEPT ![Files[file[e]]] = [by |-> e, whole |-> w, shared |-> b]]
                 /\ disk[Files[file[e]]].by = e /\ ~disk[Files[file[e]]].shared => w
           /\ DiskTyped'
<1> DEFINE p == Files[file[e]]
           alone == disk[p].by = e /\ ~disk[p].shared
<1>1. /\ step[e] = "write" /\ quiet' = {} /\ UNCHANGED <<asked, reading, answer, mixed, latest>>
      /\ step' = [step EXCEPT ![e] = IF file[e] = 5 THEN "done" ELSE "open"]
      /\ file' = [file EXCEPT ![e] = file[e] + 1]
    BY FilesListed DEF Write, Go, readers, ShownInv, ExportsTyped
<1>2. file[e] \in 1..5
    BY <1>1, FilesListed DEF ShownInv, ExportsTyped, Paced
<1>3. PICK w \in IF alone THEN {TRUE} ELSE BOOLEAN :
         disk' = [disk EXCEPT ![p] = [by |-> e, whole |-> w, shared |-> ~alone]]
    BY DEF Write
<1>4. w \in BOOLEAN /\ (~alone) \in BOOLEAN /\ (alone => w)
    BY <1>3
<1>5. DiskTyped'
    <2>1. p \in Parts
        BY <1>2, FilesListed
    <2> HIDE DEF p, alone
    <2>2. disk' \in [Parts -> [by : Exports \cup {NoExport}, whole : BOOLEAN, shared : BOOLEAN]]
        BY <1>3, <1>4, <2>1 DEF DiskTyped
    <2> QED
        BY <1>1, <2>2 DEF DiskTyped
<1>6. \E ww \in BOOLEAN, b \in BOOLEAN :
         /\ disk' = [disk EXCEPT ![p] = [by |-> e, whole |-> ww, shared |-> b]]
         /\ alone => ww
    BY <1>3, <1>4
<1> QED
    BY <1>1, <1>2, <1>5, <1>6

\* What a call does; a is what it takes for the part that it reads.
LEMMA ReadChanges ==
    ASSUME DiskTyped, NEW r \in Readers, ReadPart(r)
    PROVE  /\ UNCHANGED <<version, step, aborted, gathered, file, disk, asked, mixed, latest, quiet>>
           /\ reading[r] \in 1..5
           /\ \E a \in IF ReadOrder[reading[r]] = "index" \/ asked[r] \in {ReadOrder[reading[r]], "all"}
                       THEN Read(ReadOrder[reading[r]]) ELSE {"none"} :
                 /\ answer' = [answer EXCEPT ![r] = [answer[r] EXCEPT ![ReadOrder[reading[r]]] = a]]
                 /\ reading' = [reading EXCEPT ![r] =
                                  IF ReadOrder[reading[r]] = "context_md" /\ a = "error"
                                  THEN 6 ELSE reading[r] + 1]
           /\ DiskTyped'
<1>1. /\ UNCHANGED <<version, step, aborted, gathered, file, disk, asked, mixed, latest, quiet>>
      /\ reading[r] \in 1..5
    BY OrderListed DEF ReadPart, exporting, history
<1> DEFINE p == ReadOrder[reading[r]]
<1>2. PICK a \in IF p = "index" \/ asked[r] \in {p, "all"} THEN Read(p) ELSE {"none"} :
         /\ answer' = [answer EXCEPT ![r][p] = a]
         /\ reading' = [reading EXCEPT ![r] = IF p = "context_md" /\ a = "error"
                                             THEN Len(ReadOrder) + 1 ELSE @ + 1]
    BY DEF ReadPart
<1>3. p \in Parts
    BY <1>1, OrderListed
<1>4. disk[p] \in [by : Exports \cup {NoExport}, whole : BOOLEAN, shared : BOOLEAN]
    BY <1>3 DEF DiskTyped
<1> HIDE DEF p
<1>5. Read(p) \subseteq Answers /\ "none" \in Answers
    BY <1>4 DEF Read, Answers
<1>6. a \in Answers
    BY <1>2, <1>5
<1>7. answer' = [answer EXCEPT ![r] = [answer[r] EXCEPT ![p] = a]]
    BY <1>2 DEF DiskTyped
<1>8. answer' \in [Readers -> [Parts -> Answers]]
    BY <1>3, <1>6, <1>7 DEF DiskTyped
<1>9. reading' = [reading EXCEPT ![r] = IF p = "context_md" /\ a = "error" THEN 6 ELSE reading[r] + 1]
    BY <1>2, OrderListed DEF DiskTyped
<1>10. reading' \in [Readers -> 0..6]
    BY <1>1, <1>9 DEF DiskTyped
<1>11. DiskTyped'
    BY <1>1, <1>8, <1>10 DEF DiskTyped
<1> QED
    BY <1>1, <1>2, <1>7, <1>9, <1>11 DEF p

LEMMA StartChanges ==
    ASSUME DiskTyped, NEW r \in Readers, StartReading(r)
    PROVE  /\ UNCHANGED <<version, step, aborted, gathered, file, disk, asked, mixed, latest>>
           /\ reading[r] = 0
           /\ IF disk["index"].by = NoExport
              THEN /\ answer' = [answer EXCEPT ![r] = [p \in Parts |-> "none"]]
                   /\ reading' = [reading EXCEPT ![r] = 6]
              ELSE UNCHANGED answer /\ reading' = [reading EXCEPT ![r] = 1]
           /\ quiet' \subseteq quiet \cup {r}
           /\ DiskTyped'
<1>1. /\ UNCHANGED <<version, step, aborted, gathered, file, disk, asked, mixed, latest>>
      /\ reading[r] = 0 /\ quiet' \subseteq quiet \cup {r}
      /\ IF disk["index"].by = NoExport
         THEN /\ answer' = [answer EXCEPT ![r] = [p \in Parts |-> "none"]]
              /\ reading' = [reading EXCEPT ![r] = 6]
         ELSE UNCHANGED answer /\ reading' = [reading EXCEPT ![r] = 1]
    BY OrderListed DEF StartReading, exporting
<1>2. answer' \in [Readers -> [Parts -> Answers]]
    <2>1. [p \in Parts |-> "none"] \in [Parts -> Answers]
        BY DEF Answers
    <2> QED
        BY <1>1, <2>1 DEF DiskTyped
<1>3. DiskTyped'
    BY <1>1, <1>2 DEF DiskTyped
<1> QED
    BY <1>1, <1>3

LEMMA DiskInit == ASSUME SnapshotInit PROVE DiskTyped
<1>1. [p \in Parts |-> "unanswered"] \in [Parts -> Answers]
    BY DEF Answers
<1> QED
    BY <1>1 DEF SnapshotInit, DiskTyped

LEMMA TornInit == ASSUME SnapshotInit PROVE TornInv
<1>1. ASSUME NEW i \in 1..5
      PROVE  disk[Files[i]].whole = FALSE
    BY FilesListed DEF SnapshotInit
<1>2. ASSUME NEW r \in Readers, NEW i \in 1..5
      PROVE  answer[r][Files[i]] = "unanswered"
    BY FilesListed DEF SnapshotInit
<1> QED
    BY <1>1, <1>2, DiskInit, SnapshotAssumption DEF TornInv

LEMMA TornNext ==
    ASSUME ShownInv, TornInv, [SnapshotNext]_snapshotVars
    PROVE  TornInv'
<1>0. DiskTyped /\ "none" \notin Exports /\ "error" \notin Exports /\ "cut" \notin Exports
    BY SnapshotAssumption DEF TornInv
<1>1. CASE Ingest
    <2>1. UNCHANGED <<disk, asked, reading, answer, mixed, latest, quiet>>
        BY <1>1 DEF Ingest, readers, history
    <2> QED
        BY <1>0, <2>1, TornKept DEF DiskTyped
<1>2. ASSUME NEW e \in Exports, Gather(e) \/ ExportDies(e)
      PROVE  TornInv'
    <2>1. UNCHANGED <<disk, asked, reading, answer, mixed, latest, quiet>>
        BY <1>2, GatherElsewhere DEF Elsewhere
    <2> QED
        BY <1>0, <2>1, TornKept DEF DiskTyped
<1>3. ASSUME NEW e \in Exports, OpenFile(e)
      PROVE  TornInv'
    <2> DEFINE p == Files[file[e]]
    <2>1. file[e] \in 1..5 /\ UNCHANGED <<file, answer>> /\ DiskTyped'
        BY <1>0, <1>3, OpenChanges
    <2>2. PICK b \in BOOLEAN : disk' = [disk EXCEPT ![p] = [by |-> e, whole |-> FALSE, shared |-> b]]
        BY <1>0, <1>3, OpenChanges
    <2>3. ASSUME NEW i \in 1..5, disk'[Files[i]].whole
          PROVE  disk'[Files[i]] = disk[Files[i]]
        BY <1>0, <2>1, <2>2, <2>3, FilesListed DEF DiskTyped
    <2> QED
        BY <2>1, <2>3 DEF TornInv
<1>4. ASSUME NEW e \in Exports, Write(e)
      PROVE  TornInv'
    <2> DEFINE p == Files[file[e]]
    <2>1. /\ file[e] \in 1..5 /\ UNCHANGED answer /\ DiskTyped'
          /\ file' = [file EXCEPT ![e] = file[e] + 1]
        BY <1>0, <1>4, WriteChanges
    <2>2. PICK w \in BOOLEAN, b \in BOOLEAN :
             disk' = [disk EXCEPT ![p] = [by |-> e, whole |-> w, shared |-> b]]
        BY <1>0, <1>4, WriteChanges
    <2>3. \A x \in Exports : file[x] \in Nat /\ file'[x] \in Nat /\ file[x] <= file'[x]
        BY <1>4, FilesGoOn DEF SnapshotNext
    <2>4. ASSUME NEW i \in 1..5, disk'[Files[i]].whole
          PROVE  disk'[Files[i]].by \in Exports /\ file'[disk'[Files[i]].by] > i
        <3>1. CASE i = file[e]
            BY <1>0, <2>1, <2>2, <3>1, FilesListed DEF DiskTyped, ShownInv, ExportsTyped
        <3>2. CASE i # file[e]
            <4>1. disk'[Files[i]] = disk[Files[i]]
                BY <1>0, <2>1, <2>2, <3>2, FilesListed DEF DiskTyped
            <4> QED
                BY <2>3, <2>4, <4>1 DEF TornInv
        <3> QED
            BY <3>1, <3>2
    <2>5. ASSUME NEW r \in Readers, NEW i \in 1..5, answer[r][Files[i]] \in Exports
          PROVE  file'[answer[r][Files[i]]] > i
        BY <2>3, <2>5 DEF TornInv
    <2> QED
        BY <2>1, <2>4, <2>5 DEF TornInv
<1>5. ASSUME NEW r \in Readers, StartReading(r)
      PROVE  TornInv'
    <2>1. /\ UNCHANGED <<disk, file>> /\ DiskTyped'
          /\ answer' = answer \/ answer' = [answer EXCEPT ![r] = [p \in Parts |-> "none"]]
        BY <1>0, <1>5, StartChanges
    <2>2. ASSUME NEW x \in Readers, NEW i \in 1..5, answer'[x][Files[i]] \in Exports
          PROVE  answer'[x][Files[i]] = answer[x][Files[i]]
        BY <1>0, <2>1, <2>2, FilesListed DEF DiskTyped
    <2> QED
        BY <2>1, <2>2 DEF TornInv
<1>6. ASSUME NEW r \in Readers, ReadPart(r)
      PROVE  TornInv'
    <2> DEFINE p == ReadOrder[reading[r]]
    <2>1. UNCHANGED <<disk, file>> /\ DiskTyped' /\ p \in Parts
        BY <1>0, <1>6, ReadChanges, OrderListed
    <2>2. PICK a \in Read(p) \cup {"none"} :
             answer' = [answer EXCEPT ![r] = [answer[r] EXCEPT ![p] = a]]
        BY <1>0, <1>6, ReadChanges
    <2>3. a \in Exports => disk[p].whole /\ a = disk[p].by
        BY <1>0, <2>2 DEF Read
    <2> HIDE DEF p
    <2>4. ASSUME NEW x \in Readers, NEW i \in 1..5, answer'[x][Files[i]] \in Exports
          PROVE  file[answer'[x][Files[i]]] > i
        <3>1. CASE x = r /\ p = Files[i]
            <4>1. answer'[x][Files[i]] = a
                BY <1>0, <2>1, <2>2, <3>1 DEF DiskTyped
            <4> QED
                BY <2>3, <2>4, <3>1, <4>1 DEF TornInv
        <3>2. CASE ~(x = r /\ p = Files[i])
            <4>1. answer'[x][Files[i]] = answer[x][Files[i]]
                BY <1>0, <2>1, <2>2, <3>2, FilesListed DEF DiskTyped
            <4> QED
                BY <2>4, <4>1 DEF TornInv
        <3> QED
            BY <3>1, <3>2
    <2> QED
        BY <2>1, <2>4 DEF TornInv
<1>7. CASE UNCHANGED snapshotVars
    <2>1. UNCHANGED <<disk, asked, reading, answer, mixed, latest, quiet>>
        BY <1>7 DEF snapshotVars
    <2> QED
        BY <1>0, <2>1, TornKept DEF DiskTyped
<1> QED
    BY <1>1, <1>2, <1>3, <1>4, <1>5, <1>6, <1>7 DEF SnapshotNext

\* However exports overlap and whenever they die, a part that a call returns as
\* one of an export was finished by that export.
THEOREM SnapshotHasNoTornPart == SnapshotSpec => []NoTornPart
<1>1. TornInv => NoTornPart
    BY FilesListed DEF TornInv, NoTornPart
<1>2. SnapshotInit => ShownInv /\ TornInv
    BY ShownInit, TornInit
<1>3. ShownInv /\ TornInv /\ [SnapshotNext]_snapshotVars => ShownInv' /\ TornInv'
    BY ShownNext, TornNext
<1> QED
    BY <1>1, <1>2, <1>3, PTL DEF SnapshotSpec

\* The last export that began to write has the files to itself, until another
\* begins: when nobody mixed with it, all that it has finished is its own.
OwnerInv ==
    /\ latest \in Exports => step[latest] \in {"open", "write", "done", "dead"}
    /\ \A x \in Exports \ mixed : Writing(x) => latest = x
    /\ latest \in Exports \ mixed /\ step[latest] \in {"open", "write", "done"} =>
          /\ \A o \in Exports \ {latest} : ~Writing(o)
          /\ \A i \in 1..5 : i < file[latest] =>
                disk[Files[i]].by = latest /\ disk[Files[i]].whole
          /\ step[latest] = "write" =>
                disk[Files[file[latest]]].by = latest /\ ~disk[Files[file[latest]]].shared

\* Then what a call has read so far, while nobody wrote, is of that export.
Sole == latest \in Exports \ mixed /\ step[latest] = "done"

QuietInv ==
    \A r \in quiet : Sole =>
        /\ reading[r] >= 1
        /\ \A i \in 1..5 : i < reading[r] =>
              answer[r][ReadOrder[i]] =
                 IF ReadOrder[i] = "index" \/ asked[r] \in {ReadOrder[i], "all"}
                 THEN latest ELSE "none"

WholeInv == ShownInv /\ TornInv /\ OwnerInv /\ QuietInv

LEMMA WholeInit == ASSUME SnapshotInit PROVE WholeInv
<1>1. ShownInv /\ TornInv
    BY ShownInit, TornInit
<1>2. latest = NoExport /\ latest \notin Exports /\ quiet = {} /\ \A x \in Exports : ~Writing(x)
    BY SnapshotAssumption DEF SnapshotInit, Writing
<1> QED
    BY <1>1, <1>2 DEF WholeInv, OwnerInv, QuietInv

LEMMA OwnerElsewhere ==
    ASSUME WholeInv, NEW e \in Exports, Elsewhere(e)
    PROVE  OwnerInv' /\ QuietInv'
<1>0. step \in [Exports -> Steps]
    BY DEF WholeInv, ShownInv, ExportsTyped
<1>1. PICK s \in Steps :
         /\ step' = [step EXCEPT ![e] = s]
         /\ \/ s = "dead" /\ step[e] # "done"
            \/ /\ step[e] \in {"new", "stats", "symbols", "areas", "callers"}
               /\ s \in {"stats", "symbols", "areas", "callers", "open"}
    BY DEF Elsewhere
<1>2. UNCHANGED <<file, disk, asked, reading, answer, mixed, latest, quiet>>
    BY DEF Elsewhere
<1>3. step'[e] = s /\ \A x \in Exports : x # e => step'[x] = step[x]
    BY <1>0, <1>1
<1>4. ASSUME NEW x \in Exports, Writing(x)'
      PROVE  Writing(x)
    <2>1. CASE x = e
        <3>1. step[e] \in {"new", "stats", "symbols", "areas", "callers"} /\ s = "open" /\ file[e] > 1
            BY <1>1, <1>2, <1>3, <1>4, <2>1 DEF Writing
        <3>2. file[e] = 1
            BY <3>1 DEF WholeInv, ShownInv, Paced
        <3> QED
            BY <3>1, <3>2
    <2>2. CASE x # e
        BY <1>2, <1>3, <1>4, <2>2 DEF Writing
    <2> QED
        BY <2>1, <2>2
<1>5. latest \in Exports => \/ step'[latest] = step[latest]
                            \/ latest = e /\ s = "dead" /\ step[e] # "done"
    BY <1>1, <1>3 DEF WholeInv, OwnerInv
<1>6. OwnerInv'
    <2>1. latest' \in Exports => step'[latest'] \in {"open", "write", "done", "dead"}
        BY <1>2, <1>3, <1>5 DEF WholeInv, OwnerInv
    <2>2. ASSUME NEW x \in Exports \ mixed', Writing(x)'
          PROVE  latest' = x
        BY <1>2, <1>4, <2>2 DEF WholeInv, OwnerInv
    <2>3. ASSUME latest' \in Exports \ mixed', step'[latest'] \in {"open", "write", "done"}
          PROVE  /\ \A o \in Exports \ {latest'} : ~Writing(o)'
                 /\ \A i \in 1..5 : i < file'[latest'] =>
                       disk'[Files[i]].by = latest' /\ disk'[Files[i]].whole
                 /\ step'[latest'] = "write" =>
                       disk'[Files[file'[latest']]].by = latest'
                       /\ ~disk'[Files[file'[latest']]].shared
        <3>1. step'[latest] = step[latest] /\ latest \in Exports \ mixed
            BY <1>2, <1>3, <1>5, <2>3
        <3> QED
            BY <1>2, <1>4, <2>3, <3>1 DEF WholeInv, OwnerInv
    <2> QED
        BY <2>1, <2>2, <2>3 DEF OwnerInv
<1>7. Sole' => Sole
    BY <1>2, <1>3, <1>5 DEF Sole
<1>8. QuietInv'
    BY <1>2, <1>7 DEF WholeInv, QuietInv, Sole
<1> QED
    BY <1>6, <1>8

\* A step that leaves the exports and the files alone.
LEMMA OwnerKept ==
    ASSUME WholeInv, UNCHANGED <<step, file, disk, mixed, latest>>
    PROVE  OwnerInv' /\ (Sole' <=> Sole)
<1>1. \A x : Writing(x)' <=> Writing(x)
    BY DEF Writing
<1> QED
    BY <1>1 DEF WholeInv, OwnerInv, Sole

LEMMA OwnerOpen ==
    ASSUME WholeInv, NEW e \in Exports, OpenFile(e)
    PROVE  OwnerInv' /\ QuietInv'
<1> DEFINE p == Files[file[e]]
<1>0. /\ step \in [Exports -> Steps] /\ ShownInv /\ DiskTyped
      /\ \A x \in Exports : file[x] \in Nat
    BY FilesListed DEF WholeInv, ShownInv, ExportsTyped, TornInv
<1>1. /\ step[e] = "open" /\ file[e] \in 1..5 /\ UNCHANGED file
      /\ step' = [step EXCEPT ![e] = "write"] /\ latest' = e /\ quiet' = {}
      /\ mixed' = mixed \cup IF \E o \in Exports \ {e} : Writing(o)
                             THEN {e} \cup {o \in Exports : Writing(o)} ELSE {}
    BY <1>0, OpenChanges
<1>2. PICK b \in BOOLEAN :
         /\ disk' = [disk EXCEPT ![p] = [by |-> e, whole |-> FALSE, shared |-> b]]
         /\ b => \E o \in Exports \ {e} : step[o] = "write"
    BY <1>0, OpenChanges
<1>3. step'[e] = "write" /\ \A x \in Exports : x # e => step'[x] = step[x]
    BY <1>0, <1>1
<1>4. \A x \in Exports \ {e} : Writing(x)' <=> Writing(x)
    BY <1>1, <1>3 DEF Writing
<1>5. \A x \in Exports \ mixed' : x # e => ~Writing(x)
    BY <1>1
<1>6. e \notin mixed' => e \notin mixed /\ \A o \in Exports \ {e} : ~Writing(o)
    BY <1>1
<1>7. /\ disk'[p] = [by |-> e, whole |-> FALSE, shared |-> b]
      /\ \A i \in 1..5 : i # file[e] => disk'[Files[i]] = disk[Files[i]]
    BY <1>0, <1>1, <1>2, FilesListed DEF DiskTyped
<1>8. ASSUME e \notin mixed'
      PROVE  /\ \A i \in 1..5 : i < file[e] => disk'[Files[i]].by = e /\ disk'[Files[i]].whole
             /\ ~b
    <2>1. file[e] > 1 => Writing(e)
        BY <1>1 DEF Writing
    <2>2. file[e] > 1 => latest = e
        BY <1>6, <1>8, <2>1 DEF WholeInv, OwnerInv
    <2>3. \A i \in 1..5 : i < file[e] => disk[Files[i]].by = e /\ disk[Files[i]].whole
        BY <1>0, <1>1, <1>6, <1>8, <2>2 DEF WholeInv, OwnerInv
    <2>4. \A i \in 1..5 : i < file[e] => disk'[Files[i]] = disk[Files[i]]
        BY <1>0, <1>1, <1>7
    <2>5. ~b
        BY <1>2, <1>6, <1>8 DEF Writing
    <2> QED
        BY <2>3, <2>4, <2>5
<1> HIDE DEF p
<1>9. OwnerInv'
    <2>1. latest' \in Exports => step'[latest'] \in {"open", "write", "done", "dead"}
        BY <1>1, <1>3
    <2>2. ASSUME NEW x \in Exports \ mixed', Writing(x)'
          PROVE  latest' = x
        BY <1>1, <1>4, <1>5, <2>2
    <2>3. ASSUME latest' \in Exports \ mixed'
          PROVE  /\ \A o \in Exports \ {latest'} : ~Writing(o)'
                 /\ \A i \in 1..5 : i < file'[latest'] =>
                       disk'[Files[i]].by = latest' /\ disk'[Files[i]].whole
                 /\ disk'[Files[file'[latest']]].by = latest'
                 /\ ~disk'[Files[file'[latest']]].shared
        <3>1. \A o \in Exports \ {latest'} : ~Writing(o)'
            BY <1>1, <1>4, <1>6, <2>3
        <3>2. disk'[Files[file'[latest']]] = [by |-> e, whole |-> FALSE, shared |-> b]
            BY <1>1, <1>7 DEF p
        <3> QED
            BY <1>1, <1>8, <2>3, <3>1, <3>2
    <2> QED
        BY <2>1, <2>2, <2>3 DEF OwnerInv
<1> QED
    BY <1>1, <1>9 DEF QuietInv

LEMMA OwnerWrite ==
    ASSUME WholeInv, NEW e \in Exports, Write(e)
    PROVE  OwnerInv' /\ QuietInv'
<1> DEFINE p == Files[file[e]]
<1>0. /\ step \in [Exports -> Steps] /\ ShownInv /\ DiskTyped
      /\ file \in [Exports -> Nat]
    BY FilesListed DEF WholeInv, ShownInv, ExportsTyped, TornInv
<1>1. /\ step[e] = "write" /\ file[e] \in 1..5 /\ file' = [file EXCEPT ![e] = file[e] + 1]
      /\ step' = [step EXCEPT ![e] = IF file[e] = 5 THEN "done" ELSE "open"] /\ quiet' = {}
      /\ UNCHANGED <<mixed, latest>>
    BY <1>0, WriteChanges
<1>2. PICK w \in BOOLEAN, b \in BOOLEAN :
         /\ disk' = [disk EXCEPT ![p] = [by |-> e, whole |-> w, shared |-> b]]
         /\ disk[p].by = e /\ ~disk[p].shared => w
    BY <1>0, WriteChanges
<1>3. /\ step'[e] \in {"done", "open"} /\ file'[e] = file[e] + 1
      /\ \A x \in Exports : x # e => step'[x] = step[x] /\ file'[x] = file[x]
    BY <1>0, <1>1
<1>4. Writing(e) /\ \A x \in Exports : Writing(x)' => Writing(x)
    BY <1>1, <1>3 DEF Writing
<1>5. /\ disk'[p] = [by |-> e, whole |-> w, shared |-> b]
      /\ \A i \in 1..5 : i # file[e] => disk'[Files[i]] = disk[Files[i]]
    BY <1>0, <1>1, <1>2, FilesListed DEF DiskTyped
<1>6. latest \in Exports => step[latest] \in {"open", "write", "done", "dead"}
    BY DEF WholeInv, OwnerInv
<1>7. ASSUME latest \in Exports \ mixed, step'[latest] \in {"open", "write", "done"}
      PROVE  /\ latest = e
             /\ \A o \in Exports \ {latest} : ~Writing(o)'
             /\ \A i \in 1..5 : i < file'[latest] =>
                   disk'[Files[i]].by = latest /\ disk'[Files[i]].whole
    <2>1. step[latest] \in {"open", "write", "done"}
        BY <1>1, <1>3, <1>7
    <2>2. /\ \A o \in Exports \ {latest} : ~Writing(o)
          /\ \A i \in 1..5 : i < file[latest] =>
                disk[Files[i]].by = latest /\ disk[Files[i]].whole
          /\ step[latest] = "write" => disk[Files[file[latest]]].by = latest
                                       /\ ~disk[Files[file[latest]]].shared
        BY <1>7, <2>1 DEF WholeInv, OwnerInv
    <2>3. latest = e
        BY <1>4, <2>2
    <2>4. w
        BY <1>1, <1>2, <2>2, <2>3
    <2>5. ASSUME NEW i \in 1..5, i < file'[latest]
          PROVE  disk'[Files[i]].by = latest /\ disk'[Files[i]].whole
        <3>1. i < file[e] \/ i = file[e]
            BY <1>1, <1>3, <2>3, <2>5
        <3>2. CASE i = file[e]
            BY <1>5, <2>3, <2>4, <3>2
        <3>3. CASE i < file[e]
            BY <1>1, <1>5, <2>2, <2>3, <3>3
        <3> QED
            BY <3>1, <3>2, <3>3
    <2> QED
        BY <1>4, <2>2, <2>3, <2>5
<1>8. OwnerInv'
    <2>1. latest' \in Exports => step'[latest'] \in {"open", "write", "done", "dead"}
        BY <1>1, <1>3, <1>6
    <2>2. ASSUME NEW x \in Exports \ mixed', Writing(x)'
          PROVE  latest' = x
        BY <1>1, <1>4, <2>2 DEF WholeInv, OwnerInv
    <2>3. ASSUME latest' \in Exports \ mixed', step'[latest'] \in {"open", "write", "done"}
          PROVE  /\ \A o \in Exports \ {latest'} : ~Writing(o)'
                 /\ \A i \in 1..5 : i < file'[latest'] =>
                       disk'[Files[i]].by = latest' /\ disk'[Files[i]].whole
                 /\ step'[latest'] # "write"
        BY <1>1, <1>3, <1>7, <2>3
    <2> QED
        BY <2>1, <2>2, <2>3 DEF OwnerInv
<1> QED
    BY <1>1, <1>8 DEF QuietInv

LEMMA QuietStart ==
    ASSUME WholeInv, NEW r \in Readers, StartReading(r)
    PROVE  OwnerInv' /\ QuietInv'
<1>0. DiskTyped
    BY DEF WholeInv, TornInv
<1>1. /\ UNCHANGED <<step, file, disk, asked, mixed, latest>> /\ quiet' \subseteq quiet \cup {r}
      /\ reading[r] = 0
      /\ IF disk["index"].by = NoExport
         THEN /\ answer' = [answer EXCEPT ![r] = [p \in Parts |-> "none"]]
              /\ reading' = [reading EXCEPT ![r] = 6]
         ELSE UNCHANGED answer /\ reading' = [reading EXCEPT ![r] = 1]
    BY <1>0, StartChanges
<1>2. OwnerInv' /\ (Sole' <=> Sole)
    BY <1>1, OwnerKept
<1>3. \A x \in Readers : x # r => reading'[x] = reading[x] /\ answer'[x] = answer[x]
    BY <1>0, <1>1 DEF DiskTyped
<1>4. ASSUME Sole
      PROVE  reading'[r] = 1
    <2>1. file[latest] = 6
        BY <1>4, FilesListed DEF Sole, WholeInv, ShownInv, Paced
    <2>2. disk[Files[1]].by = latest
        BY <1>4, <2>1 DEF Sole, WholeInv, OwnerInv
    <2>3. Files[1] = "index" /\ latest # NoExport
        BY <1>4, SnapshotAssumption DEF Sole, Files
    <2> QED
        BY <1>0, <1>1, <2>2, <2>3 DEF DiskTyped
<1>5. ASSUME NEW x \in quiet', Sole
      PROVE  /\ reading'[x] >= 1
             /\ \A i \in 1..5 : i < reading'[x] =>
                   answer'[x][ReadOrder[i]] =
                      IF ReadOrder[i] = "index" \/ asked[x] \in {ReadOrder[i], "all"}
                      THEN latest ELSE "none"
    <2>1. CASE x = r
        BY <1>4, <1>5, <2>1
    <2>2. CASE x # r
        <3>1. x \in quiet /\ x \in Readers
            BY <1>0, <1>1, <2>2 DEF DiskTyped
        <3> QED
            BY <1>3, <1>5, <2>2, <3>1 DEF WholeInv, QuietInv
    <2> QED
        BY <2>1, <2>2
<1>6. QuietInv'
    BY <1>1, <1>2, <1>5 DEF QuietInv
<1> QED
    BY <1>2, <1>6

LEMMA QuietRead ==
    ASSUME WholeInv, NEW r \in Readers, ReadPart(r)
    PROVE  OwnerInv' /\ QuietInv'
<1> DEFINE p == ReadOrder[reading[r]]
<1>0. DiskTyped
    BY DEF WholeInv, TornInv
<1>1. /\ UNCHANGED <<step, file, disk, asked, mixed, latest, quiet>> /\ reading[r] \in 1..5
    BY <1>0, ReadChanges
<1>2. PICK a \in IF p = "index" \/ asked[r] \in {p, "all"} THEN Read(p) ELSE {"none"} :
         /\ answer' = [answer EXCEPT ![r] = [answer[r] EXCEPT ![p] = a]]
         /\ reading' = [reading EXCEPT ![r] = IF p = "context_md" /\ a = "error" THEN 6 ELSE reading[r] + 1]
    BY <1>0, ReadChanges
<1>3. OwnerInv' /\ (Sole' <=> Sole)
    BY <1>1, OwnerKept
<1>4. \A x \in Readers : x # r => reading'[x] = reading[x] /\ answer'[x] = answer[x]
    BY <1>0, <1>2 DEF DiskTyped
<1>5. p \in Parts /\ \E i \in 1..5 : p = Files[i]
    BY <1>1, OrderListed, FilesListed DEF Parts
<1>6. ASSUME Sole
      PROVE  /\ a = IF p = "index" \/ asked[r] \in {p, "all"} THEN latest ELSE "none"
             /\ reading'[r] = reading[r] + 1
    <2>1. file[latest] = 6
        BY <1>6, FilesListed DEF Sole, WholeInv, ShownInv, Paced
    <2>2. disk[p].by = latest /\ disk[p].whole
        BY <1>5, <1>6, <2>1 DEF Sole, WholeInv, OwnerInv
    <2>3. latest # NoExport /\ latest # "error"
        BY <1>6, SnapshotAssumption DEF Sole
    <2>4. Read(p) = {latest}
        BY <2>2, <2>3 DEF Read
    <2> HIDE DEF p
    <2>5. a = IF p = "index" \/ asked[r] \in {p, "all"} THEN latest ELSE "none"
        BY <1>2, <2>4
    <2>6. a # "error"
        BY <2>3, <2>5
    <2> QED
        BY <1>0, <1>2, <2>5, <2>6 DEF DiskTyped
<1>7. ASSUME NEW x \in quiet, Sole
      PROVE  /\ reading'[x] >= 1
             /\ \A i \in 1..5 : i < reading'[x] =>
                   answer'[x][ReadOrder[i]] =
                      IF ReadOrder[i] = "index" \/ asked[x] \in {ReadOrder[i], "all"}
                      THEN latest ELSE "none"
    <2>1. x \in Readers
        BY <1>0 DEF DiskTyped
    <2>2. /\ reading[x] >= 1
          /\ \A i \in 1..5 : i < reading[x] =>
                answer[x][ReadOrder[i]] =
                   IF ReadOrder[i] = "index" \/ asked[x] \in {ReadOrder[i], "all"}
                   THEN latest ELSE "none"
        BY <1>7 DEF WholeInv, QuietInv
    <2>3. CASE x = r
        <3>1. ASSUME NEW i \in 1..5, i < reading'[r]
              PROVE  answer'[r][ReadOrder[i]] =
                        IF ReadOrder[i] = "index" \/ asked[r] \in {ReadOrder[i], "all"}
                        THEN latest ELSE "none"
            <4>1. i < reading[r] \/ i = reading[r]
                BY <1>1, <1>6, <1>7, <3>1
            <4>2. CASE i = reading[r]
                <5>1. answer'[r][p] = a
                    BY <1>0, <1>2, <1>5 DEF DiskTyped
                <5> QED
                    BY <1>6, <1>7, <4>2, <5>1
            <4>3. CASE i < reading[r]
                <5>1. ReadOrder[i] # p /\ ReadOrder[i] \in Parts
                    BY <1>1, <4>3, OrderListed
                <5>2. answer'[r][ReadOrder[i]] = answer[r][ReadOrder[i]]
                    BY <1>0, <1>2, <1>5, <5>1 DEF DiskTyped
                <5> QED
                    BY <2>2, <2>3, <4>3, <5>2
            <4> QED
                BY <4>1, <4>2, <4>3
        <3>2. reading'[r] >= 1
            BY <1>1, <1>6, <1>7
        <3> QED
            BY <2>3, <3>1, <3>2
    <2>4. CASE x # r
        BY <1>4, <2>1, <2>2, <2>4
    <2> QED
        BY <2>3, <2>4
<1>8. QuietInv'
    BY <1>1, <1>3, <1>7 DEF QuietInv
<1> QED
    BY <1>3, <1>8

LEMMA WholeNext ==
    ASSUME WholeInv, [SnapshotNext]_snapshotVars
    PROVE  WholeInv'
<1>0. ShownInv' /\ TornInv'
    BY ShownNext, TornNext DEF WholeInv
<1>1. CASE Ingest \/ UNCHANGED snapshotVars
    <2>1. UNCHANGED <<step, file, disk, asked, reading, answer, mixed, latest, quiet>>
        BY <1>1 DEF Ingest, snapshotVars, exporting, readers, history
    <2>2. OwnerInv' /\ (Sole' <=> Sole)
        BY <2>1, OwnerKept
    <2>3. QuietInv'
        BY <2>1, <2>2 DEF WholeInv, QuietInv
    <2> QED
        BY <1>0, <2>2, <2>3 DEF WholeInv
<1>2. \A e \in Exports : Gather(e) \/ ExportDies(e) => OwnerInv' /\ QuietInv'
    BY GatherElsewhere, OwnerElsewhere DEF WholeInv
<1>3. \A e \in Exports : OpenFile(e) \/ Write(e) => OwnerInv' /\ QuietInv'
    BY OwnerOpen, OwnerWrite
<1>4. \A r \in Readers : StartReading(r) \/ ReadPart(r) => OwnerInv' /\ QuietInv'
    BY QuietStart, QuietRead
<1> QED
    BY <1>0, <1>1, <1>2, <1>3, <1>4 DEF SnapshotNext, WholeInv

\* A call during which nobody wrote returns the last export, whole and nothing
\* else, if that one wrote alone and to its end: whatever exports before it
\* left behind, mixed or cut short.
THEOREM SnapshotIsOneExport == SnapshotSpec => []ReadIsOneExport
<1>1. WholeInv => ReadIsOneExport
    <2>1. SUFFICES ASSUME WholeInv, NEW r \in quiet, reading[r] > 5,
                          latest # NoExport, step[latest] = "done", latest \notin mixed, NEW p \in Parts
                   PROVE  answer[r][p] = IF p = "index" \/ asked[r] \in {p, "all"} THEN latest ELSE "none"
        BY OrderListed DEF ReadIsOneExport
    <2>2. Sole
        BY <2>1 DEF Sole, WholeInv, TornInv, DiskTyped
    <2>3. PICK i \in 1..5 : p = ReadOrder[i]
        BY OrderListed
    <2>4. i < reading[r]
        BY <2>1 DEF WholeInv, TornInv, DiskTyped
    <2> QED
        BY <2>1, <2>2, <2>3, <2>4 DEF WholeInv, QuietInv
<1>2. SnapshotInit => WholeInv
    BY WholeInit
<1>3. WholeInv /\ [SnapshotNext]_snapshotVars => WholeInv'
    BY WholeNext
<1> QED
    BY <1>1, <1>2, <1>3, PTL DEF SnapshotSpec

\* The types of the exports and their readers, with the positions and the
\* authors that the other proofs rest on.
THEOREM SnapshotTyped == SnapshotSpec => []SnapshotTypeOK
<1>1. WholeInv => SnapshotTypeOK
    <2> SUFFICES ASSUME WholeInv PROVE SnapshotTypeOK
        OBVIOUS
    <2>1. ExportsTyped /\ DiskTyped
        BY DEF WholeInv, ShownInv, TornInv
    <2>2. 0..(Len(Files) + 1) = 0..6
        BY FilesListed
    <2> QED
        BY <2>1, <2>2 DEF ExportsTyped, DiskTyped, SnapshotTypeOK, Steps, Gathered
<1> QED
    BY <1>1, WholeInit, WholeNext, PTL DEF SnapshotSpec
=============================================================================
