---------------------------- MODULE InstanceLock ----------------------------
(***************************************************************************)
(* The single-instance lock of mcp_server_http.py on a POSIX system.       *)
(* .mcp_server.lock is opened by name and locked with flock, which locks   *)
(* the inode that the open returned; a release unlocks it, closes it and   *)
(* then removes the name.  .mcp_server.pid only tells who runs.            *)
(*                                                                         *)
(* TryLockBlindly and WritePidForgotten are deliberate defects that        *)
(* nothing uses; PROJECT.json names the property that each breaks.         *)
(***************************************************************************)
EXTENDS FiniteSets

CONSTANTS
    Procs,      \* processes started in one checkout
    Inodes,     \* inodes the file system may give the lock file
    Ports,      \* values of MCP_PORT
    NoInode,    \* no inode
    NoProc      \* no process

ASSUME LockAssumption == NoInode \notin Inodes /\ NoProc \notin Procs

VARIABLES
    pc,         \* where each process is
    port,       \* MCP_PORT of each process
    lockName,   \* the inode that _LOCK_PATH names
    handle,     \* the inode each process has open
    flock,      \* inode -> the process that holds its flock
    pidFile,    \* whose pid _PID_PATH holds
    unnamed,    \* processes that could not write it
    bound,      \* port -> the server listening on it
    disturbed   \* history: a release removed a file of another process

vars == <<pc, port, lockName, handle, flock, pidFile, unnamed, bound, disturbed>>

\* _acquire_instance_lock has returned True and the release has not begun to
\* remove files.
Instance == {"pid", "port", "warmup", "serving", "unlock"}
Removing == {"unlink_lock", "unlink_pid"}
PCs == {"off", "opened", "locked"} \cup Instance \cup Removing

TypeOK ==
    /\ pc \in [Procs -> PCs]
    /\ port \in [Procs -> Ports]
    /\ lockName \in Inodes \cup {NoInode}
    /\ handle \in [Procs -> Inodes \cup {NoInode}]
    /\ flock \in [Inodes -> Procs \cup {NoProc}]
    /\ pidFile \in Procs \cup {NoProc}
    /\ unnamed \subseteq Procs
    /\ bound \in [Ports -> Procs \cup {NoProc}]
    /\ disturbed \in BOOLEAN

Init ==
    /\ pc = [p \in Procs |-> "off"]
    /\ port \in [Procs -> Ports]
    /\ lockName = NoInode
    /\ handle = [p \in Procs |-> NoInode]
    /\ flock = [i \in Inodes |-> NoProc]
    /\ pidFile = NoProc
    /\ unnamed = {}
    /\ bound = [t \in Ports |-> NoProc]
    /\ disturbed = FALSE

\* Somebody other than p has the lock file open.
OthersActive(p) == \E q \in Procs \ {p} : handle[q] # NoInode

-----------------------------------------------------------------------------
(* _acquire_instance_lock *)

\* An inode without a name that nobody has open is free for a new file.
Free(i) == i # lockName /\ \A q \in Procs : handle[q] # i

\* open(_LOCK_PATH, "a+") creates the file when there is none.
Open(p, t, i) ==
    /\ pc[p] = "off"
    /\ IF lockName = NoInode THEN Free(i) ELSE i = lockName
    /\ port' = [port EXCEPT ![p] = t]
    /\ lockName' = i
    /\ handle' = [handle EXCEPT ![p] = i]
    /\ unnamed' = unnamed \ {p}
    /\ pc' = [pc EXCEPT ![p] = "opened"]
    /\ UNCHANGED <<flock, pidFile, bound, disturbed>>

TryLockBlindly(p) ==
    /\ pc[p] = "opened"
    /\ flock' = [flock EXCEPT ![handle[p]] = p]
    /\ pc' = [pc EXCEPT ![p] = "locked"]
    /\ UNCHANGED <<port, lockName, handle, pidFile, unnamed, bound, disturbed>>

\* flock(LOCK_EX | LOCK_NB)
TryLock(p) ==
    /\ pc[p] = "opened"
    /\ flock[handle[p]] = NoProc
    /\ flock' = [flock EXCEPT ![handle[p]] = p]
    /\ pc' = [pc EXCEPT ![p] = "locked"]
    /\ UNCHANGED <<port, lockName, handle, pidFile, unnamed, bound, disturbed>>

\* The pid goes into the lock file too, which nobody reads.
WriteLockFile(p) ==
    /\ pc[p] = "locked"
    /\ pc' = [pc EXCEPT ![p] = "pid"]
    /\ UNCHANGED <<port, lockName, handle, flock, pidFile, unnamed, bound, disturbed>>

\* The kernel drops the flocks of a file that is closed.
Unlocked(p) == [i \in Inodes |-> IF flock[i] = p THEN NoProc ELSE flock[i]]

\* The file is locked by another process, or cannot be read or written: the
\* handle is closed and main exits.
Refuse(p) ==
    /\ pc[p] \in {"opened", "locked"}
    /\ flock' = Unlocked(p)
    /\ handle' = [handle EXCEPT ![p] = NoInode]
    /\ pc' = [pc EXCEPT ![p] = "off"]
    /\ UNCHANGED <<port, lockName, pidFile, unnamed, bound, disturbed>>

WritePidForgotten(p) ==
    /\ pc[p] = "pid"
    /\ pc' = [pc EXCEPT ![p] = "port"]
    /\ UNCHANGED <<port, lockName, handle, flock, pidFile, unnamed, bound, disturbed>>

\* write_text truncates the file first; that it fails is ignored.
WritePid(p) ==
    /\ pc[p] = "pid"
    /\ \/ pidFile' = p /\ UNCHANGED unnamed
       \/ pidFile' \in {pidFile, NoProc} /\ unnamed' = unnamed \cup {p}
    /\ pc' = [pc EXCEPT ![p] = "port"]
    /\ UNCHANGED <<port, lockName, handle, flock, bound, disturbed>>

-----------------------------------------------------------------------------
(* main *)

\* _ensure_port_free; the port may also be taken by some other program.
CheckPort(p) ==
    /\ pc[p] = "port"
    /\ \/ bound[port[p]] = NoProc /\ pc' = [pc EXCEPT ![p] = "warmup"]
       \/ pc' = [pc EXCEPT ![p] = "unlock"]
    /\ UNCHANGED <<port, lockName, handle, flock, pidFile, unnamed, bound, disturbed>>

\* After the warm-up run_http_server binds the port; a failure raises through
\* the finally block of main.
Bind(p) ==
    /\ pc[p] = "warmup"
    /\ \/ /\ bound[port[p]] = NoProc
          /\ bound' = [bound EXCEPT ![port[p]] = p]
          /\ pc' = [pc EXCEPT ![p] = "serving"]
       \/ /\ pc' = [pc EXCEPT ![p] = "unlock"]
          /\ UNCHANGED bound
    /\ UNCHANGED <<port, lockName, handle, flock, pidFile, unnamed, disturbed>>

Unbound(p) == [t \in Ports |-> IF bound[t] = p THEN NoProc ELSE bound[t]]

\* Ctrl+C: runner.cleanup() closes the listening socket.
Stop(p) ==
    /\ pc[p] = "serving"
    /\ bound' = Unbound(p)
    /\ pc' = [pc EXCEPT ![p] = "unlock"]
    /\ UNCHANGED <<port, lockName, handle, flock, pidFile, unnamed, disturbed>>

-----------------------------------------------------------------------------
(* _release_instance_lock *)

Unlock(p) ==
    /\ pc[p] = "unlock"
    /\ flock' = Unlocked(p)
    /\ handle' = [handle EXCEPT ![p] = NoInode]
    /\ pc' = [pc EXCEPT ![p] = "unlink_lock"]
    /\ UNCHANGED <<port, lockName, pidFile, unnamed, bound, disturbed>>

\* That a file cannot be removed is ignored.
UnlinkLock(p) ==
    /\ pc[p] = "unlink_lock"
    /\ \/ lockName' = NoInode /\ disturbed' = (disturbed \/ OthersActive(p))
       \/ UNCHANGED <<lockName, disturbed>>
    /\ pc' = [pc EXCEPT ![p] = "unlink_pid"]
    /\ UNCHANGED <<port, handle, flock, pidFile, unnamed, bound>>

UnlinkPid(p) ==
    /\ pc[p] = "unlink_pid"
    /\ \/ pidFile' = NoProc /\ disturbed' = (disturbed \/ OthersActive(p))
       \/ UNCHANGED <<pidFile, disturbed>>
    /\ pc' = [pc EXCEPT ![p] = "off"]
    /\ UNCHANGED <<port, lockName, handle, flock, unnamed, bound>>

-----------------------------------------------------------------------------

\* The process is killed or raises outside the try block of main: the kernel
\* closes its files and sockets, and both files stay.
Die(p) ==
    /\ pc[p] # "off"
    /\ flock' = Unlocked(p)
    /\ handle' = [handle EXCEPT ![p] = NoInode]
    /\ bound' = Unbound(p)
    /\ pc' = [pc EXCEPT ![p] = "off"]
    /\ UNCHANGED <<port, lockName, pidFile, unnamed, disturbed>>

Acquire(p) == TryLock(p) \/ WriteLockFile(p) \/ WritePid(p) \/ Refuse(p)
Release(p) == Unlock(p) \/ UnlinkLock(p) \/ UnlinkPid(p)

Next ==
    \E p \in Procs :
        \/ \E t \in Ports, i \in Inodes : Open(p, t, i)
        \/ Acquire(p) \/ CheckPort(p) \/ Bind(p) \/ Stop(p)
        \/ Release(p) \/ Die(p)

Spec == Init /\ [][Next]_vars

-----------------------------------------------------------------------------
(* Safety *)

\* From a successful _acquire_instance_lock to the end of the server.
Running(p) == pc[p] \in Instance

\* A process has the lock file open from its open to its close, and holds the
\* flock of that inode, alone, from TryLock to the same point; only the server
\* that serves on a port is bound to it.
Locked(p) == pc[p] \in {"locked"} \cup Instance

OwnershipInv ==
    \A p \in Procs :
        /\ handle[p] # NoInode <=> pc[p] = "opened" \/ Locked(p)
        /\ \A i \in Inodes : flock[i] = p <=> Locked(p) /\ handle[p] = i
        /\ \A t \in Ports : bound[t] = p <=> pc[p] = "serving" /\ port[p] = t

\* mcp_server_http.py: "Only one instance per checkout can run at a time (file
\* lock)."
OneServer == \A p, q \in Procs : pc[p] = "serving" /\ pc[q] = "serving" => p = q

\* Starts, stops, refusals and crashes in any order leave one running instance
\* unless some release has removed the lock or pid file while another process
\* had the lock file open.
OneUnlessDisturbed ==
    ~disturbed => \A p, q \in Procs : Running(p) /\ Running(q) => p = q

\* Under the same condition the pid file names the running instance, whatever
\* earlier ones left in it, once that instance has written it.
PidUnlessDisturbed ==
    ~disturbed => \A p \in Procs \ unnamed : pc[p] \in Instance \ {"pid"} => pidFile = p
=============================================================================
