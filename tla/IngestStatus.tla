---------------------------- MODULE IngestStatus ----------------------------
(***************************************************************************)
(* What ingest commands say of themselves and what the server makes of it. *)
(* A command (cli.py, _run_ingest_command) saves its status twice: in the  *)
(* state file, one JSON map shared by all projects, and in the manifest of *)
(* its project (project_registry.py).  Neither save takes a lock: each     *)
(* reads, merges, truncates and writes.  The server (mcp_handler.py)       *)
(* caches both, reloads them when their modification times have changed,   *)
(* and derives an integrity status per project.                            *)
(*                                                                         *)
(* Every write gives a file a new modification time; a file's text fits    *)
(* one write buffer, so a reader finds it empty, whole, or, when two       *)
(* writers were at it, whole or followed by the rest of a longer text.     *)
(*                                                                         *)
(* MergedManifestKeepingError, IntegrityFromStateFile and AssignUnsigned   *)
(* are deliberate defects that nothing uses; PROJECT.json names the        *)
(* property that each breaks.                                              *)
(***************************************************************************)
EXTENDS Naturals

CONSTANTS
    Procs,        \* processes that may execute an ingest command
    Projects,     \* project ids in the registry
    Absent,       \* a manifest that does not exist
    Empty,        \* a file that has been truncated
    Garbled,      \* a file whose text is not JSON
    Never,        \* no time
    AtFailure,    \* the time of a failure, different from that of any success
    ServerRuns,   \* whether a server is launched
    MaxCommands   \* bound on the commands started

ASSUME StatusAssumption ==
    /\ Projects # {}
    /\ ServerRuns \in BOOLEAN
    /\ MaxCommands \in Nat
    /\ {Never, AtFailure} \cap Nat = {}

\* A success is known by the number of its command; two successes finish at
\* different times.
Times == 0 .. MaxCommands

\* project_id -> the fields of ProjectRuntimeState that integrity looks at;
\* index_version and index_fingerprint are set with last_successful_ingest_at.
Runtime == [status : {"", "running", "failed", "success"}, succeeded : Times \cup {Never}]

\* The same of ProjectIndexManifest; its index_version is always set.
Saved == {"running", "failed", "success"}
Manifest == [status : Saved,
             completed : Times \cup {Never, AtFailure}, error : BOOLEAN]

ASSUME AbsentAssumption == Absent \notin Manifest

NoRuntime == [status |-> "", succeeded |-> Never]
NoManifest == [status |-> "", completed |-> Never, error |-> FALSE]

StateMaps == [Projects -> Runtime]

VARIABLES
    stateFile,    \* the state file: a map, Empty or Garbled
    manifests,    \* the manifest files: a manifest, Absent, Empty or Garbled
    pc,           \* where each command is
    cmd,          \* its project, number and the status it saves
    mem,          \* what it has read and is about to write
    started,      \* the number of commands started
    srv,          \* the server: pc, the cached registry and the one being read
    touched,      \* a file has changed since the signature in use was taken
    pending,      \* a file has changed since a reload began
    \* history
    outcome,      \* what became of the last ingest that was run for a project
    overlapped,   \* projects that two commands were at work on at once
    quiet,        \* nobody else has run since this command started
    missed        \* a file changed between the server's first load and signature

files == <<stateFile, manifests>>
commands == <<pc, cmd, mem, started, outcome, overlapped, quiet>>
server == <<srv, touched, pending, missed>>
vars == <<files, commands, server>>

SavingState == {"current", "map", "truncate_state", "write_state", "reload_state"}
SavingManifest == {"existing", "truncate_manifest", "write_manifest", "reload_manifest"}
Active == {"load", "connect", "ingest"} \cup SavingState \cup SavingManifest
Ended == {"done", "failed", "raised", "killed"}

View == [state : StateMaps, manifests : [Projects -> Manifest \cup {Absent}]]
NoView == [state |-> [j \in Projects |-> NoRuntime], manifests |-> [j \in Projects |-> Absent]]

Command == [project : Projects, number : Times, saves : Saved]
Memory == [current : Runtime, map : StateMaps, manifest : Manifest \cup {NoManifest}]
ServerState == [pc : {"down", "start", "start_manifests", "sign", "serving", "load",
                      "load_manifests", "assign"},
                view : View, draft : View]

TypeOK ==
    /\ stateFile \in StateMaps \cup {Empty, Garbled}
    /\ manifests \in [Projects -> Manifest \cup {Absent, Empty, Garbled}]
    /\ pc \in [Procs -> {"idle"} \cup Active \cup Ended]
    /\ cmd \in [Procs -> Command]
    /\ mem \in [Procs -> Memory]
    /\ started \in Times
    /\ srv \in ServerState
    /\ touched \in BOOLEAN /\ pending \in BOOLEAN
    /\ outcome \in [Projects -> {"none", "running", "failed", "success"}]
    /\ overlapped \subseteq Projects
    /\ quiet \in [Procs -> BOOLEAN]
    /\ missed \in BOOLEAN

NoMem == [current |-> NoRuntime, map |-> NoView.state, manifest |-> NoManifest]

Init ==
    /\ stateFile = NoView.state
    /\ manifests = NoView.manifests
    /\ pc = [p \in Procs |-> "idle"]
    /\ cmd = [p \in Procs |-> [project |-> CHOOSE j \in Projects : TRUE,
                              number |-> 0, saves |-> "running"]]
    /\ mem = [p \in Procs |-> NoMem]
    /\ started = 0
    /\ srv = [pc |-> "down", view |-> NoView, draft |-> NoView]
    /\ touched = FALSE /\ pending = FALSE
    /\ outcome = [j \in Projects |-> "none"]
    /\ overlapped = {}
    /\ quiet = [p \in Procs |-> FALSE]
    /\ missed = FALSE

Readable(text) == text \notin {Empty, Garbled}

\* load_project_registry raises when a file it reads is not JSON.
Loadable == Readable(stateFile) /\ \A j \in Projects : Readable(manifests[j])

Job(p) == cmd[p].project
Goto(p, l) == pc' = [pc EXCEPT ![p] = l]
Saving(p, s) == cmd' = [cmd EXCEPT ![p] = [@ EXCEPT !.saves = s]]

-----------------------------------------------------------------------------
(* An ingest command *)

Start(p, j) ==
    /\ pc[p] \in {"idle"} \cup Ended
    /\ started < MaxCommands
    /\ started' = started + 1
    /\ cmd' = [cmd EXCEPT ![p] = [project |-> j, number |-> started', saves |-> "running"]]
    /\ overlapped' = overlapped \cup
          (IF \E q \in Procs : pc[q] \in Active /\ Job(q) = j THEN {j} ELSE {})
    /\ quiet' = [q \in Procs |-> q = p /\ \A r \in Procs : pc[r] \notin Active]
    /\ Goto(p, "load")
    /\ UNCHANGED <<files, mem, outcome, server>>

\* Where a command goes on once it has loaded the registry.
After(p) ==
    CASE pc[p] = "load" -> "current"
      [] pc[p] = "reload_state" -> "existing"
      [] pc[p] = "reload_manifest" ->
            [running |-> "connect", failed |-> "failed", success |-> "done"][cmd[p].saves]

\* main loads the registry; save_runtime_state and save_index_manifest load it
\* again once they have written.
Load(p) ==
    /\ pc[p] \in {"load", "reload_state", "reload_manifest"}
    /\ Goto(p, IF Loadable THEN After(p) ELSE "raised")
    /\ UNCHANGED <<files, cmd, mem, started, outcome, overlapped, quiet, server>>

\* get_connection is outside the try block.
Connect(p) ==
    /\ pc[p] = "connect"
    /\ \/ Goto(p, "ingest") /\ outcome' = [outcome EXCEPT ![Job(p)] = "running"]
       \/ Goto(p, "raised") /\ UNCHANGED outcome
    /\ UNCHANGED <<files, cmd, mem, started, overlapped, quiet, server>>

\* ingest_project_v2 and get_repo_stats return or raise.
Ingest(p) ==
    /\ pc[p] = "ingest"
    /\ \E s \in {"failed", "success"} :
          /\ Saving(p, s)
          /\ outcome' = [outcome EXCEPT ![Job(p)] = s]
    /\ Goto(p, "current")
    /\ UNCHANGED <<files, mem, started, overlapped, quiet, server>>

\* A kill, or a KeyboardInterrupt, which no handler of the command catches.
Kill(p) ==
    /\ pc[p] \in Active
    /\ Goto(p, "killed")
    /\ mem' = [mem EXCEPT ![p] = NoMem]
    /\ UNCHANGED <<files, cmd, started, outcome, overlapped, quiet, server>>

-----------------------------------------------------------------------------
(* save_runtime_state *)

\* current_state.update(updates)
MergedRuntime(p, r) ==
    [status |-> cmd[p].saves,
     succeeded |-> IF cmd[p].saves = "success" THEN cmd[p].number ELSE r.succeeded]

\* _load_state_map, called for the project's entry and again for the map.
ReadCurrent(p) ==
    /\ pc[p] = "current"
    /\ IF Readable(stateFile)
       THEN /\ mem' = [mem EXCEPT ![p] = [@ EXCEPT !.current = MergedRuntime(p, stateFile[Job(p)])]]
            /\ Goto(p, "map")
       ELSE /\ mem' = [mem EXCEPT ![p] = NoMem]
            /\ Goto(p, "raised")
    /\ UNCHANGED <<files, cmd, started, outcome, overlapped, quiet, server>>

ReadMap(p) ==
    /\ pc[p] = "map"
    /\ IF Readable(stateFile)
       THEN /\ mem' = [mem EXCEPT ![p] =
                         [@ EXCEPT !.map = [stateFile EXCEPT ![Job(p)] = mem[p].current]]]
            /\ Goto(p, "truncate_state")
       ELSE /\ mem' = [mem EXCEPT ![p] = NoMem]
            /\ Goto(p, "raised")
    /\ UNCHANGED <<files, cmd, started, outcome, overlapped, quiet, server>>

\* What a file may hold once text is written over what it holds now: another
\* writer that opened it later may have left a longer text.
Overwritten(old, text) == IF old = Empty THEN {text} ELSE {text, Garbled}

\* A changed file has a new modification time.
Touch == touched' = TRUE /\ pending' = TRUE /\ UNCHANGED <<srv, missed>>

TruncateState(p) ==
    /\ pc[p] = "truncate_state"
    /\ stateFile' = Empty
    /\ Goto(p, "write_state")
    /\ Touch
    /\ UNCHANGED <<manifests, cmd, mem, started, outcome, overlapped, quiet>>

WriteState(p) ==
    /\ pc[p] = "write_state"
    /\ stateFile' \in Overwritten(stateFile, mem[p].map)
    /\ Goto(p, "reload_state")
    /\ mem' = [mem EXCEPT ![p] = NoMem]
    /\ Touch
    /\ UNCHANGED <<manifests, cmd, started, outcome, overlapped, quiet>>

-----------------------------------------------------------------------------
(* save_index_manifest *)

MergedManifestKeepingError(p, m) ==
    [status |-> cmd[p].saves,
     completed |-> CASE cmd[p].saves = "running" -> m.completed
                     [] cmd[p].saves = "failed" -> AtFailure
                     [] OTHER -> cmd[p].number,
     error |-> m.error \/ cmd[p].saves = "failed"]

\* manifest_payload.update(manifest): last_error is None unless it failed.
MergedManifest(p, m) ==
    [status |-> cmd[p].saves,
     completed |-> CASE cmd[p].saves = "running" -> m.completed
                     [] cmd[p].saves = "failed" -> AtFailure
                     [] OTHER -> cmd[p].number,
     error |-> cmd[p].saves = "failed"]

ReadManifest(p) ==
    /\ pc[p] = "existing"
    /\ IF Readable(manifests[Job(p)])
       THEN /\ mem' = [mem EXCEPT ![p] = [@ EXCEPT !.manifest =
                  MergedManifest(p, IF manifests[Job(p)] = Absent THEN NoManifest
                                    ELSE manifests[Job(p)])]]
            /\ Goto(p, "truncate_manifest")
       ELSE /\ mem' = [mem EXCEPT ![p] = NoMem]
            /\ Goto(p, "raised")
    /\ UNCHANGED <<files, cmd, started, outcome, overlapped, quiet, server>>

TruncateManifest(p) ==
    /\ pc[p] = "truncate_manifest"
    /\ manifests' = [manifests EXCEPT ![Job(p)] = Empty]
    /\ Goto(p, "write_manifest")
    /\ Touch
    /\ UNCHANGED <<stateFile, cmd, mem, started, outcome, overlapped, quiet>>

WriteManifest(p) ==
    /\ pc[p] = "write_manifest"
    /\ \E text \in Overwritten(manifests[Job(p)], mem[p].manifest) :
          manifests' = [manifests EXCEPT ![Job(p)] = text]
    /\ Goto(p, "reload_manifest")
    /\ mem' = [mem EXCEPT ![p] = NoMem]
    /\ Touch
    /\ UNCHANGED <<stateFile, cmd, started, outcome, overlapped, quiet>>

-----------------------------------------------------------------------------
(* The server *)

ServerAt(l) == srv' = [srv EXCEPT !.pc = l]
GiveUp(l) == srv' = [srv EXCEPT !.pc = l, !.draft = srv.view]

\* MCPHandler.__init__ loads the registry ...
Launch ==
    /\ ServerRuns
    /\ srv.pc = "down"
    /\ ServerAt("start")
    /\ pending' = FALSE
    /\ UNCHANGED <<files, commands, touched, missed>>

LoadState(from, next, otherwise) ==
    /\ srv.pc = from
    /\ IF Readable(stateFile)
       THEN srv' = [srv EXCEPT !.pc = next, !.draft.state = stateFile]
       ELSE GiveUp(otherwise)
    /\ UNCHANGED <<files, commands, touched, pending, missed>>

LoadManifests(from, next, otherwise) ==
    /\ srv.pc = from
    /\ IF \A j \in Projects : Readable(manifests[j])
       THEN srv' = [srv EXCEPT !.pc = next, !.draft.manifests = manifests]
       ELSE GiveUp(otherwise)
    /\ UNCHANGED <<files, commands, touched, pending, missed>>

\* ... and then takes the signature of the files.
Sign ==
    /\ srv.pc = "sign"
    /\ srv' = [srv EXCEPT !.pc = "serving", !.view = srv.draft]
    /\ touched' = FALSE
    /\ missed' = pending
    /\ UNCHANGED <<files, commands, pending>>

\* _refresh_project_registry_if_changed, under _registry_lock: when the new
\* signature differs from the one in use, the files are loaded after it.
Refresh ==
    /\ srv.pc = "serving"
    /\ touched
    /\ ServerAt("load")
    /\ pending' = FALSE
    /\ UNCHANGED <<files, commands, touched, missed>>

AssignUnsigned ==
    /\ srv.pc = "assign"
    /\ srv' = [srv EXCEPT !.pc = "serving", !.view = srv.draft]
    /\ touched' = FALSE
    /\ missed' = FALSE
    /\ UNCHANGED <<files, commands, pending>>

\* The new signature is the one taken before the load.
Assign ==
    /\ srv.pc = "assign"
    /\ srv' = [srv EXCEPT !.pc = "serving", !.view = srv.draft]
    /\ touched' = pending
    /\ missed' = FALSE
    /\ UNCHANGED <<files, commands, pending>>

\* A load that raises ends a server that starts, and leaves a serving one with
\* the registry and the signature it has.
Server ==
    \/ Launch
    \/ LoadState("start", "start_manifests", "down")
    \/ LoadManifests("start_manifests", "sign", "down")
    \/ Sign
    \/ Refresh
    \/ LoadState("load", "load_manifests", "serving")
    \/ LoadManifests("load_manifests", "assign", "serving")
    \/ Assign

-----------------------------------------------------------------------------

SaveState(p) == ReadCurrent(p) \/ ReadMap(p) \/ TruncateState(p) \/ WriteState(p)
SaveManifest(p) == ReadManifest(p) \/ TruncateManifest(p) \/ WriteManifest(p)

Next ==
    \/ \E p \in Procs :
          \/ \E j \in Projects : Start(p, j)
          \/ Load(p) \/ SaveState(p) \/ SaveManifest(p) \/ Connect(p) \/ Ingest(p) \/ Kill(p)
    \/ Server

Spec == Init /\ [][Next]_vars

-----------------------------------------------------------------------------
(* _build_project_integrity *)

IntegrityFromStateFile(r, m) ==
    CASE r.status = "success" -> "ok"
      [] r.status = "running" -> "indexing"
      [] r.status = "failed" -> "unreliable"
      [] OTHER -> "not_indexed"

Mismatch(r, m) ==
    \/ r.status # "" /\ r.status # m.status
    \/ r.succeeded = Never
    \/ r.succeeded # Never /\ m.completed # Never /\ r.succeeded # m.completed

\* Later checks override earlier ones, so a mismatch hides a failure.
Integrity(r, m) ==
    IF m = Absent
    THEN IF r.succeeded # Never THEN "unreliable"
         ELSE IF r.status = "running" THEN "indexing" ELSE "not_indexed"
    ELSE IF Mismatch(r, m) THEN "stale"
    ELSE IF "failed" \in {r.status, m.status} \/ m.error THEN "unreliable"
    ELSE IF "running" \in {r.status, m.status} THEN "indexing"
    ELSE "ok"

Shown(j) == Integrity(stateFile[j], manifests[j])

-----------------------------------------------------------------------------
(* Safety *)

\* A project whose commands do not overlap one another is never shown as ok
\* while its index is being rewritten, or after an ingest that failed or was
\* killed: whatever updates of the state file other projects' commands undo,
\* and wherever a save dies, the two files then disagree.
OkOnlyAfterSuccess ==
    \A j \in Projects \ overlapped :
        Readable(stateFile) /\ Readable(manifests[j]) /\ Shown(j) = "ok"
            => outcome[j] = "success"

\* A command that nobody disturbed has its outcome shown, whatever earlier
\* commands left in the files: ok if the ingest succeeded, and not ok,
\* indexing or not indexed if it failed.
QuietOutcomeShown ==
    \A p \in Procs : quiet[p] =>
        /\ pc[p] = "done" => Shown(Job(p)) = "ok"
        /\ pc[p] = "failed" => Shown(Job(p)) \in {"unreliable", "stale"}

\* The cached registry is used until the signature of the files changes.
Unchanged == srv.pc = "serving" /\ ~touched

Disk == [state |-> stateFile, manifests |-> manifests]

\* While the signature does not change, the cache is what the files hold: a
\* save that falls between a signature and the load after it, a file caught
\* truncated and a load that raises are all made up for by the next call.  The
\* only change that is not seen is one made while the server started.
MissesOnlyAtStart == Unchanged /\ ~missed => srv.view = Disk

=============================================================================
