------------------------- MODULE IngestStatusProofs -------------------------
(***************************************************************************)
(* Proofs about IngestStatus, for any processes, projects and number of    *)
(* commands.                                                               *)
(*                                                                         *)
(* OkOnlyAfterSuccess rests on the manifest alone.  Only commands of its   *)
(* project write it, and between the manifest's "running" and its          *)
(* "success" lies all the ingest does; what other projects' commands do to *)
(* the state file can hide a success but not feign one.  QuietOutcomeShown *)
(* follows what one command saves from its memory into the two files.      *)
(***************************************************************************)
EXTENDS IngestStatus, TLAPS

CommandStep(p) ==
    \/ \E j \in Projects : Start(p, j)
    \/ Load(p) \/ SaveState(p) \/ SaveManifest(p) \/ Connect(p) \/ Ingest(p) \/ Kill(p)

\* The manifest is one that somebody has written.
Recorded(text) == Readable(text) /\ text # Absent

\* p has made its manifest stop saying success, and has not yet written the
\* outcome of its ingest.
Announced(p) ==
    \/ pc[p] \in {"connect", "ingest"}
    \/ pc[p] = "reload_manifest" /\ cmd[p].saves = "running"
    \/ /\ pc[p] \in SavingState \cup {"existing", "truncate_manifest", "write_manifest"}
       /\ cmd[p].saves # "running"

\* Commands of a project outside overlapped run one at a time.
AloneInv ==
    \A p, q \in Procs :
        pc[p] \in Active /\ pc[q] \in Active /\ Job(p) = Job(q) /\ Job(p) \notin overlapped => p = q

\* What a command is about to save, and when.
SavesInv ==
    \A p \in Procs :
        /\ pc[p] \in {"load", "connect", "ingest"} => cmd[p].saves = "running"
        /\ pc[p] \in {"truncate_manifest", "write_manifest"} =>
              /\ mem[p].manifest \in Manifest
              /\ mem[p].manifest.status = cmd[p].saves

\* A command that has an outcome is about to save that outcome.
OutcomeInv ==
    \A p \in Procs : pc[p] \in Active /\ Job(p) \notin overlapped /\ cmd[p].saves # "running" =>
        outcome[Job(p)] = cmd[p].saves

SaysSuccess(j) == Recorded(manifests[j]) /\ manifests[j].status = "success"

\* A manifest that says success is true, and no command is between announcing
\* an ingest and saving its outcome.
ManifestInv ==
    /\ \A j \in Projects \ overlapped : SaysSuccess(j) => outcome[j] = "success"
    /\ \A p \in Procs : Job(p) \notin overlapped /\ Announced(p) => ~SaysSuccess(Job(p))

\* What the server has read is what the files hold unless they have changed
\* since; while it reloads it knows that they have.
ServerInv ==
    /\ srv.pc \in {"load", "load_manifests", "assign"} => touched
    /\ srv.pc \in {"start_manifests", "sign", "load_manifests", "assign"} /\ ~pending =>
          srv.draft.state = stateFile
    /\ srv.pc \in {"sign", "assign"} /\ ~pending => srv.draft.manifests = manifests
    /\ MissesOnlyAtStart

IInv == TypeOK /\ AloneInv /\ SavesInv /\ OutcomeInv /\ ManifestInv /\ ServerInv

-----------------------------------------------------------------------------
(* Type correctness *)

LEMMA EmptyTyped ==
    /\ NoRuntime \in Runtime /\ NoView \in View /\ NoView.state \in StateMaps
    /\ NoMem \in Memory
<1>1. NoRuntime \in Runtime
    BY DEF NoRuntime, Runtime
<1>2. NoView.state \in StateMaps /\ NoView.manifests \in [Projects -> Manifest \cup {Absent}]
    BY <1>1 DEF NoView, StateMaps
<1>3. NoView \in View
    BY <1>2 DEF NoView, View
<1>4. NoMem \in Memory
    BY <1>1, <1>2 DEF NoMem, Memory
<1>5. QED
    BY <1>1, <1>2, <1>3, <1>4

LEMMA CommandUpdates ==
    ASSUME NEW c \in Command, NEW s \in Saved
    PROVE  [c EXCEPT !.saves = s] \in Command
BY DEF Command

LEMMA MemoryUpdates ==
    ASSUME NEW m \in Memory
    PROVE  /\ \A r \in Runtime : [m EXCEPT !.current = r] \in Memory
           /\ \A t \in StateMaps : [m EXCEPT !.map = t] \in Memory
           /\ \A f \in Manifest : [m EXCEPT !.manifest = f] \in Memory
BY DEF Memory

LEMMA ServerUpdates ==
    ASSUME NEW s \in ServerState,
           NEW l \in {"down", "start", "start_manifests", "sign", "serving", "load",
                      "load_manifests", "assign"}
    PROVE  /\ [s EXCEPT !.pc = l] \in ServerState
           /\ [s EXCEPT !.pc = l, !.draft = s.view] \in ServerState
           /\ [s EXCEPT !.pc = l, !.view = s.draft] \in ServerState
           /\ \A t \in StateMaps : [s EXCEPT !.pc = l, !.draft.state = t] \in ServerState
           /\ \A t \in [Projects -> Manifest \cup {Absent}] :
                 [s EXCEPT !.pc = l, !.draft.manifests = t] \in ServerState
BY DEF ServerState, View

LEMMA MergedTypes ==
    ASSUME TypeOK, NEW p \in Procs
    PROVE  /\ \A r \in Runtime : MergedRuntime(p, r) \in Runtime
           /\ \A m \in Manifest \cup {NoManifest} :
                 MergedManifest(p, m) \in Manifest /\ MergedManifest(p, m).status = cmd[p].saves
<1>1. cmd[p].saves \in Saved /\ cmd[p].number \in Times
    BY DEF TypeOK, Command
<1>2. \A r \in Runtime : MergedRuntime(p, r) \in Runtime
    BY <1>1 DEF MergedRuntime, Runtime, Saved
<1>3. ASSUME NEW m \in Manifest \cup {NoManifest}
      PROVE  MergedManifest(p, m) \in Manifest /\ MergedManifest(p, m).status = cmd[p].saves
    <2>1. m.completed \in Times \cup {Never, AtFailure}
        <3>1. CASE m \in Manifest
            BY <3>1 DEF Manifest
        <3>2. CASE m = NoManifest
            BY <3>2 DEF NoManifest
        <3>3. QED
            BY <3>1, <3>2
    <2>2. QED
        BY <1>1, <2>1 DEF MergedManifest, Manifest, Saved
<1>4. QED
    BY <1>2, <1>3

LEMMA InitType == Init => TypeOK
<1> SUFFICES ASSUME Init PROVE TypeOK
    OBVIOUS
<1> USE EmptyTyped, StatusAssumption DEF Init
<1>1. cmd \in [Procs -> Command]
    <2>1. (CHOOSE j \in Projects : TRUE) \in Projects
        BY StatusAssumption
    <2>2. 0 \in Times /\ "running" \in Saved
        BY StatusAssumption DEF Times, Saved
    <2>3. QED
        BY <2>1, <2>2 DEF Command
<1>2. /\ mem \in [Procs -> Memory]
      /\ srv \in ServerState
    BY DEF ServerState
<1>3. /\ stateFile \in StateMaps
      /\ manifests \in [Projects -> Manifest \cup {Absent, Empty, Garbled}]
    BY DEF View, NoView
<1>4. started \in Times
    BY DEF Times
<1>5. pc \in [Procs -> {"idle"} \cup Active \cup Ended]
    OBVIOUS
<1>6. /\ outcome \in [Projects -> {"none", "running", "failed", "success"}]
      /\ overlapped \subseteq Projects
      /\ quiet \in [Procs -> BOOLEAN]
      /\ touched \in BOOLEAN /\ pending \in BOOLEAN /\ missed \in BOOLEAN
    OBVIOUS
<1>7. QED
    BY <1>1, <1>2, <1>3, <1>4, <1>5, <1>6 DEF TypeOK

LEMMA GotoType ==
    ASSUME TypeOK, NEW p \in Procs, NEW l \in Active \cup Ended, Goto(p, l)
    PROVE  pc' \in [Procs -> {"idle"} \cup Active \cup Ended]
BY DEF TypeOK, Goto

LEMMA CommandType ==
    ASSUME TypeOK, SavesInv, NEW p \in Procs, CommandStep(p)
    PROVE  TypeOK'
<1> USE DEF TypeOK, files, server
<1>j. Job(p) \in Projects /\ cmd[p] \in Command
    BY DEF Job, Command
<1>1. CASE \E j \in Projects : Start(p, j)
    <2>1. PICK j \in Projects : Start(p, j)
        BY <1>1
    <2>2. started' \in Times
        BY <2>1, StatusAssumption DEF Start, Times
    <2>3. cmd' \in [Procs -> Command]
        BY <2>1, <2>2 DEF Start, Command, Saved
    <2>4. pc' \in [Procs -> {"idle"} \cup Active \cup Ended]
        BY <2>1, GotoType DEF Start, Active
    <2>5. overlapped' \subseteq Projects /\ quiet' \in [Procs -> BOOLEAN]
        BY <2>1 DEF Start
    <2>6. QED
        BY <2>1, <2>2, <2>3, <2>4, <2>5 DEF Start
<1>2. CASE Load(p)
    <2>1. pc' \in [Procs -> {"idle"} \cup Active \cup Ended]
        BY <1>2 DEF Load, After, Goto, Command, Saved, Active, Ended, SavingState, SavingManifest
    <2>2. QED
        BY <1>2, <2>1 DEF Load
<1>3. CASE Connect(p)
    <2>1. pc' \in [Procs -> {"idle"} \cup Active \cup Ended]
        BY <1>3 DEF Connect, Goto, Active, Ended
    <2>2. outcome' \in [Projects -> {"none", "running", "failed", "success"}]
        BY <1>3, <1>j DEF Connect
    <2>3. QED
        BY <1>3, <2>1, <2>2 DEF Connect
<1>4. CASE Ingest(p)
    <2>1. PICK s \in {"failed", "success"} : Saving(p, s) /\ outcome' = [outcome EXCEPT ![Job(p)] = s]
        BY <1>4 DEF Ingest
    <2>2. cmd' \in [Procs -> Command]
        BY <2>1, <1>j, CommandUpdates DEF Saving, Saved
    <2>3. outcome' \in [Projects -> {"none", "running", "failed", "success"}]
        BY <2>1, <1>j
    <2>4. pc' \in [Procs -> {"idle"} \cup Active \cup Ended]
        BY <1>4 DEF Ingest, Goto, Active, SavingState
    <2>5. QED
        BY <1>4, <2>2, <2>3, <2>4 DEF Ingest
<1>5. CASE Kill(p)
    <2>1. pc' \in [Procs -> {"idle"} \cup Active \cup Ended]
        BY <1>5 DEF Kill, Goto, Ended
    <2>2. mem' \in [Procs -> Memory]
        BY <1>5, EmptyTyped DEF Kill
    <2>3. QED
        BY <1>5, <2>1, <2>2 DEF Kill
<1>6. CASE ReadCurrent(p)
    <2>1. pc' \in [Procs -> {"idle"} \cup Active \cup Ended]
        BY <1>6 DEF ReadCurrent, Goto, Active, Ended, SavingState
    <2>2. ASSUME Readable(stateFile) PROVE MergedRuntime(p, stateFile[Job(p)]) \in Runtime
        BY <2>2, <1>j, MergedTypes DEF Readable, StateMaps
    <2>3. mem' \in [Procs -> Memory]
        BY <1>6, <2>2, MemoryUpdates, EmptyTyped DEF ReadCurrent, Readable
    <2>4. QED
        BY <1>6, <2>1, <2>3 DEF ReadCurrent
<1>7. CASE ReadMap(p)
    <2>1. pc' \in [Procs -> {"idle"} \cup Active \cup Ended]
        BY <1>7 DEF ReadMap, Goto, Active, Ended, SavingState
    <2>2. ASSUME Readable(stateFile)
          PROVE  [stateFile EXCEPT ![Job(p)] = mem[p].current] \in StateMaps
        BY <2>2, <1>j DEF Readable, StateMaps, Memory
    <2>3. mem' \in [Procs -> Memory]
        BY <1>7, <2>2, MemoryUpdates, EmptyTyped DEF ReadMap
    <2>4. QED
        BY <1>7, <2>1, <2>3 DEF ReadMap
<1>8. CASE TruncateState(p)
    <2>1. pc' \in [Procs -> {"idle"} \cup Active \cup Ended]
        BY <1>8 DEF TruncateState, Goto, Active, SavingState
    <2>2. QED
        BY <1>8, <2>1 DEF TruncateState, Touch
<1>9. CASE WriteState(p)
    <2>1. pc' \in [Procs -> {"idle"} \cup Active \cup Ended]
        BY <1>9 DEF WriteState, Goto, Active, SavingState
    <2>2. mem[p].map \in StateMaps
        BY DEF Memory
    <2>3. stateFile' \in StateMaps \cup {Empty, Garbled}
        BY <1>9, <2>2 DEF WriteState, Overwritten
    <2>4. mem' \in [Procs -> Memory]
        BY <1>9, EmptyTyped DEF WriteState
    <2>5. QED
        BY <1>9, <2>1, <2>3, <2>4 DEF WriteState, Touch
<1>10. CASE ReadManifest(p)
    <2>1. pc' \in [Procs -> {"idle"} \cup Active \cup Ended]
        BY <1>10 DEF ReadManifest, Goto, Active, Ended, SavingManifest
    <2> DEFINE old == IF manifests[Job(p)] = Absent THEN NoManifest ELSE manifests[Job(p)]
    <2>2. ASSUME Readable(manifests[Job(p)]) PROVE MergedManifest(p, old) \in Manifest
        BY <2>2, <1>j, MergedTypes DEF Readable
    <2>3. mem' \in [Procs -> Memory]
        BY <1>10, <2>2, MemoryUpdates, EmptyTyped DEF ReadManifest
    <2>4. QED
        BY <1>10, <2>1, <2>3 DEF ReadManifest
<1>11. CASE TruncateManifest(p)
    <2>1. pc' \in [Procs -> {"idle"} \cup Active \cup Ended]
        BY <1>11 DEF TruncateManifest, Goto, Active, SavingManifest
    <2>2. QED
        BY <1>11, <2>1, <1>j DEF TruncateManifest, Touch
<1>12. CASE WriteManifest(p)
    <2>1. pc' \in [Procs -> {"idle"} \cup Active \cup Ended]
        BY <1>12 DEF WriteManifest, Goto, Active, SavingManifest
    <2>2. mem' \in [Procs -> Memory]
        BY <1>12, EmptyTyped DEF WriteManifest
    <2>3. mem[p].manifest \in Manifest
        BY <1>12 DEF SavesInv, WriteManifest
    <2>4. manifests' \in [Projects -> Manifest \cup {Absent, Empty, Garbled}]
        BY <1>12, <2>3, <1>j DEF WriteManifest, Overwritten
    <2>5. QED
        BY <1>12, <2>1, <2>2, <2>4 DEF WriteManifest, Touch
<1>13. QED
    BY <1>1, <1>2, <1>3, <1>4, <1>5, <1>6, <1>7, <1>8, <1>9, <1>10, <1>11, <1>12
    DEF CommandStep, SaveState, SaveManifest

LEMMA ServerType ==
    ASSUME TypeOK, Server
    PROVE  TypeOK'
<1> USE ServerUpdates DEF TypeOK, files, commands, ServerAt, GiveUp
<1>1. CASE Launch
    BY <1>1 DEF Launch
<1>2. ASSUME NEW a, NEW b \in {"start_manifests", "load_manifests"}, NEW c \in {"down", "serving"},
             LoadState(a, b, c)
      PROVE  TypeOK'
    <2>1. CASE Readable(stateFile)
        <3>1. stateFile \in StateMaps
            BY <2>1 DEF Readable
        <3>2. [srv EXCEPT !.pc = b, !.draft.state = stateFile] \in ServerState
            BY <3>1
        <3>3. QED
            BY <1>2, <2>1, <3>2 DEF LoadState
    <2>2. CASE ~Readable(stateFile)
        <3>1. [srv EXCEPT !.pc = c, !.draft = srv.view] \in ServerState
            OBVIOUS
        <3>2. QED
            BY <1>2, <2>2, <3>1 DEF LoadState
    <2>3. QED
        BY <2>1, <2>2
<1>3. ASSUME NEW a, NEW b \in {"sign", "assign"}, NEW c \in {"down", "serving"},
             LoadManifests(a, b, c)
      PROVE  TypeOK'
    <2>1. CASE \A j \in Projects : Readable(manifests[j])
        <3>1. manifests \in [Projects -> Manifest \cup {Absent}]
            BY <2>1 DEF Readable
        <3>2. [srv EXCEPT !.pc = b, !.draft.manifests = manifests] \in ServerState
            BY <3>1
        <3>3. QED
            BY <1>3, <2>1, <3>2 DEF LoadManifests
    <2>2. CASE ~(\A j \in Projects : Readable(manifests[j]))
        <3>1. [srv EXCEPT !.pc = c, !.draft = srv.view] \in ServerState
            OBVIOUS
        <3>2. QED
            BY <1>3, <2>2, <3>1 DEF LoadManifests
    <2>3. QED
        BY <2>1, <2>2
<1>4. CASE Sign \/ Refresh \/ Assign
    BY <1>4 DEF Sign, Refresh, Assign
<1>5. QED
    BY <1>1, <1>2, <1>3, <1>4 DEF Server

-----------------------------------------------------------------------------
(* One command at a time *)

LEMMA Others ==
    ASSUME TypeOK, NEW p \in Procs, CommandStep(p)
    PROVE  \A q \in Procs \ {p} :
              pc'[q] = pc[q] /\ cmd'[q] = cmd[q] /\ Job(q)' = Job(q) /\ Announced(q)' = Announced(q)
<1>1. \A q \in Procs \ {p} : pc'[q] = pc[q] /\ cmd'[q] = cmd[q]
    BY DEF TypeOK, Goto, Saving, CommandStep, Start, Load, SaveState, SaveManifest, Connect, Ingest,
           Kill, ReadCurrent, ReadMap, TruncateState, WriteState, ReadManifest, TruncateManifest,
           WriteManifest
<1>2. QED
    BY <1>1 DEF Job, Announced

LEMMA Acting ==
    ASSUME TypeOK, NEW p \in Procs, CommandStep(p), ~(\E j \in Projects : Start(p, j))
    PROVE  pc[p] \in Active /\ UNCHANGED overlapped /\ Job(p)' = Job(p)
<1> USE DEF CommandStep, Load, SaveState, SaveManifest, Connect, Ingest, Kill, ReadCurrent, ReadMap,
            TruncateState, WriteState, ReadManifest, TruncateManifest, WriteManifest
<1>1. pc[p] \in Active
    BY DEF Active, SavingState, SavingManifest
<1>2. UNCHANGED overlapped
    OBVIOUS
<1>3. Job(p)' = Job(p)
    BY DEF TypeOK, Job, Saving, Command
<1>4. QED
    BY <1>1, <1>2, <1>3

LEMMA StepAlone ==
    ASSUME TypeOK, AloneInv, NEW p \in Procs, CommandStep(p)
    PROVE  AloneInv'
<1>1. CASE \E j \in Projects : Start(p, j)
    <2>1. PICK j \in Projects : Start(p, j)
        BY <1>1
    <2>2. Job(p)' = j
        BY <2>1 DEF Start, Job, TypeOK
    <2>3. j \notin overlapped' => \A q \in Procs : pc[q] \in Active => Job(q) # j
        BY <2>1 DEF Start
    <2>4. overlapped \subseteq overlapped'
        BY <2>1 DEF Start
    <2>5. QED
        BY <2>2, <2>3, <2>4, Others DEF AloneInv
<1>2. CASE ~(\E j \in Projects : Start(p, j))
    BY <1>2, Acting, Others DEF AloneInv
<1>3. QED
    BY <1>1, <1>2

LEMMA StepSaves ==
    ASSUME TypeOK, SavesInv, NEW p \in Procs, CommandStep(p)
    PROVE  SavesInv'
<1> USE DEF TypeOK, SavesInv, Job, Goto
<1>1. CASE \E j \in Projects : Start(p, j)
    BY <1>1 DEF Start
<1>2. CASE Load(p)
    BY <1>2 DEF Load, After, Command, Saved
<1>3. CASE Connect(p) \/ Kill(p)
    BY <1>3 DEF Connect, Kill
<1>4. CASE Ingest(p)
    BY <1>4 DEF Ingest, Saving
<1>5. CASE SaveState(p)
    BY <1>5 DEF SaveState, ReadCurrent, ReadMap, TruncateState, WriteState
<1>6. CASE ReadManifest(p)
    <2> DEFINE old == IF manifests[Job(p)] = Absent THEN NoManifest ELSE manifests[Job(p)]
    <2>1. Readable(manifests[Job(p)]) =>
             MergedManifest(p, old) \in Manifest /\ MergedManifest(p, old).status = cmd[p].saves
        BY MergedTypes DEF Readable, Command
    <2>2. Readable(manifests[Job(p)]) => mem'[p].manifest = MergedManifest(p, old)
        BY <1>6 DEF ReadManifest, Memory
    <2>3. \A q \in Procs \ {p} : mem'[q] = mem[q] /\ pc'[q] = pc[q]
        BY <1>6 DEF ReadManifest
    <2>4. QED
        BY <1>6, <2>1, <2>2, <2>3 DEF ReadManifest
<1>7. CASE TruncateManifest(p) \/ WriteManifest(p)
    BY <1>7 DEF TruncateManifest, WriteManifest
<1>8. QED
    BY <1>1, <1>2, <1>3, <1>4, <1>5, <1>6, <1>7 DEF CommandStep, SaveManifest

-----------------------------------------------------------------------------
(* What the manifest says *)

LEMMA StepOutcome ==
    ASSUME TypeOK, AloneInv, SavesInv, OutcomeInv, NEW p \in Procs, CommandStep(p)
    PROVE  OutcomeInv'
<1>j. Job(p) \in Projects /\ overlapped \subseteq overlapped'
    <2>1. Job(p) \in Projects
        BY DEF TypeOK, Job, Command
    <2>2. CASE \E j \in Projects : Start(p, j)
        BY <2>1, <2>2 DEF Start
    <2>3. CASE ~(\E j \in Projects : Start(p, j))
        BY <2>1, <2>3, Acting
    <2>4. QED
        BY <2>2, <2>3
<1>1. CASE \E j \in Projects : Start(p, j)
    <2>1. UNCHANGED outcome /\ cmd'[p].saves = "running"
        BY <1>1 DEF Start, TypeOK
    <2>2. QED
        BY <1>j, <2>1, Others DEF OutcomeInv
<1>2. CASE Connect(p)
    <2>1. UNCHANGED cmd /\ UNCHANGED overlapped /\ cmd[p].saves = "running" /\ pc[p] \in Active
        BY <1>2 DEF Connect, SavesInv, Active
    <2>2. \A j \in Projects \ {Job(p)} : outcome'[j] = outcome[j]
        BY <1>2 DEF Connect, TypeOK
    <2>3. \A q \in Procs \ {p} : pc[q] \in Active /\ Job(q) \notin overlapped => Job(q) # Job(p)
        BY <2>1 DEF AloneInv
    <2>4. \A q \in Procs : Job(q) \in Projects
        BY DEF TypeOK, Job, Command
    <2>5. QED
        BY <2>1, <2>2, <2>3, <2>4, Others DEF OutcomeInv, Job
<1>3. CASE Ingest(p)
    <2>1. PICK s \in {"failed", "success"} : Saving(p, s) /\ outcome' = [outcome EXCEPT ![Job(p)] = s]
        BY <1>3 DEF Ingest
    <2>2. cmd'[p].saves = s /\ outcome'[Job(p)] = s
        BY <1>j, <2>1 DEF Saving, TypeOK, Command
    <2>3. UNCHANGED overlapped /\ Job(p)' = Job(p) /\ pc[p] \in Active
        BY <1>3, <2>1 DEF Ingest, Saving, TypeOK, Command, Job, Active
    <2>4. \A j \in Projects \ {Job(p)} : outcome'[j] = outcome[j]
        BY <2>1 DEF TypeOK
    <2>5. \A q \in Procs \ {p} : pc[q] \in Active /\ Job(q) \notin overlapped => Job(q) # Job(p)
        BY <2>3 DEF AloneInv
    <2>6. \A q \in Procs : Job(q) \in Projects
        BY DEF TypeOK, Job, Command
    <2>7. QED
        BY <2>2, <2>3, <2>4, <2>5, <2>6, Others DEF OutcomeInv
<1>4. CASE Load(p) \/ SaveState(p) \/ SaveManifest(p) \/ Kill(p)
    <2>1. UNCHANGED <<cmd, outcome, overlapped>> /\ pc[p] \in Active
        BY <1>4 DEF Load, SaveState, SaveManifest, Kill, ReadCurrent, ReadMap, TruncateState,
                    WriteState, ReadManifest, TruncateManifest, WriteManifest, Active, SavingState,
                    SavingManifest
    <2>2. QED
        BY <2>1, Others DEF OutcomeInv, Job
<1>5. QED
    BY <1>1, <1>2, <1>3, <1>4 DEF CommandStep

LEMMA AnnouncedActive ==
    \A q \in Procs : Announced(q) => pc[q] \in Active
BY DEF Announced, Active, SavingState, SavingManifest

\* A step that leaves the manifests and the outcomes alone, and announces no
\* command.
LEMMA ManifestKept ==
    ASSUME TypeOK, ManifestInv, NEW p \in Procs, CommandStep(p),
           UNCHANGED <<manifests, outcome>>, overlapped \subseteq overlapped',
           Announced(p)' => Announced(p) /\ Job(p)' = Job(p)
    PROVE  ManifestInv'
<1>1. \A j \in Projects : SaysSuccess(j)' <=> SaysSuccess(j)
    BY DEF SaysSuccess, Recorded
<1>2. \A q \in Procs : Job(q) \in Projects
    BY DEF TypeOK, Job, Command
<1>3. \A j \in Projects \ overlapped' : SaysSuccess(j)' => outcome'[j] = "success"
    BY <1>1 DEF ManifestInv
<1>4. ASSUME NEW q \in Procs, Job(q)' \notin overlapped', Announced(q)'
      PROVE  ~SaysSuccess(Job(q))'
    <2>1. Announced(q) /\ Job(q)' = Job(q)
        BY <1>4, Others
    <2>2. ~SaysSuccess(Job(q))
        BY <1>4, <2>1 DEF ManifestInv
    <2>3. QED
        BY <2>1, <2>2, <1>1, <1>2
<1>5. QED
    BY <1>3, <1>4 DEF ManifestInv

\* A step of p that changes the manifest or the outcome of its project.
LEMMA ManifestChanged ==
    ASSUME TypeOK, AloneInv, ManifestInv, NEW p \in Procs, CommandStep(p),
           pc[p] \in Active, UNCHANGED overlapped, Job(p)' = Job(p),
           \A j \in Projects \ {Job(p)} : manifests'[j] = manifests[j] /\ outcome'[j] = outcome[j],
           Job(p) \notin overlapped =>
               /\ SaysSuccess(Job(p))' => outcome'[Job(p)] = "success"
               /\ Announced(p)' => ~SaysSuccess(Job(p))'
    PROVE  ManifestInv'
<1>1. \A j \in Projects \ {Job(p)} : SaysSuccess(j)' <=> SaysSuccess(j)
    BY DEF SaysSuccess, Recorded
<1>2. \A q \in Procs : Job(q) \in Projects
    BY DEF TypeOK, Job, Command
<1>3. \A j \in Projects \ overlapped' : SaysSuccess(j)' => outcome'[j] = "success"
    BY <1>1 DEF ManifestInv
<1>4. ASSUME NEW q \in Procs \ {p}, Job(q)' \notin overlapped', Announced(q)'
      PROVE  ~SaysSuccess(Job(q))'
    <2>1. Announced(q) /\ Job(q)' = Job(q) /\ Job(q) \notin overlapped
        BY <1>4, Others
    <2>2. Job(q) # Job(p)
        BY <2>1, AnnouncedActive DEF AloneInv
    <2>3. ~SaysSuccess(Job(q))
        BY <2>1 DEF ManifestInv
    <2>4. QED
        BY <2>1, <2>2, <2>3, <1>1, <1>2
<1>5. QED
    BY <1>3, <1>4 DEF ManifestInv

LEMMA StepManifest ==
    ASSUME TypeOK, AloneInv, SavesInv, OutcomeInv, ManifestInv, NEW p \in Procs, CommandStep(p)
    PROVE  ManifestInv'
<1>j. Job(p) \in Projects
    BY DEF TypeOK, Job, Command
<1>1. CASE \E j \in Projects : Start(p, j)
    <2>1. UNCHANGED <<manifests, outcome>> /\ overlapped \subseteq overlapped' /\ pc'[p] = "load"
        BY <1>1 DEF Start, Goto, TypeOK, files
    <2>2. ~Announced(p)'
        BY <2>1 DEF Announced, SavingState
    <2>3. QED
        BY <2>1, <2>2, ManifestKept
<1>2. CASE Load(p) \/ SaveState(p) \/ ReadManifest(p) \/ Kill(p)
    <2> USE DEF Load, SaveState, ReadManifest, Kill, ReadCurrent, ReadMap, TruncateState, WriteState
    <2>1. UNCHANGED <<manifests, outcome, overlapped, cmd>>
        BY <1>2 DEF files
    <2>2. pc[p] = "load" => cmd[p].saves = "running"
        BY DEF SavesInv
    <2>3. Announced(p)' => Announced(p)
        <3> USE DEF Announced, SavingState
        <3>1. CASE Load(p)
            <4>1. cmd[p].saves \in {"running", "failed", "success"}
                BY DEF TypeOK, Command, Saved
            <4>2. QED
                BY <3>1, <2>1, <2>2, <4>1 DEF After, Goto, TypeOK
        <3>2. CASE SaveState(p)
            BY <3>2, <2>1 DEF Goto, TypeOK
        <3>3. CASE ReadManifest(p) \/ Kill(p)
            BY <3>3, <2>1 DEF Goto, TypeOK
        <3>4. QED
            BY <1>2, <3>1, <3>2, <3>3
    <2>4. Job(p)' = Job(p)
        BY <2>1 DEF Job
    <2>5. QED
        BY <2>1, <2>3, <2>4, ManifestKept
<1>3. CASE Connect(p) \/ Ingest(p)
    <2>1. Announced(p) /\ UNCHANGED <<manifests, overlapped>>
        BY <1>3 DEF Connect, Ingest, Announced, files
    <2>2. ~(\E j \in Projects : Start(p, j))
        BY <1>3 DEF Connect, Ingest, Start, Ended
    <2>3. \A j \in Projects \ {Job(p)} : outcome'[j] = outcome[j]
        BY <1>3 DEF Connect, Ingest, TypeOK
    <2>4. pc[p] \in Active /\ Job(p)' = Job(p)
        BY <2>2, Acting
    <2>5. Job(p) \notin overlapped => ~SaysSuccess(Job(p))'
        BY <2>1, <2>4 DEF ManifestInv, SaysSuccess, Recorded
    <2>6. QED
        BY <2>1, <2>3, <2>4, <2>5, ManifestChanged
<1>4. CASE TruncateManifest(p)
    <2>1. UNCHANGED <<outcome, overlapped>> /\ pc[p] \in Active
        BY <1>4 DEF TruncateManifest, Active, SavingManifest
    <2>2. manifests' = [manifests EXCEPT ![Job(p)] = Empty]
        BY <1>4 DEF TruncateManifest
    <2>3. Job(p)' = Job(p)
        BY <1>4 DEF TruncateManifest, Job
    <2>4. ~SaysSuccess(Job(p))'
        BY <1>j, <2>2, <2>3 DEF SaysSuccess, Recorded, Readable, TypeOK
    <2>5. \A j \in Projects \ {Job(p)} : manifests'[j] = manifests[j]
        BY <2>2 DEF TypeOK
    <2>6. QED
        BY <2>1, <2>3, <2>4, <2>5, ManifestChanged
<1>5. CASE WriteManifest(p)
    <2>1. UNCHANGED <<outcome, overlapped, cmd>> /\ pc[p] \in Active /\ pc'[p] = "reload_manifest"
        BY <1>5 DEF WriteManifest, Active, SavingManifest, Goto, TypeOK
    <2>2. PICK text \in {mem[p].manifest, Garbled} : manifests' = [manifests EXCEPT ![Job(p)] = text]
        BY <1>5 DEF WriteManifest, Overwritten
    <2>3. Job(p)' = Job(p)
        BY <2>1 DEF Job
    <2>4. mem[p].manifest.status = cmd[p].saves
        BY <1>5 DEF SavesInv, WriteManifest
    <2>5. SaysSuccess(Job(p))' => cmd[p].saves = "success"
        BY <1>j, <2>2, <2>3, <2>4 DEF SaysSuccess, Recorded, Readable, TypeOK
    <2>6. Job(p) \notin overlapped /\ SaysSuccess(Job(p))' => outcome'[Job(p)] = "success"
        BY <2>1, <2>5 DEF OutcomeInv
    <2>7. Announced(p)' => cmd[p].saves = "running"
        BY <2>1 DEF Announced, SavingState
    <2>8. \A j \in Projects \ {Job(p)} : manifests'[j] = manifests[j]
        BY <2>2 DEF TypeOK
    <2>9. QED
        BY <2>1, <2>3, <2>5, <2>6, <2>7, <2>8, ManifestChanged
<1>6. QED
    BY <1>1, <1>2, <1>3, <1>4, <1>5 DEF CommandStep, SaveManifest

-----------------------------------------------------------------------------
(* What the server has read *)

LEMMA StepServer ==
    ASSUME TypeOK, ServerInv, NEW p \in Procs, CommandStep(p)
    PROVE  ServerInv'
<1>1. UNCHANGED <<srv, missed>>
    BY DEF CommandStep, Start, Load, SaveState, SaveManifest, Connect, Ingest, Kill, ReadCurrent,
           ReadMap, TruncateState, WriteState, ReadManifest, TruncateManifest, WriteManifest, Touch,
           server
<1>2. UNCHANGED <<files, touched, pending>> \/ (touched' = TRUE /\ pending' = TRUE)
    BY DEF CommandStep, Start, Load, SaveState, SaveManifest, Connect, Ingest, Kill, ReadCurrent,
           ReadMap, TruncateState, WriteState, ReadManifest, TruncateManifest, WriteManifest, Touch,
           server, files
<1>3. CASE UNCHANGED <<files, touched, pending>>
    BY <1>1, <1>3 DEF ServerInv, MissesOnlyAtStart, Unchanged, Disk, files
<1>4. CASE touched' = TRUE /\ pending' = TRUE
    BY <1>1, <1>4 DEF ServerInv, MissesOnlyAtStart, Unchanged
<1>5. QED
    BY <1>2, <1>3, <1>4

\* The part of ServerInv that a load builds up.
LEMMA DraftIsDisk ==
    ASSUME TypeOK, ServerInv, srv.pc \in {"sign", "assign"}, ~pending
    PROVE  srv.draft = Disk
<1>1. srv.draft.state = stateFile /\ srv.draft.manifests = manifests
    BY DEF ServerInv
<1>2. srv.draft \in View
    BY DEF TypeOK, ServerState
<1>3. QED
    BY <1>1, <1>2 DEF View, Disk

LEMMA ServerStepServer ==
    ASSUME TypeOK, ServerInv, Server
    PROVE  ServerInv'
<1> USE DEF ServerAt, GiveUp, Unchanged, MissesOnlyAtStart
<1>1. /\ srv.pc \in {"down", "start", "start_manifests", "sign", "serving", "load",
                    "load_manifests", "assign"}
      /\ srv = [pc |-> srv.pc, view |-> srv.view, draft |-> srv.draft]
      /\ srv.draft = [state |-> srv.draft.state, manifests |-> srv.draft.manifests]
    BY DEF TypeOK, ServerState, View
<1>2. UNCHANGED files
    BY DEF Server, Launch, LoadState, LoadManifests, Sign, Refresh, Assign
<1>3. Disk' = Disk
    BY <1>2 DEF files, Disk
<1>4. CASE Launch \/ Refresh
    <2>1. srv'.pc \in {"start", "load"} /\ (srv'.pc = "load" => touched')
        BY <1>1, <1>4 DEF Launch, Refresh
    <2>2. QED
        BY <2>1 DEF ServerInv
<1>5. CASE LoadState("start", "start_manifests", "down")
    <2>1. CASE Readable(stateFile)
        <3>1. srv'.pc = "start_manifests" /\ srv'.draft.state = stateFile
            BY <1>1, <1>5, <2>1 DEF LoadState
        <3>2. QED
            BY <1>2, <3>1 DEF ServerInv, files
    <2>2. CASE ~Readable(stateFile)
        <3>1. srv'.pc = "down"
            BY <1>1, <1>5, <2>2 DEF LoadState
        <3>2. QED
            BY <3>1 DEF ServerInv
    <2>3. QED
        BY <2>1, <2>2
<1>6. CASE LoadState("load", "load_manifests", "serving")
    <2>1. touched'
        BY <1>6 DEF LoadState, ServerInv
    <2>2. CASE Readable(stateFile)
        <3>1. srv'.pc = "load_manifests" /\ srv'.draft.state = stateFile
            BY <1>1, <1>6, <2>2 DEF LoadState
        <3>2. QED
            BY <1>2, <2>1, <3>1 DEF ServerInv, files
    <2>3. CASE ~Readable(stateFile)
        <3>1. srv'.pc = "serving"
            BY <1>1, <1>6, <2>3 DEF LoadState
        <3>2. QED
            BY <2>1, <3>1 DEF ServerInv
    <2>4. QED
        BY <2>2, <2>3
<1>7. ASSUME NEW a \in {"start_manifests", "load_manifests"}, NEW b \in {"sign", "assign"},
             NEW c \in {"down", "serving"}, LoadManifests(a, b, c),
             \/ a = "start_manifests" /\ b = "sign" /\ c = "down"
             \/ a = "load_manifests" /\ b = "assign" /\ c = "serving"
      PROVE  ServerInv'
    <2>1. a = "load_manifests" => touched'
        BY <1>7 DEF LoadManifests, ServerInv
    <2>2. CASE \A j \in Projects : Readable(manifests[j])
        <3>1. /\ srv'.pc = b
              /\ srv'.draft.state = srv.draft.state
              /\ srv'.draft.manifests = manifests
            BY <1>1, <1>7, <2>2 DEF LoadManifests
        <3>2. ~pending => srv.draft.state = stateFile
            BY <1>7 DEF ServerInv, LoadManifests
        <3>3. UNCHANGED pending
            BY <1>7 DEF LoadManifests
        <3>4. QED
            BY <1>2, <1>7, <2>1, <3>1, <3>2, <3>3 DEF ServerInv, files
    <2>3. CASE ~(\A j \in Projects : Readable(manifests[j]))
        <3>1. srv'.pc = c
            BY <1>1, <1>7, <2>3 DEF LoadManifests
        <3>2. QED
            BY <1>7, <2>1, <3>1 DEF ServerInv
    <2>4. QED
        BY <2>2, <2>3
<1>8. CASE Sign \/ Assign
    <2>1. srv'.pc = "serving" /\ srv'.view = srv.draft
        BY <1>1, <1>8 DEF Sign, Assign
    <2>2. ~touched' /\ ~missed' => ~pending
        BY <1>8 DEF Sign, Assign
    <2>3. ~pending => srv.draft = Disk
        BY <1>8, DraftIsDisk DEF Sign, Assign
    <2>4. QED
        BY <1>3, <2>1, <2>2, <2>3 DEF ServerInv
<1>9. QED
    BY <1>4, <1>5, <1>6, <1>7, <1>8 DEF Server

-----------------------------------------------------------------------------
(* The inductive invariant *)

LEMMA InitInv == Init => IInv
<1> SUFFICES ASSUME Init PROVE IInv
    OBVIOUS
<1>1. TypeOK
    BY InitType
<1>2. AloneInv /\ SavesInv /\ OutcomeInv
    BY DEF Init, AloneInv, SavesInv, OutcomeInv, Active, SavingState, SavingManifest
<1>3. ManifestInv
    BY <1>1 DEF Init, NoView, ManifestInv, SaysSuccess, Recorded, Job, TypeOK, Command
<1>4. ServerInv
    BY DEF Init, ServerInv, MissesOnlyAtStart, Unchanged
<1>5. QED
    BY <1>1, <1>2, <1>3, <1>4 DEF IInv

LEMMA NextInv == IInv /\ [Next]_vars => IInv'
<1> SUFFICES ASSUME IInv, [Next]_vars PROVE IInv'
    OBVIOUS
<1> USE DEF IInv
<1>1. CASE \E p \in Procs : CommandStep(p)
    <2>1. PICK p \in Procs : CommandStep(p)
        BY <1>1
    <2>2. QED
        BY <2>1, CommandType, StepAlone, StepSaves, StepOutcome, StepManifest, StepServer
<1>2. CASE Server
    <2>1. UNCHANGED <<files, commands>>
        BY <1>2 DEF Server, Launch, LoadState, LoadManifests, Sign, Refresh, Assign
    <2>2. AloneInv' /\ SavesInv' /\ OutcomeInv' /\ ManifestInv'
        BY <2>1 DEF files, commands, AloneInv, SavesInv, OutcomeInv, ManifestInv, SaysSuccess,
                    Recorded, Announced, Job
    <2>3. QED
        BY <1>2, <2>2, ServerType, ServerStepServer
<1>3. CASE UNCHANGED vars
    BY <1>3 DEF vars, files, commands, server, TypeOK, AloneInv, SavesInv, OutcomeInv, ManifestInv,
                SaysSuccess, Recorded, Announced, Job, ServerInv, MissesOnlyAtStart, Unchanged, Disk
<1>4. QED
    BY <1>1, <1>2, <1>3 DEF Next, CommandStep

\* Every reachable state satisfies the inductive invariant.
THEOREM Inductive == Spec => []IInv
BY InitInv, NextInv, PTL DEF Spec

\* Every state of the commands, the files and the server is of its type.
THEOREM TypeCorrect == Spec => []TypeOK
<1>1. IInv => TypeOK
    BY DEF IInv
<1>2. QED
    BY <1>1, Inductive, PTL

\* However many commands of however many projects undo one another's updates
\* of the state file, are killed or fail, a project whose own commands do not
\* overlap is ok only if the last ingest run for it succeeded.
THEOREM OkTruthful == Spec => []OkOnlyAfterSuccess
<1>1. IInv => OkOnlyAfterSuccess
    <2> SUFFICES ASSUME IInv, NEW j \in Projects \ overlapped, Readable(stateFile),
                        Readable(manifests[j]), Shown(j) = "ok"
                 PROVE  outcome[j] = "success"
        BY DEF OkOnlyAfterSuccess
    <2>1. manifests[j] # Absent
        BY DEF Shown, Integrity
    <2>2. manifests[j] \in Manifest
        BY <2>1 DEF IInv, TypeOK, Readable
    <2>3. manifests[j].status \notin {"failed", "running"}
        BY <2>1 DEF Shown, Integrity
    <2>4. manifests[j].status = "success"
        BY <2>2, <2>3 DEF Manifest, Saved
    <2>5. QED
        BY <2>1, <2>4 DEF IInv, ManifestInv, SaysSuccess, Recorded
<1>2. QED
    BY <1>1, Inductive, PTL

\* The server never goes on with a registry that the files have outgrown,
\* unless they changed while it started.
THEOREM ServerSees == Spec => []MissesOnlyAtStart
<1>1. IInv => MissesOnlyAtStart
    BY DEF IInv, ServerInv
<1>2. QED
    BY <1>1, Inductive, PTL

-----------------------------------------------------------------------------
(* A command that nobody disturbs *)

RuntimeSaved(p, r) ==
    r.status = cmd[p].saves /\ (cmd[p].saves = "success" => r.succeeded = cmd[p].number)

ManifestSaved(p, m) ==
    /\ m \in Manifest /\ m.status = cmd[p].saves
    /\ cmd[p].saves = "success" => m.completed = cmd[p].number /\ ~m.error

\* What p saves is in its memory, then in the file, first the state and then
\* the manifest; nobody else truncates or overwrites either.
QuietInv(p) ==
    /\ \A q \in Procs : q # p => pc[q] \notin Active
    /\ pc[p] # "idle"
    /\ pc[p] = "map" => RuntimeSaved(p, mem[p].current)
    /\ pc[p] \in {"truncate_state", "write_state"} => RuntimeSaved(p, mem[p].map[Job(p)])
    /\ pc[p] = "write_state" => stateFile = Empty
    /\ pc[p] \in SavingManifest \cup {"reload_state", "done", "failed"} =>
          RuntimeSaved(p, stateFile[Job(p)])
    /\ pc[p] \in {"truncate_manifest", "write_manifest"} => ManifestSaved(p, mem[p].manifest)
    /\ pc[p] = "write_manifest" => manifests[Job(p)] = Empty
    /\ pc[p] \in {"reload_manifest", "done", "failed"} => ManifestSaved(p, manifests[Job(p)])
    /\ pc[p] = "done" => cmd[p].saves = "success"
    /\ pc[p] = "failed" => cmd[p].saves = "failed"

AllQuietInv == \A p \in Procs : quiet[p] => QuietInv(p)

LEMMA QuietStep ==
    ASSUME TypeOK, SavesInv, NEW p \in Procs, QuietInv(p), CommandStep(p),
           ~\E j \in Projects : Start(p, j)
    PROVE  QuietInv(p)'
<1> DEFINE j == Job(p)
<1> USE DEF files, server, Touch
<1>1. j \in Projects /\ cmd[p] \in Command /\ mem[p] \in Memory
    BY DEF TypeOK, Job, Command
<1>2. \A q \in Procs : q # p => pc'[q] \notin Active
    BY Others DEF QuietInv
<1>3. ASSUME NEW l \in {"idle"} \cup Active \cup Ended, Goto(p, l) PROVE pc'[p] = l
    BY <1>3 DEF Goto, TypeOK
<1>4. Ingest(p) \/ cmd' = cmd
    BY DEF CommandStep, Load, SaveState, SaveManifest, Connect, Kill, ReadCurrent, ReadMap,
           TruncateState, WriteState, ReadManifest, TruncateManifest, WriteManifest
<1>5. cmd' = cmd => Job(p)' = j
    BY DEF Job
<1>6. CASE pc'[p] \in {"raised", "killed", "connect", "ingest", "current"}
    BY <1>2, <1>6 DEF QuietInv, SavingManifest
<1>7. CASE Load(p)
    <2>1. /\ pc'[p] = "raised" \/ pc'[p] = After(p)
          /\ pc[p] \in {"load", "reload_state", "reload_manifest"}
          /\ UNCHANGED <<files, cmd, mem>>
        <3>1. After(p) \in Active \cup Ended
            BY <1>1, <1>7 DEF Load, After, Command, Saved, Active, Ended, SavingState, SavingManifest
        <3>2. Goto(p, "raised") \/ Goto(p, After(p))
            BY <1>7 DEF Load
        <3>3. QED
            BY <1>3, <1>7, <3>1, <3>2 DEF Load, Ended
    <2>2. CASE pc[p] = "load" \/ pc'[p] = "raised"
        BY <1>6, <2>1, <2>2 DEF After
    <2>3. CASE pc[p] = "reload_state" /\ pc'[p] = "existing"
        BY <1>2, <1>5, <2>1, <2>3 DEF QuietInv, RuntimeSaved, SavingManifest
    <2>4. CASE pc[p] = "reload_manifest" /\ pc'[p] = After(p)
        <3>1. \/ pc'[p] = "connect"
              \/ pc'[p] = "done" /\ cmd[p].saves = "success"
              \/ pc'[p] = "failed" /\ cmd[p].saves = "failed"
            BY <1>1, <2>4 DEF After, Command, Saved
        <3>2. CASE pc'[p] = "connect"
            BY <1>6, <3>2
        <3>3. CASE pc'[p] # "connect"
            <4>1. RuntimeSaved(p, stateFile[j])' /\ ManifestSaved(p, manifests[j])'
                BY <1>5, <2>1, <2>4 DEF QuietInv, RuntimeSaved, ManifestSaved, SavingManifest
            <4>2. QED
                BY <1>2, <2>1, <3>1, <3>3, <4>1 DEF QuietInv, SavingManifest
        <3>4. QED
            BY <3>2, <3>3
    <2>5. QED
        BY <2>1, <2>2, <2>3, <2>4 DEF After
<1>8. CASE Connect(p) \/ Ingest(p) \/ Kill(p)
    <2>1. pc'[p] \in {"raised", "killed", "ingest", "current"}
        BY <1>3, <1>8 DEF Connect, Ingest, Kill, Active, Ended, SavingState
    <2>2. QED
        BY <1>6, <2>1
<1>9. CASE ReadCurrent(p)
    <2>1. CASE Readable(stateFile)
        <3>1. /\ mem' = [mem EXCEPT ![p] = [@ EXCEPT !.current = MergedRuntime(p, stateFile[j])]]
              /\ pc'[p] = "map" /\ cmd' = cmd
            BY <1>3, <1>9, <2>1 DEF ReadCurrent, Active, SavingState
        <3>2. mem'[p].current = MergedRuntime(p, stateFile[j])
            BY <1>1, <3>1 DEF TypeOK, Memory
        <3>3. RuntimeSaved(p, mem[p].current)'
            BY <3>1, <3>2 DEF RuntimeSaved, MergedRuntime
        <3>4. QED
            BY <1>2, <3>1, <3>3 DEF QuietInv, SavingManifest
    <2>2. CASE ~Readable(stateFile)
        BY <1>3, <1>6, <1>9, <2>2 DEF ReadCurrent, Ended
    <2>3. QED
        BY <2>1, <2>2
<1>10. CASE ReadMap(p)
    <2>1. CASE Readable(stateFile)
        <3>1. /\ mem' = [mem EXCEPT ![p] = [@ EXCEPT !.map = [stateFile EXCEPT ![j] = mem[p].current]]]
              /\ pc[p] = "map" /\ pc'[p] = "truncate_state" /\ cmd' = cmd
            BY <1>3, <1>10, <2>1 DEF ReadMap, Active, SavingState
        <3>2. stateFile \in StateMaps
            BY <2>1 DEF Readable, TypeOK
        <3>3. mem'[p].map[j] = mem[p].current
            BY <1>1, <3>1, <3>2 DEF TypeOK, Memory, StateMaps
        <3>4. RuntimeSaved(p, mem[p].map[j])'
            BY <1>5, <3>1, <3>3 DEF QuietInv, RuntimeSaved
        <3>5. QED
            BY <1>2, <3>1, <3>4 DEF QuietInv, SavingManifest
    <2>2. CASE ~Readable(stateFile)
        BY <1>3, <1>6, <1>10, <2>2 DEF ReadMap, Ended
    <2>3. QED
        BY <2>1, <2>2
<1>11. CASE TruncateState(p)
    <2>1. pc[p] = "truncate_state" /\ pc'[p] = "write_state" /\ stateFile' = Empty /\ UNCHANGED <<cmd, mem>>
        BY <1>3, <1>11 DEF TruncateState, Active, SavingState
    <2>2. RuntimeSaved(p, mem[p].map[j])'
        BY <1>5, <2>1 DEF QuietInv, RuntimeSaved
    <2>3. QED
        BY <1>2, <2>1, <2>2 DEF QuietInv, SavingManifest
<1>12. CASE WriteState(p)
    <2>1. pc[p] = "write_state" /\ pc'[p] = "reload_state" /\ cmd' = cmd
        BY <1>3, <1>12 DEF WriteState, Active, SavingState
    <2>2. stateFile' = mem[p].map
        BY <1>12, <2>1 DEF WriteState, Overwritten, QuietInv
    <2>3. RuntimeSaved(p, stateFile[j])'
        BY <1>5, <2>1, <2>2 DEF QuietInv, RuntimeSaved
    <2>4. QED
        BY <1>2, <2>1, <2>3 DEF QuietInv, SavingManifest
<1>13. CASE ReadManifest(p)
    <2> DEFINE old == IF manifests[j] = Absent THEN NoManifest ELSE manifests[j]
    <2>1. CASE Readable(manifests[j])
        <3>1. /\ mem' = [mem EXCEPT ![p] = [@ EXCEPT !.manifest = MergedManifest(p, old)]]
              /\ pc[p] = "existing" /\ pc'[p] = "truncate_manifest" /\ UNCHANGED <<cmd, stateFile>>
            BY <1>3, <1>13, <2>1 DEF ReadManifest, Active, SavingManifest
        <3>2. old \in Manifest \cup {NoManifest}
            BY <1>1, <2>1 DEF Readable, TypeOK
        <3>3. mem'[p].manifest = MergedManifest(p, old)
            BY <1>1, <3>1 DEF TypeOK, Memory
        <3>4. MergedManifest(p, old) \in Manifest /\ MergedManifest(p, old).status = cmd[p].saves
            BY <3>2, MergedTypes
        <3> HIDE DEF old
        <3>5. cmd[p].saves = "success" =>
                MergedManifest(p, old).completed = cmd[p].number /\ ~MergedManifest(p, old).error
            BY DEF MergedManifest
        <3>6. ManifestSaved(p, mem[p].manifest)'
            BY <3>1, <3>3, <3>4, <3>5 DEF ManifestSaved
        <3>7. RuntimeSaved(p, stateFile[j])'
            BY <1>5, <3>1 DEF QuietInv, RuntimeSaved, SavingManifest
        <3>8. QED
            BY <1>2, <3>1, <3>6, <3>7 DEF QuietInv, SavingManifest
    <2>2. CASE ~Readable(manifests[j])
        BY <1>3, <1>6, <1>13, <2>2 DEF ReadManifest, Ended
    <2>3. QED
        BY <2>1, <2>2
<1>14. CASE TruncateManifest(p)
    <2>1. /\ pc[p] = "truncate_manifest" /\ pc'[p] = "write_manifest"
          /\ manifests' = [manifests EXCEPT ![j] = Empty] /\ UNCHANGED <<cmd, mem, stateFile>>
        BY <1>3, <1>14 DEF TruncateManifest, Active, SavingManifest
    <2>2. /\ (manifests[j])' = Empty
          /\ RuntimeSaved(p, stateFile[j])' /\ ManifestSaved(p, mem[p].manifest)'
        BY <1>1, <1>5, <2>1 DEF TypeOK, QuietInv, RuntimeSaved, ManifestSaved, SavingManifest
    <2>3. QED
        BY <1>2, <2>1, <2>2 DEF QuietInv, SavingManifest
<1>15. CASE WriteManifest(p)
    <2>1. pc[p] = "write_manifest" /\ pc'[p] = "reload_manifest" /\ UNCHANGED <<cmd, stateFile>>
        BY <1>3, <1>15 DEF WriteManifest, Active, SavingManifest
    <2>2. manifests' = [manifests EXCEPT ![j] = mem[p].manifest]
        BY <1>15, <2>1 DEF WriteManifest, Overwritten, QuietInv
    <2>3. (manifests[j])' = mem[p].manifest
        BY <1>1, <1>5, <2>1, <2>2 DEF TypeOK
    <2>4. RuntimeSaved(p, stateFile[j])' /\ ManifestSaved(p, manifests[j])'
        BY <1>5, <2>1, <2>3 DEF QuietInv, RuntimeSaved, ManifestSaved, SavingManifest
    <2>5. QED
        BY <1>2, <2>1, <2>4 DEF QuietInv, SavingManifest
<1>16. QED
    BY <1>7, <1>8, <1>9, <1>10, <1>11, <1>12, <1>13, <1>14, <1>15
       DEF CommandStep, SaveState, SaveManifest

LEMMA NextQuiet == TypeOK /\ SavesInv /\ AllQuietInv /\ [Next]_vars => AllQuietInv'
<1> SUFFICES ASSUME TypeOK, SavesInv, AllQuietInv, [Next]_vars, NEW p \in Procs, quiet'[p]
             PROVE  QuietInv(p)'
    BY DEF AllQuietInv
<1>1. ASSUME NEW q \in Procs, NEW j \in Projects, Start(q, j) PROVE QuietInv(p)'
    <2>1. q = p /\ \A r \in Procs : pc[r] \notin Active
        BY <1>1 DEF Start
    <2>2. pc'[p] = "load" /\ \A r \in Procs : r # p => pc'[r] \notin Active
        BY <1>1, <2>1 DEF Start, Goto, TypeOK
    <2>3. QED
        BY <2>2 DEF QuietInv, SavingManifest
<1>2. ASSUME NEW q \in Procs, CommandStep(q), ~\E j \in Projects : Start(q, j) PROVE QuietInv(p)'
    <2>1. pc[q] \in Active
        BY <1>2, Acting
    <2>2. quiet' = quiet
        BY <1>2 DEF CommandStep, Load, SaveState, SaveManifest, Connect, Ingest, Kill, ReadCurrent,
           ReadMap, TruncateState, WriteState, ReadManifest, TruncateManifest, WriteManifest
    <2>3. QuietInv(p) /\ q = p
        BY <2>1, <2>2 DEF AllQuietInv, QuietInv
    <2>4. QED
        BY <1>2, <2>3, QuietStep
<1>3. ASSUME UNCHANGED <<files, commands>> PROVE QuietInv(p)'
    <2>1. quiet[p] /\ QuietInv(p)
        BY <1>3 DEF commands, AllQuietInv
    <2>2. Job(p)' = Job(p) /\ cmd' = cmd
        BY <1>3 DEF commands, Job
    <2>3. QED
        BY <1>3, <2>1, <2>2 DEF files, commands, QuietInv, RuntimeSaved, ManifestSaved
<1>4. Server \/ UNCHANGED vars => UNCHANGED <<files, commands>>
    BY DEF vars, Server, Launch, LoadState, LoadManifests, Sign, Refresh, Assign
<1>5. QED
    BY <1>1, <1>2, <1>3, <1>4 DEF Next, CommandStep

\* A command that runs from start to end with no other has its outcome shown,
\* whatever half-written or outdated files earlier commands left.
THEOREM QuietShown == Spec => []QuietOutcomeShown
<1>1. Init => AllQuietInv
    BY DEF Init, AllQuietInv
<1>2. IInv /\ AllQuietInv /\ [Next]_vars => AllQuietInv'
    BY NextQuiet DEF IInv
<1>3. IInv /\ AllQuietInv => QuietOutcomeShown
    <2> SUFFICES ASSUME IInv, NEW p \in Procs, QuietInv(p), pc[p] \in {"done", "failed"}
                 PROVE  /\ pc[p] = "done" => Shown(Job(p)) = "ok"
                        /\ pc[p] = "failed" => Shown(Job(p)) \in {"unreliable", "stale"}
        BY DEF AllQuietInv, QuietOutcomeShown
    <2> DEFINE r == stateFile[Job(p)]
               m == manifests[Job(p)]
    <2>1. RuntimeSaved(p, r) /\ ManifestSaved(p, m) /\ m # Absent
        BY AbsentAssumption DEF QuietInv, ManifestSaved
    <2>2. cmd[p].number # Never
        BY StatusAssumption DEF IInv, TypeOK, Command, Times
    <2>3. CASE pc[p] = "done"
        BY <2>1, <2>2, <2>3 DEF QuietInv, RuntimeSaved, ManifestSaved, Shown, Integrity, Mismatch
    <2>4. CASE pc[p] = "failed"
        BY <2>1, <2>4 DEF QuietInv, RuntimeSaved, ManifestSaved, Shown, Integrity
    <2>5. QED
        BY <2>3, <2>4
<1>4. QED
    BY <1>1, <1>2, <1>3, Inductive, PTL DEF Spec
=============================================================================
