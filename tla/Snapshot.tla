------------------------------ MODULE Snapshot ------------------------------
(***************************************************************************)
(* export-snapshot: what one export gathers from the index, statement by   *)
(* statement in a transaction that it never rolls back, and the five files *)
(* that it then writes in place; and get_project_snapshot of the server,   *)
(* which reads them one by one.  Ingest runs go on meanwhile, exports may  *)
(* overlap, and one may die at any moment.                                 *)
(*                                                                         *)
(* What is gathered is kept as the version of the index that it shows. One *)
(* retrieval is one step here: module Retrieval looks into it.             *)
(*                                                                         *)
(* Operators named SymbolsKept, OpenMissing and ReadUnparsed are           *)
(* deliberate defects that nothing uses; PROJECT.json names the property   *)
(* that each breaks.                                                       *)
(***************************************************************************)
EXTENDS Naturals, Sequences

CONSTANTS
    Exports,        \* runs of export-snapshot for one project
    Readers,        \* calls of get_project_snapshot
    Asked,          \* values of "part" that calls use
    ScopeMap,       \* areas of scope_map with query terms, in order
    NoExport,       \* no run: the author of a file that does not exist
    Nothing,        \* not gathered, or nothing found
    Failed,         \* an area whose retrieval raised
    Refused,        \* one whose statement the aborted transaction refused
    LastVersion     \* bound: versions of the index

ASSUME SnapshotAssumption ==
    /\ NoExport \notin Exports /\ LastVersion \in Nat
    /\ Asked \subseteq {"all", "symbols", "areas", "top_files", "context_md"}
    /\ \A e \in Exports : e \notin {"unanswered", "none", "error", "cut"}

\* Files in the order in which they are written, and the part of each.
Files == <<"index", "symbols", "areas", "top_files", "context_md">>
\* The order in which they are read.
ReadOrder == <<"index", "context_md", "symbols", "areas", "top_files">>
Parts == {Files[i] : i \in DOMAIN Files}

\* Without a scope_map, one general area is searched.
Areas == IF ScopeMap = <<>> THEN <<"general">> ELSE ScopeMap

Version == 0..LastVersion

VARIABLES
    version,    \* version of the index: ingest commits one document at a time
    step,       \* export -> where it is
    aborted,    \* export -> a statement of its transaction has failed
    gathered,   \* export -> what it has read: stats, symbols, areas
    file,       \* export -> position in Files of the file that it writes
    disk,       \* part -> [by: export, whole: BOOLEAN, shared: two had it open]
    asked,      \* reader -> its argument "part"
    reading,    \* reader -> position in ReadOrder; 0 before it starts
    answer,     \* reader -> what it has of each part
    mixed,      \* history: exports that did not write alone
    latest,     \* history: the last export that began to write
    quiet       \* history: readers during whose call nobody wrote

snapshotVars == <<version, step, aborted, gathered, file, disk, asked, reading,
                  answer, mixed, latest, quiet>>
exporting == <<step, aborted, gathered, file>>
readers == <<asked, reading, answer>>
history == <<mixed, latest, quiet>>

\* A part of an export; no such file, or not asked for; unreadable; a text
\* that ends early.
Answers == Exports \cup {"unanswered", "none", "error", "cut"}

SnapshotTypeOK ==
    /\ version \in Version
    /\ step \in [Exports -> {"new", "stats", "symbols", "areas", "callers", "open", "write",
                             "done", "dead"}]
    /\ aborted \in [Exports -> BOOLEAN]
    /\ gathered \in [Exports -> [stats : Version \cup {Nothing}, symbols : Version \cup {Nothing},
                                 areas : Seq(Version \cup {Nothing, Failed, Refused})]]
    /\ file \in [Exports -> 1..(Len(Files) + 1)]
    /\ disk \in [Parts -> [by : Exports \cup {NoExport}, whole : BOOLEAN, shared : BOOLEAN]]
    /\ asked \in [Readers -> Asked] /\ reading \in [Readers -> 0..(Len(Files) + 1)]
    /\ answer \in [Readers -> [Parts -> Answers]]
    /\ mixed \subseteq Exports
    /\ latest \in Exports \cup {NoExport} /\ quiet \subseteq Readers

Fresh == [stats |-> Nothing, symbols |-> Nothing, areas |-> <<>>]

SnapshotInit ==
    /\ version = 0
    /\ step = [e \in Exports |-> "new"] /\ file = [e \in Exports |-> 1]
    /\ aborted = [e \in Exports |-> FALSE]
    /\ gathered = [e \in Exports |-> Fresh]
    /\ disk = [p \in Parts |-> [by |-> NoExport, whole |-> FALSE, shared |-> FALSE]]
    /\ asked \in [Readers -> Asked] /\ reading = [r \in Readers |-> 0]
    /\ answer = [r \in Readers |-> [p \in Parts |-> "unanswered"]]
    /\ mixed = {} /\ latest = NoExport /\ quiet = {}

Ingest ==
    /\ version < LastVersion
    /\ version' = version + 1
    /\ UNCHANGED <<exporting, disk, readers, history>>

-----------------------------------------------------------------------------
(* Gathering: nothing is caught but what an area of scope_map raises *)

Go(e, there) == step' = [step EXCEPT ![e] = there]

\* The connection is closed; only the text of the files is left of what was
\* gathered, or nothing.
Closed(e, there) ==
    /\ Go(e, there)
    /\ gathered' = [gathered EXCEPT ![e] = Fresh] /\ aborted' = [aborted EXCEPT ![e] = FALSE]

\* get_connection, and has_symbol_refs_table.
Begin(e) ==
    /\ step[e] = "new"
    /\ Go(e, "stats")
    /\ UNCHANGED <<version, aborted, gathered, file, disk, readers, history>>

Stats(e) ==
    /\ step[e] = "stats"
    /\ gathered' = [gathered EXCEPT ![e].stats = version]
    /\ Go(e, "symbols")
    /\ UNCHANGED <<version, aborted, file, disk, readers, history>>

\* The catalog is kept from the beginning.
SymbolsKept(e) ==
    /\ step[e] = "symbols"
    /\ gathered' = [gathered EXCEPT ![e].symbols = 0]
    /\ Go(e, "areas")
    /\ UNCHANGED <<version, aborted, file, disk, readers, history>>

Symbols(e) ==
    /\ step[e] = "symbols"
    /\ gathered' = [gathered EXCEPT ![e].symbols = version]
    /\ Go(e, "areas")
    /\ UNCHANGED <<version, aborted, file, disk, readers, history>>

\* One area: it has files, or none match, or the embedder or a statement
\* raises.  After a failed statement the transaction refuses every other.
\* Without a scope_map nothing is caught.
Area(e) ==
    /\ step[e] = "areas" /\ Len(gathered[e].areas) < Len(Areas)
    /\ \E found \in IF aborted[e] THEN {Failed, Refused} ELSE {version, Nothing, Failed} :
          IF found = Failed /\ ScopeMap = <<>>
          THEN Closed(e, "dead")
          ELSE /\ gathered' = [gathered EXCEPT ![e].areas = Append(@, found)]
               /\ \E sql \in IF found = Failed THEN BOOLEAN ELSE {FALSE} :
                     aborted' = [aborted EXCEPT ![e] = @ \/ sql]
               /\ Go(e, IF Len(gathered[e].areas) + 1 = Len(Areas) THEN "callers" ELSE "areas")
    /\ UNCHANGED <<version, file, disk, readers, history>>

\* top_files have key symbols only if an area has files.
SomethingFound(e) == \E i \in DOMAIN gathered[e].areas : gathered[e].areas[i] \in Version

\* Caller sites of the key symbols of the top files, if there are any and there
\* is a table of references; then the connection is closed.
Callers(e) ==
    /\ step[e] = "callers"
    /\ \E named \in BOOLEAN :
          /\ named => SomethingFound(e)
          /\ Closed(e, IF named /\ aborted[e] THEN "dead" ELSE "open")
    /\ UNCHANGED <<version, file, disk, readers, mixed, latest, quiet>>

-----------------------------------------------------------------------------
(* Writing, in place *)

Writing(e) == step[e] \in {"open", "write"} /\ (step[e] = "write" \/ file[e] > 1)

\* A file that is there is kept.
OpenMissing(e) ==
    /\ step[e] = "open" /\ file[e] <= Len(Files)
    /\ LET p == Files[file[e]] IN
       disk' = [disk EXCEPT ![p] =
          IF @.by # NoExport /\ @.whole THEN @
          ELSE [by |-> e, whole |-> FALSE,
                shared |-> \E o \in Exports \ {e} : step[o] = "write" /\ Files[file[o]] = p]]
    /\ Go(e, "write")
    /\ mixed' = mixed \cup
          (IF \E o \in Exports \ {e} : Writing(o) THEN {e} \cup {o \in Exports : Writing(o)} ELSE {})
    /\ latest' = e /\ quiet' = {}
    /\ UNCHANGED <<version, aborted, gathered, file, readers>>

\* open(path, "w"): the file is empty, whatever was in it.
OpenFile(e) ==
    /\ step[e] = "open" /\ file[e] <= Len(Files)
    /\ LET p == Files[file[e]] IN
       disk' = [disk EXCEPT ![p] =
          [by |-> e, whole |-> FALSE,
           shared |-> \E o \in Exports \ {e} : step[o] = "write" /\ Files[file[o]] = p]]
    /\ Go(e, "write")
    /\ mixed' = mixed \cup
          (IF \E o \in Exports \ {e} : Writing(o) THEN {e} \cup {o \in Exports : Writing(o)} ELSE {})
    /\ latest' = e /\ quiet' = {}
    /\ UNCHANGED <<version, aborted, gathered, file, readers>>

\* The file is written and closed; two that had it open leave the text of one,
\* or neither.
Write(e) ==
    /\ step[e] = "write"
    /\ LET p == Files[file[e]]
           alone == disk[p].by = e /\ ~disk[p].shared
       IN  \E whole \in IF alone THEN {TRUE} ELSE BOOLEAN :
              disk' = [disk EXCEPT ![p] = [by |-> e, whole |-> whole, shared |-> ~alone]]
    /\ file' = [file EXCEPT ![e] = @ + 1]
    /\ Go(e, IF file[e] = Len(Files) THEN "done" ELSE "open")
    /\ quiet' = {}
    /\ UNCHANGED <<version, aborted, gathered, readers, mixed, latest>>

\* The process dies, or a statement outside an area or a write raises.
ExportDies(e) ==
    /\ step[e] \notin {"new", "done", "dead"}
    /\ Closed(e, "dead")
    /\ UNCHANGED <<version, file, disk, readers, history>>
-----------------------------------------------------------------------------
(* _run_get_project_snapshot *)

\* Without an index file there is no snapshot.
StartReading(r) ==
    /\ reading[r] = 0
    /\ IF disk["index"].by = NoExport
       THEN /\ answer' = [answer EXCEPT ![r] = [p \in Parts |-> "none"]]
            /\ reading' = [reading EXCEPT ![r] = Len(ReadOrder) + 1]
       ELSE UNCHANGED answer /\ reading' = [reading EXCEPT ![r] = 1]
    /\ quiet' = IF \E e \in Exports : Writing(e) THEN quiet ELSE quiet \cup {r}
    /\ UNCHANGED <<version, exporting, disk, asked, mixed, latest>>

\* Any text will do.
ReadUnparsed(p) == {IF disk[p].by = NoExport THEN "none" ELSE disk[p].by}

\* JSON that ends early does not parse: the index says so, another part is
\* left out.  CONTEXT.md is taken as it is, unless it ends inside a character.
Read(p) ==
    IF disk[p].by = NoExport THEN {"none"}
    ELSE IF disk[p].whole THEN {disk[p].by}
    ELSE CASE p = "index" -> {"error"} [] p = "context_md" -> {"cut", "error"} [] OTHER -> {"none"}

ReadPart(r) ==
    /\ reading[r] \in DOMAIN ReadOrder
    /\ LET p == ReadOrder[reading[r]] IN
       \E a \in IF p = "index" \/ asked[r] \in {p, "all"} THEN Read(p) ELSE {"none"} :
          /\ answer' = [answer EXCEPT ![r][p] = a]
          \* The error of CONTEXT.md is that of the call.
          /\ reading' = [reading EXCEPT ![r] = IF p = "context_md" /\ a = "error"
                                              THEN Len(ReadOrder) + 1 ELSE @ + 1]
    /\ UNCHANGED <<version, exporting, disk, asked, history>>

-----------------------------------------------------------------------------
Gather(e) == Begin(e) \/ Stats(e) \/ Symbols(e) \/ Area(e) \/ Callers(e)

SnapshotNext ==
    \/ Ingest
    \/ \E e \in Exports : Gather(e) \/ OpenFile(e) \/ Write(e) \/ ExportDies(e)
    \/ \E r \in Readers : StartReading(r) \/ ReadPart(r)

SnapshotSpec == SnapshotInit /\ [][SnapshotNext]_snapshotVars

-----------------------------------------------------------------------------
(* Properties *)

\* What a call returns is of one export, whole and of the last one, if that
\* one wrote alone and to its end and nobody wrote during the call: what
\* earlier exports left, whole or cut short, no longer shows.
ReadIsOneExport ==
    \A r \in quiet :
        reading[r] > Len(ReadOrder) /\ latest # NoExport /\ step[latest] = "done" /\ latest \notin mixed
        => \A p \in Parts : answer[r][p] = IF p = "index" \/ asked[r] \in {p, "all"} THEN latest ELSE "none"

\* Whoever writes meanwhile, a part that a call returns as one of an export
\* was finished by that export.
NoTornPart ==
    \A r \in Readers, i \in DOMAIN Files :
        answer[r][Files[i]] \in Exports => file[answer[r][Files[i]]] > i

\* An export during which the index did not change shows one version of it,
\* although it reads it with a statement for each part; and an area that it
\* could not search comes after one whose search failed, never by itself.
ShowsOneIndex ==
    \A e \in Exports : step[e] = "callers" /\ gathered[e].stats = version =>
        /\ gathered[e].symbols = version
        /\ \A i \in DOMAIN gathered[e].areas :
              \/ gathered[e].areas[i] \in {version, Nothing}
              \/ \E j \in 1..i : gathered[e].areas[j] = Failed
=============================================================================
