------------------------------- MODULE Ingest -------------------------------
(***************************************************************************)
(* One or more concurrent runs of ingest_project_v2 (rag_indexer/ingest.py) *)
(* against the source tree of one project and the PostgreSQL index behind  *)
(* RagStore (rag_indexer/store.py).  The tree may be edited while a run is *)
(* walking it; a run may raise, or its process may die, at any point.      *)
(*                                                                         *)
(* A definition that stands just before another of almost the same name    *)
(* (EnterAtomicOmitted, EnterAtomic) is a deliberate defect: nothing uses  *)
(* it, and PROJECT.json names the property that tells the two apart.       *)
(*                                                                         *)
(* A text is abstracted to a member of Contents.  HashOf[c] is the         *)
(* content_hash of c: _normalize_text strips outer white space and folds   *)
(* line ends before hashing, so two texts may share a hash.                *)
(***************************************************************************)
EXTENDS Naturals, FiniteSets

CONSTANTS
    Procs,             \* processes that may execute an ingest command
    Files,             \* file names the scanner's filters let through
    Dirs, DirOf,       \* directories, and the directory of each file
    Paths, Norm,       \* path_norm values, and the path_norm of each file
    Contents,          \* texts a readable file may hold
    Hashes, HashOf,    \* content hashes, and the hash of each text
    Blank,             \* texts that are only white space
    Code,              \* paths whose source type is "code"
    InitialTrees,      \* what the files may hold before the first run
    Edited,            \* what an edit may make of a file
    Models,            \* embedding model ids
    SymbolModes,       \* values symbol_search_enabled takes, subset of BOOLEAN
    ExtractionMayRaise,\* whether the symbol extraction may raise
    ConfigIncremental, \* config.incremental_ingest
    Missing,           \* a file that does not exist
    Unreadable,        \* a file read_text returns no text for
    NoRow,             \* no row in table documents
    None,              \* no process, no file, no text
    MaxEdits, MaxRuns  \* bounds on edits of the tree and on runs

ASSUME PathsAssumption ==
    /\ DirOf \in [Files -> Dirs]
    /\ Norm \in [Files -> Paths]
    /\ Code \subseteq Paths
    /\ Edited \subseteq Contents \cup {Missing, Unreadable}
    /\ InitialTrees \subseteq [Files -> Contents \cup {Missing, Unreadable}]

ASSUME TextAssumption ==
    /\ HashOf \in [Contents -> Hashes]
    /\ Blank \subseteq Contents
    /\ \A c, d \in Contents : HashOf[c] = HashOf[d] => (c \in Blank <=> d \in Blank)

ASSUME ValueAssumption ==
    /\ {Missing, Unreadable, None} \cap Contents = {}
    /\ Missing # Unreadable
    /\ None \notin Procs \cup Files
    /\ Models # {}
    /\ SymbolModes \subseteq BOOLEAN
    /\ ConfigIncremental \in BOOLEAN
    /\ ExtractionMayRaise \in BOOLEAN
    /\ MaxEdits \in Nat /\ MaxRuns \in Nat

Chunk == [text : Contents, model : Models]

\* A row of documents with the rows that reference it: its chunks (each with
\* its embedding) and its symbols (with their symbol_refs), each known by the
\* text it was made from.
Row == [hash : Hashes, chunks : SUBSET Chunk, symbols : SUBSET Contents, deleted : BOOLEAN]

ASSUME NoRowAssumption == NoRow \notin Row

VARIABLES
    fs,       \* what each file holds: a text, Unreadable or Missing
    offered,  \* history: the texts that files of each path have ever held
    db,       \* the committed index: path_norm -> Row, or NoRow
    lock,     \* path_norm -> the process whose open transaction wrote its row
    pc,       \* where each process is
    opts,     \* the arguments of its run
    scan,     \* dirs and files still to visit, seen_paths and indexed_paths
    cur,      \* the file being processed, its text, and what symbols came out
    tx,       \* RagStore._in_atomic and the row as the open transaction sees it
    doomed,   \* paths the final delete has still to lock, and has locked
    quiet,    \* history: nothing but this run touched tree or index since Start
    edits, runs

vars == <<fs, offered, db, lock, pc, opts, scan, cur, tx, doomed, quiet, edits, runs>>

Writing == {"upsert", "delete_chunks", "symbols", "insert_chunks", "commit"}
Active == {"walk", "check", "prepare", "remove"} \cup Writing
Ended == {"done", "failed"}

Options == [asked : BOOLEAN, incremental : BOOLEAN, model : Models, symbol_search : BOOLEAN]
Scan == [dirs : SUBSET Dirs, files : SUBSET Files, seen : SUBSET Paths, indexed : SUBSET Paths]
Current == [file : Files \cup {None},
            text : Contents \cup {None}, symbol_infos : Contents \cup {None}]
Transaction == [atomic : BOOLEAN, row : Row \cup {NoRow}]
Doomed == [todo : SUBSET Paths, held : SUBSET Paths]

NoScan == [dirs |-> {}, files |-> {}, seen |-> {}, indexed |-> {}]
NoCur == [file |-> None, text |-> None, symbol_infos |-> None]
NoTx == [atomic |-> FALSE, row |-> NoRow]
NoDoomed == [todo |-> {}, held |-> {}]

TypeOK ==
    /\ fs \in [Files -> Contents \cup {Missing, Unreadable}]
    /\ offered \in [Paths -> SUBSET Contents]
    /\ db \in [Paths -> Row \cup {NoRow}]
    /\ lock \in [Paths -> Procs \cup {None}]
    /\ pc \in [Procs -> {"idle"} \cup Active \cup Ended]
    /\ opts \in [Procs -> Options]
    /\ scan \in [Procs -> Scan]
    /\ cur \in [Procs -> Current]
    /\ tx \in [Procs -> Transaction]
    /\ doomed \in [Procs -> Doomed]
    /\ quiet \in [Procs -> BOOLEAN]
    /\ edits \in 0 .. MaxEdits
    /\ runs \in 0 .. MaxRuns

Init ==
    /\ fs \in InitialTrees
    /\ offered = [n \in Paths |-> {fs[f] : f \in {g \in Files : Norm[g] = n}} \cap Contents]
    /\ db = [n \in Paths |-> NoRow]
    /\ lock = [n \in Paths |-> None]
    /\ pc = [p \in Procs |-> "idle"]
    /\ opts = [p \in Procs |-> [asked |-> TRUE, incremental |-> TRUE,
                               model |-> CHOOSE m \in Models : TRUE, symbol_search |-> TRUE]]
    /\ scan = [p \in Procs |-> NoScan]
    /\ cur = [p \in Procs |-> NoCur]
    /\ tx = [p \in Procs |-> NoTx]
    /\ doomed = [p \in Procs |-> NoDoomed]
    /\ quiet = [p \in Procs |-> FALSE]
    /\ edits = 0
    /\ runs = 0

-----------------------------------------------------------------------------
(* The source tree *)

\* Somebody creates, changes, removes or makes unreadable one file.
Edit(f, c) ==
    /\ edits < MaxEdits
    /\ fs[f] # c
    /\ fs' = [fs EXCEPT ![f] = c]
    /\ offered' = [offered EXCEPT ![Norm[f]] = @ \cup ({c} \cap Contents)]
    /\ edits' = edits + 1
    /\ quiet' = [p \in Procs |-> FALSE]
    /\ UNCHANGED <<db, lock, pc, opts, scan, cur, tx, doomed, runs>>

-----------------------------------------------------------------------------
(* The walk *)

\* _run_ingest_command: the mode is args.incremental or config.incremental_ingest.
IncrementalModeAlways(asked) == TRUE
IncrementalMode(asked) == asked \/ ConfigIncremental

Start(p, asked, m, s) ==
    /\ pc[p] \in {"idle"} \cup Ended
    /\ runs < MaxRuns
    /\ runs' = runs + 1
    /\ pc' = [pc EXCEPT ![p] = "walk"]
    /\ opts' = [opts EXCEPT ![p] = [asked |-> asked, incremental |-> IncrementalMode(asked),
                                    model |-> m, symbol_search |-> s]]
    /\ scan' = [scan EXCEPT ![p] = [NoScan EXCEPT !.dirs = Dirs]]
    /\ quiet' = [q \in Procs |-> q = p /\ \A r \in Procs : pc[r] \notin Active]
    /\ UNCHANGED <<fs, offered, db, lock, cur, tx, doomed, edits>>

ListOneDirectory(p, d) ==
    /\ pc[p] = "walk"
    /\ scan[p].files = {}
    /\ d \in scan[p].dirs
    /\ scan' = [scan EXCEPT ![p] =
                  [@ EXCEPT !.dirs = {}, !.files = {f \in Files : DirOf[f] = d /\ fs[f] # Missing}]]
    /\ UNCHANGED <<fs, offered, db, lock, pc, opts, cur, tx, doomed, quiet, edits, runs>>

\* os.walk lists a directory only when the walk reaches it, and scan_files
\* yields the files of one listing before the next directory is listed.
ListDirectory(p, d) ==
    /\ pc[p] = "walk"
    /\ scan[p].files = {}
    /\ d \in scan[p].dirs
    /\ scan' = [scan EXCEPT ![p] =
                  [@ EXCEPT !.dirs = scan[p].dirs \ {d},
                            !.files = {f \in Files : DirOf[f] = d /\ fs[f] # Missing}]]
    /\ UNCHANGED <<fs, offered, db, lock, pc, opts, cur, tx, doomed, quiet, edits, runs>>

\* seen_paths.add, then read_text: a file that is gone by now, too large,
\* binary or unreadable has been seen and is skipped.
ReadFile(p, f) ==
    /\ pc[p] = "walk"
    /\ f \in scan[p].files
    /\ scan' = [scan EXCEPT ![p] = [@ EXCEPT !.files = scan[p].files \ {f},
                                            !.seen = scan[p].seen \cup {Norm[f]}]]
    /\ IF fs[f] \in Contents
       THEN /\ cur' = [cur EXCEPT ![p] = [NoCur EXCEPT !.file = f, !.text = fs[f]]]
            /\ pc' = [pc EXCEPT ![p] = "check"]
       ELSE UNCHANGED <<cur, pc>>
    /\ UNCHANGED <<fs, offered, db, lock, opts, tx, doomed, quiet, edits, runs>>

PathOf(p) == Norm[cur[p].file]

UnchangedThoughDeleted(p) ==
    /\ opts[p].incremental
    /\ db[PathOf(p)] # NoRow
    /\ db[PathOf(p)].hash = HashOf[cur[p].text]

\* The condition under which an incremental run leaves a document alone.
Unchanged(p) ==
    /\ opts[p].incremental
    /\ db[PathOf(p)] # NoRow
    /\ db[PathOf(p)].hash = HashOf[cur[p].text]
    /\ ~db[PathOf(p)].deleted

\* get_document reads the committed row, outside any transaction that writes.
CheckDocument(p) ==
    /\ pc[p] = "check"
    /\ IF Unchanged(p)
       THEN /\ scan' = [scan EXCEPT ![p] = [@ EXCEPT !.indexed = scan[p].indexed \cup {PathOf(p)}]]
            /\ cur' = [cur EXCEPT ![p] = NoCur]
            /\ pc' = [pc EXCEPT ![p] = "walk"]
       ELSE /\ pc' = [pc EXCEPT ![p] = "prepare"]
            /\ UNCHANGED <<scan, cur>>
    /\ UNCHANGED <<fs, offered, db, lock, opts, tx, doomed, quiet, edits, runs>>

-----------------------------------------------------------------------------
(* One document *)

\* _chunk_document and _build_chunk_records: a code file has at least its
\* header chunk, any other text that is only white space has no chunk.
ChunksOf(n, c, m) ==
    IF c \in Blank /\ n \notin Code THEN {} ELSE {[text |-> c, model |-> m]}

\* Symbols are taken from a code file while symbol search is on; when the
\* extraction raises, symbol_infos stays None and the stored ones are kept.
Extraction(p) ==
    IF opts[p].symbol_search /\ PathOf(p) \in Code
    THEN {cur[p].text} \cup (IF ExtractionMayRaise THEN {None} ELSE {})
    ELSE {None}

\* with store.atomic()
EnterAtomicOmitted(p) == UNCHANGED tx
EnterAtomic(p) == tx' = [tx EXCEPT ![p] = [@ EXCEPT !.atomic = TRUE]]

Prepare(p) ==
    /\ pc[p] = "prepare"
    /\ \E infos \in Extraction(p) : cur' = [cur EXCEPT ![p] = [@ EXCEPT !.symbol_infos = infos]]
    /\ EnterAtomic(p)
    /\ pc' = [pc EXCEPT ![p] = "upsert"]
    /\ UNCHANGED <<fs, offered, db, lock, opts, scan, doomed, quiet, edits, runs>>

\* The row as p's statements see it: p's own uncommitted writes, else the
\* committed row.
RowSeen(p) ==
    IF tx[p].atomic /\ lock[PathOf(p)] = p THEN tx[p].row ELSE db[PathOf(p)]

\* The end of p's transaction, by commit or rollback, frees its rows.
ReleasedNever(p) == lock
Released(p) == [n \in Paths |-> IF lock[n] = p THEN None ELSE lock[n]]

\* One store method that writes the current document: RagStore._commit ends
\* the transaction unless the method runs inside atomic().  Until it ends, the
\* row stays locked.
StoreWrite(p, row) ==
    IF tx[p].atomic
    THEN /\ tx' = [tx EXCEPT ![p] = [@ EXCEPT !.row = row]]
         /\ lock' = [lock EXCEPT ![PathOf(p)] = p]
         /\ UNCHANGED db
    ELSE /\ db' = [db EXCEPT ![PathOf(p)] = row]
         /\ UNCHANGED <<tx, lock>>

UpsertedRowOldHash(p) ==
    LET old == db[PathOf(p)]
    IN  [hash |-> IF old = NoRow THEN HashOf[cur[p].text] ELSE old.hash,
         chunks |-> IF old = NoRow THEN {} ELSE old.chunks,
         symbols |-> IF old = NoRow THEN {} ELSE old.symbols,
         deleted |-> FALSE]

UpsertedRow(p) ==
    LET old == db[PathOf(p)]
    IN  [hash |-> HashOf[cur[p].text],
         chunks |-> IF old = NoRow THEN {} ELSE old.chunks,
         symbols |-> IF old = NoRow THEN {} ELSE old.symbols,
         deleted |-> FALSE]

\* INSERT ... ON CONFLICT (repo_id, path_norm) DO UPDATE waits for the
\* transaction that holds the row.
Upsert(p) ==
    /\ pc[p] = "upsert"
    /\ lock[PathOf(p)] = None
    /\ StoreWrite(p, UpsertedRow(p))
    /\ pc' = [pc EXCEPT ![p] = "delete_chunks"]
    /\ UNCHANGED <<fs, offered, opts, scan, cur, doomed, quiet, edits, runs>>

DeleteChunksForgotten(p) ==
    /\ pc[p] = "delete_chunks"
    /\ pc' = [pc EXCEPT ![p] = IF cur[p].symbol_infos = None THEN "insert_chunks" ELSE "symbols"]
    /\ UNCHANGED <<fs, offered, db, lock, opts, scan, cur, tx, doomed, quiet, edits, runs>>

DeleteChunks(p) ==
    /\ pc[p] = "delete_chunks"
    /\ StoreWrite(p, [RowSeen(p) EXCEPT !.chunks = {}])
    /\ pc' = [pc EXCEPT ![p] = IF cur[p].symbol_infos = None THEN "insert_chunks" ELSE "symbols"]
    /\ UNCHANGED <<fs, offered, opts, scan, cur, doomed, quiet, edits, runs>>

ReplaceSymbolsKeepingOld(p) ==
    /\ pc[p] = "symbols"
    /\ StoreWrite(p, [RowSeen(p) EXCEPT !.symbols = @ \cup {cur[p].symbol_infos}])
    /\ pc' = [pc EXCEPT ![p] = "insert_chunks"]
    /\ UNCHANGED <<fs, offered, opts, scan, cur, doomed, quiet, edits, runs>>

\* delete_symbols and insert_symbols; when table symbol_refs exists,
\* delete_symbol_refs and insert_symbol_refs do the same to the references.
ReplaceSymbols(p) ==
    /\ pc[p] = "symbols"
    /\ StoreWrite(p, [RowSeen(p) EXCEPT !.symbols = {cur[p].symbol_infos}])
    /\ pc' = [pc EXCEPT ![p] = "insert_chunks"]
    /\ UNCHANGED <<fs, offered, opts, scan, cur, doomed, quiet, edits, runs>>

InsertChunks(p) ==
    /\ pc[p] = "insert_chunks"
    /\ StoreWrite(p, [RowSeen(p) EXCEPT
                         !.chunks = @ \cup ChunksOf(PathOf(p), cur[p].text, opts[p].model)])
    /\ pc' = [pc EXCEPT ![p] = "commit"]
    /\ UNCHANGED <<fs, offered, opts, scan, cur, doomed, quiet, edits, runs>>

\* The end of atomic() commits; a document without chunks is not counted as
\* indexed.
Commit(p) ==
    /\ pc[p] = "commit"
    /\ db' = [db EXCEPT ![PathOf(p)] = RowSeen(p)]
    /\ lock' = Released(p)
    /\ tx' = [tx EXCEPT ![p] = NoTx]
    /\ scan' = IF ChunksOf(PathOf(p), cur[p].text, opts[p].model) = {}
               THEN scan
               ELSE [scan EXCEPT ![p] = [@ EXCEPT !.indexed = scan[p].indexed \cup {PathOf(p)}]]
    /\ cur' = [cur EXCEPT ![p] = NoCur]
    /\ pc' = [pc EXCEPT ![p] = "walk"]
    /\ UNCHANGED <<fs, offered, opts, doomed, quiet, edits, runs>>

-----------------------------------------------------------------------------
(* The removal at the end of a run *)

StaleUnlessIndexed(p) ==
    {n \in Paths : db[n] # NoRow /\ n \notin scan[p].indexed
                                 /\ (opts[p].incremental => ~db[n].deleted)}

\* An incremental run marks the live documents it has not seen, a full run
\* deletes every document it has not indexed.
Stale(p) ==
    {n \in Paths : db[n] # NoRow /\ (IF opts[p].incremental
                                     THEN n \notin scan[p].seen /\ ~db[n].deleted
                                     ELSE n \notin scan[p].indexed)}

ListDocuments(p) ==
    /\ pc[p] = "walk"
    /\ scan[p].dirs = {} /\ scan[p].files = {}
    /\ doomed' = [doomed EXCEPT ![p] = [@ EXCEPT !.todo = Stale(p)]]
    /\ pc' = [pc EXCEPT ![p] = IF Stale(p) = {} THEN "done" ELSE "remove"]
    /\ UNCHANGED <<fs, offered, db, lock, opts, scan, cur, tx, quiet, edits, runs>>

\* mark_documents_deleted and delete_documents are one statement each, which
\* locks its rows one after the other, in an order of PostgreSQL's choosing,
\* and waits for a row that another transaction holds.  A row that has been
\* deleted meanwhile is passed over.  doc_id is a function of repo and path
\* (uuid5), so a row inserted again meanwhile is the same document.
LockDoomed(p, n) ==
    /\ pc[p] = "remove"
    /\ n \in doomed[p].todo
    /\ lock[n] = None
    /\ IF db[n] = NoRow
       THEN /\ doomed' = [doomed EXCEPT ![p] = [@ EXCEPT !.todo = doomed[p].todo \ {n}]]
            /\ UNCHANGED lock
       ELSE /\ doomed' = [doomed EXCEPT ![p] = [@ EXCEPT !.todo = doomed[p].todo \ {n},
                                                        !.held = doomed[p].held \cup {n}]]
            /\ lock' = [lock EXCEPT ![n] = p]
    /\ UNCHANGED <<fs, offered, db, pc, opts, scan, cur, tx, quiet, edits, runs>>

RemovedSoftly(p, row) == [row EXCEPT !.deleted = TRUE]
Removed(p, row) == IF opts[p].incremental THEN [row EXCEPT !.deleted = TRUE] ELSE NoRow

Remove(p) ==
    /\ pc[p] = "remove"
    /\ doomed[p].todo = {}
    /\ db' = [n \in Paths |-> IF n \in doomed[p].held THEN Removed(p, db[n]) ELSE db[n]]
    /\ lock' = Released(p)
    /\ doomed' = [doomed EXCEPT ![p] = NoDoomed]
    /\ pc' = [pc EXCEPT ![p] = "done"]
    /\ UNCHANGED <<fs, offered, opts, scan, cur, tx, quiet, edits, runs>>

-----------------------------------------------------------------------------
(* Failure *)

\* The run raises (embedder, database, file system) or its process dies:
\* atomic() rolls back, or PostgreSQL does when the connection goes.
Abort(p) ==
    /\ pc[p] \in Active
    /\ lock' = Released(p)
    /\ tx' = [tx EXCEPT ![p] = NoTx]
    /\ cur' = [cur EXCEPT ![p] = NoCur]
    /\ doomed' = [doomed EXCEPT ![p] = NoDoomed]
    /\ pc' = [pc EXCEPT ![p] = "failed"]
    /\ UNCHANGED <<fs, offered, db, opts, scan, quiet, edits, runs>>

\* p waits for rows of transactions that all wait for one another.
Deadlocked(p) ==
    \E S \in SUBSET Procs :
        /\ p \in S
        /\ \A q \in S : /\ pc[q] = "remove" /\ doomed[q].todo # {}
                        /\ \A n \in doomed[q].todo : lock[n] \in S

\* PostgreSQL cancels one transaction of a deadlock; its statement raises.
DetectDeadlock(p) == Deadlocked(p) /\ Abort(p)

-----------------------------------------------------------------------------

WriteDocument(p) ==
    \/ Upsert(p) \/ DeleteChunks(p) \/ ReplaceSymbols(p) \/ InsertChunks(p) \/ Commit(p)

\* What p does of its own accord once started.
Step(p) ==
    \/ \E d \in Dirs : ListDirectory(p, d)
    \/ \E f \in Files : ReadFile(p, f)
    \/ CheckDocument(p) \/ Prepare(p) \/ WriteDocument(p)
    \/ ListDocuments(p)
    \/ \E n \in Paths : LockDoomed(p, n)
    \/ Remove(p)
    \/ DetectDeadlock(p)

Next ==
    \/ \E f \in Files, c \in Edited : Edit(f, c)
    \/ \E p \in Procs, asked \in BOOLEAN, m \in Models, s \in SymbolModes : Start(p, asked, m, s)
    \/ \E p \in Procs : Step(p) \/ Abort(p)

Spec == Init /\ [][Next]_vars

FairSpec == Spec /\ \A p \in Procs : WF_vars(Step(p))

-----------------------------------------------------------------------------
(* What readers see *)

\* query_vector and query_keyword join chunks to documents that are not
\* marked deleted.
Answers(n) == IF db[n] = NoRow \/ db[n].deleted THEN {} ELSE db[n].chunks

\* query_symbols joins symbols to documents without looking at deleted_at.
SymbolAnswers(n) == IF db[n] = NoRow THEN {} ELSE db[n].symbols

-----------------------------------------------------------------------------
(* Safety *)

\* Readers never observe a document whose old chunks are gone but whose new
\* chunks are not yet visible, nor a mix of two versions: every committed row
\* carries exactly the chunks of one text that has the row's hash.
Whole(n, row) ==
    \E c \in Contents, m \in Models :
        /\ HashOf[c] = row.hash
        /\ row.chunks = ChunksOf(n, c, m)

NoTornDocument == \A n \in Paths : db[n] # NoRow => Whole(n, db[n])

\* With symbol search always on and an extraction that does not raise, the
\* symbols stored for a code file are those of the text its chunks are of.
SymbolsMatchDocument ==
    \A n \in Code : db[n] # NoRow =>
        \E c \in Contents : db[n].symbols = {c} /\ HashOf[c] = db[n].hash

\* The transaction discipline behind NoTornDocument.  From Upsert to Commit a
\* run is inside atomic() and holds the one row it writes; nobody else holds
\* or changes that row; what it will publish is, statement by statement, the
\* text it has read; and a final delete holds only rows that exist and that
\* its run has not met.
InDocument(p) == pc[p] \in {"check", "prepare"} \cup Writing
HoldsRow(p) == pc[p] \in Writing \ {"upsert"}
Met(p) == IF opts[p].incremental THEN scan[p].seen ELSE scan[p].indexed

DocumentInv(p) ==
    /\ InDocument(p) => /\ cur[p].file \in Files
                        /\ cur[p].text \in offered[PathOf(p)]
    /\ pc[p] \in Writing => tx[p].atomic
    /\ pc[p] = "symbols" => cur[p].symbol_infos # None
    /\ HoldsRow(p) => /\ lock[PathOf(p)] = p
                      /\ tx[p].row \in Row
                      /\ tx[p].row.hash = HashOf[cur[p].text]
                      /\ ~tx[p].row.deleted
    /\ pc[p] \in {"symbols", "insert_chunks"} => tx[p].row.chunks = {}
    /\ pc[p] = "commit" =>
          tx[p].row.chunks = ChunksOf(PathOf(p), cur[p].text, opts[p].model)

RemovalInv(p) ==
    /\ pc[p] # "remove" => doomed[p].held = {}
    /\ \A n \in doomed[p].held : lock[n] = p /\ db[n] # NoRow
    /\ pc[p] = "remove" => (doomed[p].todo \cup doomed[p].held) \cap Met(p) = {}

LockInv(p) ==
    \A n \in Paths : lock[n] = p =>
        \/ HoldsRow(p) /\ n = PathOf(p)
        \/ pc[p] = "remove" /\ n \in doomed[p].held

OfferedInv == \A f \in Files : fs[f] \in Contents => fs[f] \in offered[Norm[f]]

TransactionInv ==
    /\ OfferedInv
    /\ \A p \in Procs : DocumentInv(p) /\ RemovalInv(p) /\ LockInv(p)

FilesOf(n) == {f \in Files : Norm[f] = n}
TextsOf(n) == {fs[f] : f \in FilesOf(n)} \cap Contents
Gone(n) == \A f \in FilesOf(n) : fs[f] = Missing

\* The index of path n is what a full run with model m makes of the tree.
Reindexed(n, m) ==
    IF TextsOf(n) = {} THEN db[n] = NoRow
    ELSE Answers(n) \in {ChunksOf(n, c, m) : c \in TextsOf(n)}

\* The index of path n is what an incremental run guarantees: some text with
\* the hash of the file's text, embedded with some model.  A file that exists
\* and cannot be read keeps whatever it had.
UpToDate(n) ==
    /\ Gone(n) => Answers(n) = {}
    /\ TextsOf(n) # {} =>
        \E c \in TextsOf(n), d \in Contents, m \in Models :
            HashOf[d] = HashOf[c] /\ Answers(n) = ChunksOf(n, d, m)

\* A run that had the tree and the index to itself leaves the index in step
\* with the tree, whatever earlier runs (overlapping, failed, in either mode)
\* left behind.
QuietRunMirrorsTree ==
    \A p \in Procs : pc[p] = "done" /\ quiet[p] =>
        \A n \in Paths : IF opts[p].incremental THEN UpToDate(n) ELSE Reindexed(n, opts[p].model)

\* README, "Ingest": a full ingest is one without --incremental, and "every
\* file is re-indexed".
FullRunReindexesEveryFile ==
    \A p \in Procs : pc[p] = "done" /\ quiet[p] /\ ~opts[p].asked =>
        \A n \in Paths : TextsOf(n) # {} => Reindexed(n, opts[p].model)

\* README, "Ingest": in a full ingest, documents that disappeared from the
\* source tree are removed at the end of the run; no query answers with them.
FullRunRemovesDisappeared ==
    \A p \in Procs : pc[p] = "done" /\ quiet[p] /\ ~opts[p].asked =>
        \A n \in Paths : Gone(n) => Answers(n) = {} /\ SymbolAnswers(n) = {}

\* A document stops answering only when a run commits a blank text for it, or
\* at the end of a run that has not met it: an incremental run never removes a
\* path it has seen, a full run never one it has indexed.
VanishesOnlyForCause ==
    [][\A n \in Paths : Answers(n) # {} /\ Answers(n)' = {} =>
          \E p \in Procs :
              \/ pc[p] = "commit" /\ PathOf(p) = n /\ cur[p].text \in Blank
              \/ /\ pc[p] = "remove" /\ pc'[p] = "done"
                 /\ n \notin Met(p)]_vars

\* Readers see the abstract index: whole documents, one at a time.
Index == INSTANCE SearchIndex WITH index <- [n \in Paths |-> Answers(n)]
ImplementsSearchIndex == Index!Spec

-----------------------------------------------------------------------------
(* Liveness *)

\* A run that has started ends: waiting for row locks never blocks it for good.
RunEnds == \A p \in Procs : pc[p] \in Active ~> pc[p] \in Ended
=============================================================================
