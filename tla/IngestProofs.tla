---------------------------- MODULE IngestProofs ----------------------------
(***************************************************************************)
(* Proofs about Ingest, for every set of processes, files and texts.  The  *)
(* inductive invariant is TypeOK, TransactionInv and NoTornDocument: the   *)
(* last alone is not inductive, because whether the committed row is whole *)
(* after Commit depends on what the open transaction holds.  On top of it, *)
(* AllQuietInv says how far a run that has the index to itself got, and    *)
(* SymbolInv which symbols a run is about to publish.                      *)
(***************************************************************************)
EXTENDS Ingest, TLAPS

USE DEF Released

-----------------------------------------------------------------------------
(* Type correctness *)

\* Changing fields of a record keeps it in its set of records.
LEMMA ScanUpdates ==
    ASSUME NEW s \in Scan, NEW d \in SUBSET Dirs, NEW f \in SUBSET Files, NEW n \in SUBSET Paths
    PROVE  /\ [s EXCEPT !.dirs = d, !.files = f] \in Scan
           /\ [s EXCEPT !.files = f, !.seen = n] \in Scan
           /\ [s EXCEPT !.indexed = n] \in Scan
BY DEF Scan

LEMMA CurrentUpdates ==
    ASSUME NEW c \in Current, NEW f \in Files \cup {None}, NEW t \in Contents \cup {None}
    PROVE  /\ [c EXCEPT !.file = f, !.text = t] \in Current
           /\ [c EXCEPT !.symbol_infos = t] \in Current
BY DEF Current

LEMMA TransactionUpdates ==
    ASSUME NEW t \in Transaction, NEW b \in BOOLEAN, NEW row \in Row \cup {NoRow}
    PROVE  /\ [t EXCEPT !.atomic = b] \in Transaction
           /\ [t EXCEPT !.row = row] \in Transaction
BY DEF Transaction

LEMMA DoomedUpdates ==
    ASSUME NEW d \in Doomed, NEW t \in SUBSET Paths, NEW h \in SUBSET Paths
    PROVE  /\ [d EXCEPT !.todo = t] \in Doomed
           /\ [d EXCEPT !.todo = t, !.held = h] \in Doomed
BY DEF Doomed

LEMMA EmptyRecords ==
    /\ NoScan \in Scan /\ NoCur \in Current /\ NoTx \in Transaction /\ NoDoomed \in Doomed
BY DEF NoScan, NoCur, NoTx, NoDoomed, Scan, Current, Transaction, Doomed

LEMMA InitType == Init => TypeOK
<1> SUFFICES ASSUME Init PROVE TypeOK
    OBVIOUS
<1> USE PathsAssumption, TextAssumption, ValueAssumption DEF Init
<1>1. fs \in [Files -> Contents \cup {Missing, Unreadable}]
    OBVIOUS
<1>2. offered \in [Paths -> SUBSET Contents]
    OBVIOUS
<1>3. opts \in [Procs -> Options]
    <2>1. (CHOOSE m \in Models : TRUE) \in Models
        OBVIOUS
    <2>2. QED
        BY <2>1 DEF Options
<1>4. /\ scan \in [Procs -> Scan]
      /\ cur \in [Procs -> Current]
      /\ tx \in [Procs -> Transaction]
      /\ doomed \in [Procs -> Doomed]
    BY DEF NoScan, NoCur, NoTx, NoDoomed, Scan, Current, Transaction, Doomed
<1>5. QED
    BY <1>1, <1>2, <1>3, <1>4 DEF TypeOK

LEMMA IndexedUpdate ==
    ASSUME TypeOK, NEW p \in Procs, NEW n \in Paths
    PROVE  [scan[p] EXCEPT !.indexed = scan[p].indexed \cup {n}] \in Scan
<1>1. scan[p] \in Scan /\ scan[p].indexed \cup {n} \in SUBSET Paths
    BY DEF TypeOK, Scan
<1>2. QED
    BY <1>1, ScanUpdates

\* The row a transaction is about to write is a row.
LEMMA RowType ==
    ASSUME NEW p \in Procs, TypeOK, DocumentInv(p), pc[p] \in Writing
    PROVE  /\ PathOf(p) \in Paths
           /\ cur[p].file \in Files /\ cur[p].text \in Contents
           /\ HashOf[cur[p].text] \in Hashes
           /\ opts[p].model \in Models
           /\ HoldsRow(p) => RowSeen(p) = tx[p].row /\ RowSeen(p) \in Row
           /\ UpsertedRow(p) \in Row
           /\ ChunksOf(PathOf(p), cur[p].text, opts[p].model) \subseteq Chunk
           /\ tx[p].atomic
<1> USE PathsAssumption, TextAssumption, ValueAssumption, NoRowAssumption
<1>1. cur[p].file \in Files /\ PathOf(p) \in Paths
    BY DEF DocumentInv, InDocument, PathOf, TypeOK, Writing
<1>2. cur[p].text \in Contents
    BY <1>1 DEF DocumentInv, InDocument, TypeOK, Writing
<1>3. tx[p].atomic /\ opts[p].model \in Models
    BY DEF DocumentInv, TypeOK, Options
<1>4. HoldsRow(p) => RowSeen(p) = tx[p].row /\ RowSeen(p) \in Row
    BY <1>3 DEF DocumentInv, RowSeen
<1>5. UpsertedRow(p) \in Row
    <2>1. db[PathOf(p)] \in Row \cup {NoRow}
        BY <1>1 DEF TypeOK
    <2>2. QED
        BY <1>2, <2>1 DEF UpsertedRow, Row
<1>6. ChunksOf(PathOf(p), cur[p].text, opts[p].model) \subseteq Chunk
    BY <1>2, <1>3 DEF ChunksOf, Chunk
<1>7. QED
    BY <1>1, <1>2, <1>3, <1>4, <1>5, <1>6

\* What a store method does inside atomic(): only the private row and the
\* lock of the document change.
LEMMA StoreWriteType ==
    ASSUME NEW p \in Procs, TypeOK, DocumentInv(p), pc[p] \in Writing,
           NEW row \in Row, StoreWrite(p, row)
    PROVE  /\ tx' = [tx EXCEPT ![p] = [tx[p] EXCEPT !.row = row]]
           /\ lock' = [lock EXCEPT ![PathOf(p)] = p]
           /\ db' = db
           /\ tx' \in [Procs -> Transaction]
           /\ lock' \in [Paths -> Procs \cup {None}]
<1>1. tx[p].atomic /\ PathOf(p) \in Paths
    BY RowType
<1>2. /\ tx' = [tx EXCEPT ![p] = [tx[p] EXCEPT !.row = row]]
      /\ lock' = [lock EXCEPT ![PathOf(p)] = p]
      /\ db' = db
    BY <1>1 DEF StoreWrite
<1>3. tx' \in [Procs -> Transaction]
    <2>1. [tx[p] EXCEPT !.row = row] \in Transaction
        BY TransactionUpdates DEF TypeOK
    <2>2. QED
        BY <1>2, <2>1 DEF TypeOK
<1>4. lock' \in [Paths -> Procs \cup {None}]
    BY <1>1, <1>2 DEF TypeOK
<1>5. QED
    BY <1>2, <1>3, <1>4

\* The row each statement of a transaction writes.
LEMMA WrittenRows ==
    ASSUME NEW p \in Procs, TypeOK, DocumentInv(p), HoldsRow(p)
    PROVE  /\ [RowSeen(p) EXCEPT !.chunks = {}] \in Row
           /\ cur[p].symbol_infos \in Contents =>
                [RowSeen(p) EXCEPT !.symbols = {cur[p].symbol_infos}] \in Row
           /\ [RowSeen(p) EXCEPT
                  !.chunks = @ \cup ChunksOf(PathOf(p), cur[p].text, opts[p].model)] \in Row
<1> DEFINE new == ChunksOf(PathOf(p), cur[p].text, opts[p].model)
<1>1. RowSeen(p) \in Row /\ new \subseteq Chunk
    BY RowType DEF HoldsRow
<1> HIDE DEF new
<1>2. RowSeen(p).chunks \cup new \in SUBSET Chunk
    BY <1>1 DEF Row
<1>3. [RowSeen(p) EXCEPT !.chunks = RowSeen(p).chunks \cup new] \in Row
    BY <1>1, <1>2 DEF Row
<1>4. [RowSeen(p) EXCEPT !.chunks = {}] \in Row
    BY <1>1 DEF Row
<1>5. ASSUME cur[p].symbol_infos \in Contents
      PROVE  [RowSeen(p) EXCEPT !.symbols = {cur[p].symbol_infos}] \in Row
    BY <1>1, <1>5 DEF Row
<1>6. QED
    BY <1>3, <1>4, <1>5 DEF new

LEMMA WriteType ==
    ASSUME NEW p \in Procs, TypeOK, DocumentInv(p), WriteDocument(p)
    PROVE  TypeOK'
<1> USE ValueAssumption
<1>1. pc[p] \in Writing
    BY DEF WriteDocument, Upsert, DeleteChunks, ReplaceSymbols, InsertChunks, Commit, Writing
<1>2. ASSUME NEW row \in Row, StoreWrite(p, row),
             pc' \in [Procs -> {"idle"} \cup Active \cup Ended],
             UNCHANGED <<fs, offered, opts, scan, cur, doomed, quiet, edits, runs>>
      PROVE  TypeOK'
    BY <1>1, <1>2, StoreWriteType DEF TypeOK
<1> USE DEF Active, Writing, Ended
<1>3. CASE Upsert(p)
    <2>1. UpsertedRow(p) \in Row
        BY <1>1, RowType
    <2>2. pc' \in [Procs -> {"idle"} \cup Active \cup Ended]
        BY <1>3 DEF Upsert, TypeOK
    <2>3. QED
        BY <1>2, <1>3, <2>1, <2>2 DEF Upsert
<1>4. CASE DeleteChunks(p)
    <2>1. [RowSeen(p) EXCEPT !.chunks = {}] \in Row
        BY <1>4, WrittenRows DEF DeleteChunks, HoldsRow
    <2>2. pc' \in [Procs -> {"idle"} \cup Active \cup Ended]
        BY <1>4 DEF DeleteChunks, TypeOK
    <2>3. QED
        BY <1>2, <1>4, <2>1, <2>2 DEF DeleteChunks
<1>5. CASE ReplaceSymbols(p)
    <2>1. cur[p].symbol_infos \in Contents
        BY <1>5 DEF ReplaceSymbols, DocumentInv, TypeOK, Current
    <2>2. [RowSeen(p) EXCEPT !.symbols = {cur[p].symbol_infos}] \in Row
        BY <1>5, <2>1, WrittenRows DEF ReplaceSymbols, HoldsRow
    <2>3. pc' \in [Procs -> {"idle"} \cup Active \cup Ended]
        BY <1>5 DEF ReplaceSymbols, TypeOK
    <2>4. QED
        BY <1>2, <1>5, <2>2, <2>3 DEF ReplaceSymbols
<1>6. CASE InsertChunks(p)
    <2>1. [RowSeen(p) EXCEPT
              !.chunks = @ \cup ChunksOf(PathOf(p), cur[p].text, opts[p].model)] \in Row
        BY <1>6, WrittenRows DEF InsertChunks, HoldsRow
    <2>2. pc' \in [Procs -> {"idle"} \cup Active \cup Ended]
        BY <1>6 DEF InsertChunks, TypeOK
    <2>3. QED
        BY <1>2, <1>6, <2>1, <2>2 DEF InsertChunks
<1>7. CASE Commit(p)
    <2>1. RowSeen(p) \in Row /\ PathOf(p) \in Paths
        BY <1>1, <1>7, RowType DEF Commit, HoldsRow
    <2>2. /\ db' \in [Paths -> Row \cup {NoRow}]
          /\ lock' \in [Paths -> Procs \cup {None}]
          /\ pc' \in [Procs -> {"idle"} \cup Active \cup Ended]
        BY <1>7, <2>1 DEF Commit, TypeOK
    <2>3. scan' \in [Procs -> Scan]
        <3>1. PathOf(p) \in Paths => [scan[p] EXCEPT !.indexed = scan[p].indexed \cup {PathOf(p)}] \in Scan
            BY IndexedUpdate
        <3>2. scan' = scan \/ scan' = [scan EXCEPT ![p] = [@ EXCEPT !.indexed = scan[p].indexed \cup {PathOf(p)}]]
            BY <1>7 DEF Commit
        <3>3. CASE scan' = scan
            BY <3>3 DEF TypeOK
        <3>4. CASE scan' = [scan EXCEPT ![p] = [@ EXCEPT !.indexed = scan[p].indexed \cup {PathOf(p)}]]
            BY <2>1, <3>1, <3>4 DEF TypeOK
        <3>5. QED
            BY <3>2, <3>3, <3>4
    <2>4. tx' \in [Procs -> Transaction] /\ cur' \in [Procs -> Current]
        BY <1>7, EmptyRecords DEF Commit, TypeOK
    <2>5. QED
        BY <1>7, <2>2, <2>3, <2>4 DEF Commit, TypeOK
<1>8. QED
    BY <1>3, <1>4, <1>5, <1>6, <1>7 DEF WriteDocument

LEMMA RemovalType ==
    ASSUME NEW p \in Procs, TypeOK, RemovalInv(p),
           \/ ListDocuments(p) \/ (\E n \in Paths : LockDoomed(p, n)) \/ Remove(p) \/ Abort(p)
    PROVE  TypeOK'
<1> USE DEF Active, Writing, Ended
<1>1. CASE ListDocuments(p)
    <2> DEFINE stale == Stale(p)
    <2>1. stale \in SUBSET Paths
        BY DEF Stale
    <2>2. /\ doomed' = [doomed EXCEPT ![p] = [@ EXCEPT !.todo = stale]]
          /\ pc' = [pc EXCEPT ![p] = IF stale = {} THEN "done" ELSE "remove"]
        BY <1>1 DEF ListDocuments
    <2> HIDE DEF stale
    <2>3. [doomed[p] EXCEPT !.todo = stale] \in Doomed
        BY <2>1 DEF TypeOK, Doomed
    <2>4. doomed' \in [Procs -> Doomed]
        BY <2>2, <2>3 DEF TypeOK
    <2>5. pc' \in [Procs -> {"idle"} \cup Active \cup Ended]
        BY <2>2 DEF TypeOK
    <2>6. QED
        BY <1>1, <2>4, <2>5 DEF ListDocuments, TypeOK
<1>2. ASSUME NEW n \in Paths, LockDoomed(p, n) PROVE TypeOK'
    <2>1. /\ [doomed[p] EXCEPT !.todo = doomed[p].todo \ {n}] \in Doomed
          /\ [doomed[p] EXCEPT !.todo = doomed[p].todo \ {n}, !.held = doomed[p].held \cup {n}] \in Doomed
        <3>1. /\ doomed[p] \in Doomed
              /\ doomed[p].todo \ {n} \in SUBSET Paths
              /\ doomed[p].held \cup {n} \in SUBSET Paths
            BY DEF TypeOK, Doomed
        <3>2. QED
            BY <3>1, DoomedUpdates
    <2>2. CASE db[n] = NoRow
        BY <1>2, <2>1, <2>2 DEF LockDoomed, TypeOK
    <2>3. CASE db[n] # NoRow
        <3>1. doomed' \in [Procs -> Doomed]
            BY <1>2, <2>1, <2>3 DEF LockDoomed, TypeOK
        <3>2. lock' \in [Paths -> Procs \cup {None}]
            BY <1>2, <2>3 DEF LockDoomed, TypeOK
        <3>3. QED
            BY <1>2, <3>1, <3>2 DEF LockDoomed, TypeOK
    <2>4. QED
        BY <2>2, <2>3
<1>3. CASE Remove(p)
    <2>1. ASSUME NEW n \in doomed[p].held PROVE Removed(p, db[n]) \in Row \cup {NoRow}
        <3>1. db[n] \in Row
            BY DEF RemovalInv, TypeOK, Doomed
        <3>2. QED
            BY <3>1 DEF Removed, Row
    <2>2. db' \in [Paths -> Row \cup {NoRow}]
        BY <1>3, <2>1 DEF Remove, TypeOK
    <2>3. lock' \in [Paths -> Procs \cup {None}]
        BY <1>3 DEF Remove, TypeOK
    <2>4. NoDoomed \in Doomed
        BY DEF NoDoomed, Doomed
    <2>5. doomed' \in [Procs -> Doomed]
        BY <1>3, <2>4 DEF Remove, TypeOK
    <2>6. pc' \in [Procs -> {"idle"} \cup Active \cup Ended]
        BY <1>3 DEF Remove, TypeOK
    <2>7. QED
        BY <1>3, <2>2, <2>3, <2>5, <2>6 DEF Remove, TypeOK
<1>4. CASE Abort(p)
    <2>1. /\ tx' \in [Procs -> Transaction] /\ cur' \in [Procs -> Current]
          /\ doomed' \in [Procs -> Doomed]
        BY <1>4 DEF Abort, TypeOK, NoTx, NoCur, NoDoomed, Transaction, Current, Doomed
    <2>2. /\ lock' \in [Paths -> Procs \cup {None}]
          /\ pc' \in [Procs -> {"idle"} \cup Active \cup Ended]
        BY <1>4 DEF Abort, TypeOK
    <2>3. QED
        BY <1>4, <2>1, <2>2 DEF Abort, TypeOK
<1>5. QED
    BY <1>1, <1>2, <1>3, <1>4

LEMMA WalkType ==
    ASSUME NEW p \in Procs, TypeOK, DocumentInv(p),
           \/ \E d \in Dirs : ListDirectory(p, d)
           \/ \E f \in Files : ReadFile(p, f)
           \/ CheckDocument(p) \/ Prepare(p)
    PROVE  TypeOK'
<1> USE PathsAssumption, ValueAssumption DEF Active, Writing, Ended
<1>1. ASSUME NEW d \in Dirs, ListDirectory(p, d) PROVE TypeOK'
    <2>1. [scan[p] EXCEPT !.dirs = scan[p].dirs \ {d},
                          !.files = {f \in Files : DirOf[f] = d /\ fs[f] # Missing}] \in Scan
        <3>1. /\ scan[p] \in Scan /\ scan[p].dirs \ {d} \in SUBSET Dirs
              /\ {f \in Files : DirOf[f] = d /\ fs[f] # Missing} \in SUBSET Files
            BY DEF TypeOK, Scan
        <3>2. QED
            BY <3>1, ScanUpdates
    <2>2. scan' \in [Procs -> Scan]
        BY <1>1, <2>1 DEF ListDirectory, TypeOK
    <2>3. QED
        BY <1>1, <2>2 DEF ListDirectory, TypeOK
<1>2. ASSUME NEW f \in Files, ReadFile(p, f) PROVE TypeOK'
    <2>1. [scan[p] EXCEPT !.files = scan[p].files \ {f}, !.seen = scan[p].seen \cup {Norm[f]}] \in Scan
        <3>1. /\ scan[p] \in Scan /\ scan[p].files \ {f} \in SUBSET Files
              /\ scan[p].seen \cup {Norm[f]} \in SUBSET Paths
            BY DEF TypeOK, Scan
        <3>2. QED
            BY <3>1, ScanUpdates
    <2>2. scan' \in [Procs -> Scan]
        BY <1>2, <2>1 DEF ReadFile, TypeOK
    <2>3. cur' \in [Procs -> Current] /\ pc' \in [Procs -> {"idle"} \cup Active \cup Ended]
        <3>1. CASE fs[f] \in Contents
            <4>1. [NoCur EXCEPT !.file = f, !.text = fs[f]] \in Current
                BY <3>1, EmptyRecords, CurrentUpdates
            <4>2. /\ cur' = [cur EXCEPT ![p] = [NoCur EXCEPT !.file = f, !.text = fs[f]]]
                  /\ pc' = [pc EXCEPT ![p] = "check"]
                BY <1>2, <3>1 DEF ReadFile
            <4>3. QED
                BY <4>1, <4>2 DEF TypeOK
        <3>2. CASE fs[f] \notin Contents
            BY <1>2, <3>2 DEF ReadFile, TypeOK
        <3>3. QED
            BY <3>1, <3>2
    <2>4. QED
        BY <1>2, <2>2, <2>3 DEF ReadFile, TypeOK
<1>3. CASE CheckDocument(p)
    <2>1. PathOf(p) \in Paths
        BY <1>3 DEF CheckDocument, DocumentInv, InDocument, PathOf
    <2>2. [scan[p] EXCEPT !.indexed = scan[p].indexed \cup {PathOf(p)}] \in Scan /\ NoCur \in Current
        BY <2>1, IndexedUpdate, EmptyRecords
    <2>3. /\ scan' \in [Procs -> Scan] /\ cur' \in [Procs -> Current]
          /\ pc' \in [Procs -> {"idle"} \cup Active \cup Ended]
        <3>1. CASE Unchanged(p)
            <4>1. /\ scan' = [scan EXCEPT ![p] = [@ EXCEPT !.indexed = scan[p].indexed \cup {PathOf(p)}]]
                  /\ cur' = [cur EXCEPT ![p] = NoCur]
                  /\ pc' = [pc EXCEPT ![p] = "walk"]
                BY <1>3, <3>1 DEF CheckDocument
            <4>2. QED
                BY <2>2, <4>1 DEF TypeOK
        <3>2. CASE ~Unchanged(p)
            BY <1>3, <3>2 DEF CheckDocument, TypeOK
        <3>3. QED
            BY <3>1, <3>2
    <2>4. QED
        BY <1>3, <2>3 DEF CheckDocument, TypeOK
<1>4. CASE Prepare(p)
    <2>1. PICK infos \in Extraction(p) : cur' = [cur EXCEPT ![p] = [@ EXCEPT !.symbol_infos = infos]]
        BY <1>4 DEF Prepare
    <2>2. infos \in Contents \cup {None}
        BY <1>4, <2>1 DEF Prepare, Extraction, DocumentInv, InDocument, TypeOK, Current
    <2>3. [cur[p] EXCEPT !.symbol_infos = infos] \in Current
        BY <2>2, CurrentUpdates DEF TypeOK
    <2>4. cur' \in [Procs -> Current]
        BY <2>1, <2>3 DEF TypeOK
    <2>5. [tx[p] EXCEPT !.atomic = TRUE] \in Transaction
        BY TransactionUpdates DEF TypeOK
    <2>6. tx' \in [Procs -> Transaction]
        BY <1>4, <2>5 DEF Prepare, EnterAtomic, TypeOK
    <2>7. pc' \in [Procs -> {"idle"} \cup Active \cup Ended]
        BY <1>4 DEF Prepare, TypeOK
    <2>8. QED
        BY <1>4, <2>4, <2>6, <2>7 DEF Prepare, TypeOK
<1>5. QED
    BY <1>1, <1>2, <1>3, <1>4

LEMMA EditType ==
    ASSUME TypeOK, NEW f \in Files, NEW c \in Edited, Edit(f, c)
    PROVE  TypeOK'
<1> USE PathsAssumption, ValueAssumption
<1>1. c \in Contents \cup {Missing, Unreadable} /\ Norm[f] \in Paths
    OBVIOUS
<1>2. fs' \in [Files -> Contents \cup {Missing, Unreadable}]
    BY <1>1 DEF Edit, TypeOK
<1>3. offered' \in [Paths -> SUBSET Contents]
    <2>1. offered[Norm[f]] \cup ({c} \cap Contents) \in SUBSET Contents
        BY <1>1 DEF TypeOK
    <2>2. QED
        BY <1>1, <2>1 DEF Edit, TypeOK
<1>4. edits' \in 0 .. MaxEdits
    BY DEF Edit, TypeOK
<1>5. quiet' \in [Procs -> BOOLEAN]
    BY DEF Edit
<1>6. QED
    BY <1>2, <1>3, <1>4, <1>5 DEF Edit, TypeOK

LEMMA StartType ==
    ASSUME TypeOK, NEW p \in Procs, NEW asked \in BOOLEAN, NEW m \in Models,
           NEW s \in SymbolModes, Start(p, asked, m, s)
    PROVE  TypeOK'
<1> USE ValueAssumption DEF Active, Writing, Ended
<1>1. [asked |-> asked, incremental |-> IncrementalMode(asked),
       model |-> m, symbol_search |-> s] \in Options
    BY DEF Options, IncrementalMode
<1>2. opts' \in [Procs -> Options]
    BY <1>1 DEF Start, TypeOK
<1>3. [NoScan EXCEPT !.dirs = Dirs] \in Scan
    BY DEF NoScan, Scan
<1>4. scan' \in [Procs -> Scan]
    BY <1>3 DEF Start, TypeOK
<1>5. quiet' \in [Procs -> BOOLEAN]
    BY DEF Start
<1>6. runs' \in 0 .. MaxRuns /\ pc' \in [Procs -> {"idle"} \cup Active \cup Ended]
    BY DEF Start, TypeOK
<1>7. QED
    BY <1>2, <1>4, <1>5, <1>6 DEF Start, TypeOK

LEMMA NextType == TypeOK /\ TransactionInv /\ [Next]_vars => TypeOK'
<1> SUFFICES ASSUME TypeOK, TransactionInv, [Next]_vars PROVE TypeOK'
    OBVIOUS
<1>1. ASSUME NEW p \in Procs PROVE DocumentInv(p) /\ RemovalInv(p)
    BY DEF TransactionInv
<1>2. CASE \E f \in Files, c \in Edited : Edit(f, c)
    BY <1>2, EditType
<1>3. CASE \E p \in Procs, asked \in BOOLEAN, m \in Models, s \in SymbolModes : Start(p, asked, m, s)
    BY <1>3, StartType
<1>4. ASSUME NEW p \in Procs, Step(p) \/ Abort(p) PROVE TypeOK'
    BY <1>1, <1>4, WalkType, WriteType, RemovalType DEF Step, DetectDeadlock
<1>5. CASE UNCHANGED vars
    BY <1>5 DEF vars, TypeOK
<1>6. QED
    BY <1>2, <1>3, <1>4, <1>5 DEF Next

-----------------------------------------------------------------------------
(* The transaction discipline *)

\* What a step of another process leaves to process q.
Frame(q) ==
    /\ pc'[q] = pc[q] /\ opts'[q] = opts[q] /\ scan'[q] = scan[q]
    /\ cur'[q] = cur[q] /\ tx'[q] = tx[q] /\ doomed'[q] = doomed[q]
    /\ \A n \in Paths : offered[n] \subseteq offered'[n]
    /\ \A n \in Paths : lock[n] = q <=> lock'[n] = q
    /\ \A n \in Paths : lock[n] = q /\ db[n] # NoRow => db'[n] # NoRow

ProcInv(q) == DocumentInv(q) /\ RemovalInv(q) /\ LockInv(q)

LEMMA Undisturbed ==
    ASSUME TypeOK, NEW q \in Procs, ProcInv(q), Frame(q)
    PROVE  ProcInv(q)'
<1> USE PathsAssumption
<1>1. PathOf(q)' = PathOf(q)
    BY DEF PathOf, Frame
<1>2. (InDocument(q)' <=> InDocument(q)) /\ (HoldsRow(q)' <=> HoldsRow(q))
    BY DEF InDocument, HoldsRow, Frame
<1>3. InDocument(q) => PathOf(q) \in Paths
    BY DEF PathOf, ProcInv, DocumentInv
<1>4. HoldsRow(q) => InDocument(q)
    BY DEF HoldsRow, InDocument, Writing
<1>5. DocumentInv(q)'
    <2>1. InDocument(q) => cur'[q].file \in Files /\ cur'[q].text \in offered'[PathOf(q)]
        BY <1>3 DEF ProcInv, DocumentInv, Frame
    <2>2. HoldsRow(q) => /\ lock'[PathOf(q)] = q
                         /\ tx'[q].row \in Row
                         /\ tx'[q].row.hash = HashOf[cur'[q].text]
                         /\ ~tx'[q].row.deleted
        BY <1>3, <1>4 DEF ProcInv, DocumentInv, Frame
    <2>3. /\ pc'[q] \in Writing => tx'[q].atomic
          /\ pc'[q] = "symbols" => cur'[q].symbol_infos # None
          /\ pc'[q] \in {"symbols", "insert_chunks"} => tx'[q].row.chunks = {}
          /\ pc'[q] = "commit" =>
                tx'[q].row.chunks = ChunksOf(PathOf(q), cur'[q].text, opts'[q].model)
        BY DEF ProcInv, DocumentInv, Frame
    <2>4. QED
        BY <1>1, <1>2, <2>1, <2>2, <2>3 DEF DocumentInv, ChunksOf
<1>6. RemovalInv(q)'
    <2>1. Met(q)' = Met(q)
        BY DEF Met, Frame
    <2>2. doomed[q].held \subseteq Paths
        BY DEF TypeOK, Doomed
    <2>3. QED
        BY <2>1, <2>2 DEF ProcInv, RemovalInv, Frame
<1>7. LockInv(q)'
    BY <1>1, <1>2 DEF ProcInv, LockInv, Frame
<1>8. QED
    BY <1>5, <1>6, <1>7 DEF ProcInv

\* A step of p touches no row another process holds and none of its state.
LEMMA StepFrames ==
    ASSUME TypeOK, NEW p \in Procs, NEW q \in Procs, q # p,
           ProcInv(p), Step(p) \/ Abort(p)
    PROVE  Frame(q)
<1> USE ValueAssumption, PathsAssumption
<1> USE DEF TypeOK
<1>1. ASSUME NEW d \in Dirs, ListDirectory(p, d) PROVE Frame(q)
    BY <1>1 DEF ListDirectory, Frame
<1>2. ASSUME NEW f \in Files, ReadFile(p, f) PROVE Frame(q)
    BY <1>2 DEF ReadFile, Frame
<1>3. CASE CheckDocument(p)
    BY <1>3 DEF CheckDocument, Frame
<1>4. CASE Prepare(p)
    BY <1>4 DEF Prepare, EnterAtomic, Frame
<1>5. ASSUME pc[p] \in Writing, NEW row \in Row, StoreWrite(p, row),
             lock[PathOf(p)] \in {None, p},
             pc' = [pc EXCEPT ![p] = pc'[p]],
             UNCHANGED <<offered, opts, scan, cur, doomed>>
      PROVE  Frame(q)
    <2>1. /\ tx' = [tx EXCEPT ![p] = [tx[p] EXCEPT !.row = row]]
          /\ lock' = [lock EXCEPT ![PathOf(p)] = p]
          /\ db' = db
        BY <1>5, StoreWriteType DEF ProcInv
    <2>2. QED
        BY <1>5, <2>1 DEF Frame
<1>6. CASE Upsert(p)
    <2>1. UpsertedRow(p) \in Row
        BY <1>6, RowType DEF ProcInv, Upsert, Writing
    <2>2. QED
        BY <1>5, <1>6, <2>1 DEF Upsert, Writing
<1>7. HoldsRow(p) => lock[PathOf(p)] = p
    BY DEF ProcInv, DocumentInv
<1>8. CASE DeleteChunks(p)
    <2>1. HoldsRow(p) /\ pc[p] \in Writing
        BY <1>8 DEF DeleteChunks, HoldsRow, Writing
    <2>2. [RowSeen(p) EXCEPT !.chunks = {}] \in Row
        BY <2>1, WrittenRows DEF ProcInv
    <2>3. QED
        BY <1>5, <1>7, <1>8, <2>1, <2>2 DEF DeleteChunks
<1>9. CASE ReplaceSymbols(p)
    <2>1. HoldsRow(p) /\ pc[p] \in Writing
        BY <1>9 DEF ReplaceSymbols, HoldsRow, Writing
    <2>2. cur[p].symbol_infos \in Contents
        BY <1>9 DEF ReplaceSymbols, ProcInv, DocumentInv, Current
    <2>3. [RowSeen(p) EXCEPT !.symbols = {cur[p].symbol_infos}] \in Row
        BY <2>1, <2>2, WrittenRows DEF ProcInv
    <2>4. QED
        BY <1>5, <1>7, <1>9, <2>1, <2>3 DEF ReplaceSymbols
<1>10. CASE InsertChunks(p)
    <2>1. HoldsRow(p) /\ pc[p] \in Writing
        BY <1>10 DEF InsertChunks, HoldsRow, Writing
    <2>2. [RowSeen(p) EXCEPT
              !.chunks = @ \cup ChunksOf(PathOf(p), cur[p].text, opts[p].model)] \in Row
        BY <2>1, WrittenRows DEF ProcInv
    <2>3. QED
        BY <1>5, <1>7, <1>10, <2>1, <2>2 DEF InsertChunks
<1>11. CASE Commit(p)
    <2>1. lock[PathOf(p)] = p
        BY <1>7, <1>11 DEF Commit, HoldsRow, Writing
    <2>2. /\ \A n \in Paths : n # PathOf(p) => db'[n] = db[n]
          /\ \A n \in Paths : lock[n] = q <=> lock'[n] = q
        BY <1>11 DEF Commit
    <2>3. scan'[q] = scan[q]
        BY <1>11 DEF Commit
    <2>4. QED
        BY <1>11, <2>1, <2>2, <2>3 DEF Commit, Frame
<1>12. CASE ListDocuments(p)
    BY <1>12 DEF ListDocuments, Frame
<1>13. ASSUME NEW n \in Paths, LockDoomed(p, n) PROVE Frame(q)
    <2>1. \A k \in Paths : lock[k] = q <=> lock'[k] = q
        BY <1>13 DEF LockDoomed
    <2>2. doomed'[q] = doomed[q]
        BY <1>13 DEF LockDoomed
    <2>3. QED
        BY <1>13, <2>1, <2>2 DEF LockDoomed, Frame
<1>14. CASE Remove(p)
    <2>1. \A n \in Paths : lock[n] = q => db'[n] = db[n]
        BY <1>14 DEF Remove, ProcInv, RemovalInv
    <2>2. QED
        BY <1>14, <2>1 DEF Remove, Frame
<1>15. CASE Abort(p)
    BY <1>15 DEF Abort, Frame
<1>16. QED
    BY <1>1, <1>2, <1>3, <1>4, <1>6, <1>8, <1>9, <1>10, <1>11, <1>12, <1>13, <1>14, <1>15
       DEF Step, WriteDocument, DetectDeadlock

\* Outside a document nothing is asked of a process.
LEMMA BetweenDocuments ==
    ASSUME NEW p \in Procs, pc'[p] \in {"idle", "walk", "remove", "done", "failed"}
    PROVE  DocumentInv(p)'
<1>1. pc'[p] \notin {"check", "prepare"} \cup Writing
    BY DEF Writing
<1>2. ~InDocument(p)' /\ ~HoldsRow(p)'
    BY <1>1 DEF InDocument, HoldsRow
<1>3. pc'[p] \notin Writing /\ pc'[p] \notin {"symbols", "insert_chunks", "commit"}
    BY DEF Writing
<1>4. QED
    BY <1>2, <1>3 DEF DocumentInv

\* From "check" to "upsert" a process only carries its file and text.
LEMMA BeforeWrites ==
    ASSUME NEW p \in Procs, pc'[p] \in {"check", "prepare", "upsert"},
           cur'[p].file \in Files, cur'[p].text \in offered'[Norm[cur'[p].file]],
           pc'[p] = "upsert" => tx'[p].atomic
    PROVE  DocumentInv(p)'
<1>1. ~HoldsRow(p)' /\ pc'[p] \notin {"symbols", "insert_chunks", "commit"}
    BY DEF HoldsRow, Writing
<1>2. pc'[p] \in Writing => pc'[p] = "upsert"
    BY DEF Writing
<1>3. QED
    BY <1>1, <1>2 DEF DocumentInv, PathOf

\* A step of p keeps p's own part of the discipline.
LEMMA WalkKeeps ==
    ASSUME TypeOK, OfferedInv, NEW p \in Procs, ProcInv(p),
           \/ \E d \in Dirs : ListDirectory(p, d)
           \/ \E f \in Files : ReadFile(p, f)
           \/ CheckDocument(p) \/ Prepare(p)
    PROVE  ProcInv(p)'
<1>1. UNCHANGED <<doomed, lock, db, offered>> /\ pc'[p] # "remove"
    <2>1. pc \in [Procs -> {"idle"} \cup Active \cup Ended]
        BY DEF TypeOK
    <2>2. QED
        BY <2>1 DEF ListDirectory, ReadFile, CheckDocument, Prepare
<1>2. pc[p] \in {"walk", "check", "prepare"}
    BY DEF ListDirectory, ReadFile, CheckDocument, Prepare
<1>3. LockInv(p)' /\ RemovalInv(p)'
    <2>1. ~HoldsRow(p) /\ pc[p] # "remove"
        BY <1>2 DEF HoldsRow, Writing
    <2>2. doomed[p].held = {} /\ \A n \in Paths : lock[n] # p
        BY <2>1 DEF ProcInv, RemovalInv, LockInv
    <2>3. QED
        BY <1>1, <2>2 DEF RemovalInv, LockInv
<1>4. pc[p] \in {"check", "prepare"} =>
        cur[p].file \in Files /\ cur[p].text \in offered[Norm[cur[p].file]]
    BY DEF ProcInv, DocumentInv, InDocument, PathOf
<1>5. ASSUME NEW d \in Dirs, ListDirectory(p, d) PROVE DocumentInv(p)'
    <2>1. pc'[p] = "walk"
        BY <1>5 DEF ListDirectory
    <2>2. QED
        BY <2>1, BetweenDocuments
<1>6. ASSUME NEW f \in Files, ReadFile(p, f) PROVE DocumentInv(p)'
    <2>1. CASE fs[f] \in Contents
        <3>1. /\ cur'[p] = [NoCur EXCEPT !.file = f, !.text = fs[f]]
              /\ pc'[p] = "check"
            BY <1>6, <2>1 DEF ReadFile, TypeOK
        <3>2. cur'[p].file = f /\ cur'[p].text = fs[f]
            BY <3>1 DEF NoCur
        <3>3. fs[f] \in offered[Norm[f]]
            BY <2>1 DEF OfferedInv
        <3>4. cur'[p].file \in Files /\ cur'[p].text \in offered'[Norm[cur'[p].file]]
            BY <1>1, <3>2, <3>3
        <3>5. QED
            BY <3>1, <3>4, BeforeWrites
    <2>2. CASE fs[f] \notin Contents
        <3>1. pc'[p] = "walk"
            BY <1>6, <2>2 DEF ReadFile
        <3>2. QED
            BY <3>1, BetweenDocuments
    <2>3. QED
        BY <2>1, <2>2
<1>7. ASSUME CheckDocument(p) PROVE DocumentInv(p)'
    <2>1. CASE Unchanged(p)
        <3>1. pc'[p] = "walk"
            BY <1>7, <2>1 DEF CheckDocument, TypeOK
        <3>2. QED
            BY <3>1, BetweenDocuments
    <2>2. CASE ~Unchanged(p)
        <3>1. pc'[p] = "prepare" /\ pc[p] = "check" /\ cur' = cur
            BY <1>7, <2>2 DEF CheckDocument, TypeOK
        <3>2. cur'[p].file \in Files /\ cur'[p].text \in offered'[Norm[cur'[p].file]]
            BY <1>1, <1>4, <3>1
        <3>3. QED
            BY <3>1, <3>2, BeforeWrites
    <2>3. QED
        BY <2>1, <2>2
<1>8. ASSUME Prepare(p) PROVE DocumentInv(p)'
    <2>1. PICK infos : cur' = [cur EXCEPT ![p] = [@ EXCEPT !.symbol_infos = infos]]
        BY <1>8 DEF Prepare
    <2>2. cur'[p].file = cur[p].file /\ cur'[p].text = cur[p].text
        BY <2>1 DEF TypeOK, Current
    <2>3. tx'[p].atomic
        BY <1>8 DEF Prepare, EnterAtomic, TypeOK, Transaction
    <2>4. pc[p] = "prepare" /\ pc'[p] = "upsert"
        BY <1>8 DEF Prepare, TypeOK
    <2>5. cur'[p].file \in Files /\ cur'[p].text \in offered'[Norm[cur'[p].file]]
        BY <1>1, <1>4, <2>2, <2>4
    <2>6. QED
        BY <2>3, <2>4, <2>5, BeforeWrites
<1>9. QED
    BY <1>3, <1>5, <1>6, <1>7, <1>8 DEF ProcInv

LEMMA WriteKeeps ==
    ASSUME TypeOK, NEW p \in Procs, ProcInv(p),
           Upsert(p) \/ DeleteChunks(p) \/ ReplaceSymbols(p) \/ InsertChunks(p)
    PROVE  ProcInv(p)'
<1> DEFINE n == PathOf(p)
           new == ChunksOf(n, cur[p].text, opts[p].model)
<1> USE ValueAssumption
<1>1. pc[p] \in Writing /\ (pc[p] # "upsert" => HoldsRow(p)) /\ pc[p] # "remove" /\ pc[p] # "commit"
    BY DEF Upsert, DeleteChunks, ReplaceSymbols, InsertChunks, Writing, HoldsRow
<1>2. /\ n \in Paths /\ tx[p].atomic
      /\ HoldsRow(p) => RowSeen(p) = tx[p].row /\ RowSeen(p) \in Row
      /\ UpsertedRow(p) \in Row
    BY <1>1, RowType DEF ProcInv
<1>3. /\ cur[p].file \in Files /\ cur[p].text \in offered[n]
      /\ HoldsRow(p) => /\ tx[p].row.hash = HashOf[cur[p].text] /\ ~tx[p].row.deleted
                        /\ lock[n] = p
    BY <1>1 DEF ProcInv, DocumentInv, InDocument
<1>4. UNCHANGED <<offered, opts, scan, cur, doomed>>
    BY DEF Upsert, DeleteChunks, ReplaceSymbols, InsertChunks
<1>5. PathOf(p)' = n
    BY <1>4 DEF PathOf
\* Each statement leaves a private row that is right for where p goes next.
<1>6. PICK row \in Row :
        /\ StoreWrite(p, row)
        /\ lock[n] \in {None, p}
        /\ row.hash = HashOf[cur[p].text] /\ ~row.deleted
        /\ pc'[p] \in Writing \ {"upsert"}
        /\ pc'[p] = "symbols" => cur[p].symbol_infos # None
        /\ pc'[p] \in {"symbols", "insert_chunks"} => row.chunks = {}
        /\ pc'[p] = "commit" => row.chunks = new
    <2>1. CASE Upsert(p)
        <3>1. UpsertedRow(p).hash = HashOf[cur[p].text] /\ ~UpsertedRow(p).deleted
            BY DEF UpsertedRow
        <3>2. pc'[p] = "delete_chunks" /\ StoreWrite(p, UpsertedRow(p)) /\ lock[n] = None
            BY <2>1 DEF Upsert, TypeOK
        <3>3. QED
            BY <1>2, <3>1, <3>2 DEF Writing
    <2>2. CASE DeleteChunks(p)
        <3> DEFINE row == [RowSeen(p) EXCEPT !.chunks = {}]
        <3>1. HoldsRow(p)
            BY <2>2 DEF DeleteChunks, HoldsRow, Writing
        <3>2. row \in Row
            BY <3>1, WrittenRows DEF ProcInv
        <3>3. row.hash = HashOf[cur[p].text] /\ ~row.deleted /\ row.chunks = {}
            BY <1>2, <1>3, <3>1 DEF Row
        <3>4. StoreWrite(p, row)
            BY <2>2 DEF DeleteChunks
        <3>5. /\ pc'[p] \in {"insert_chunks", "symbols"}
              /\ pc'[p] = "symbols" => cur[p].symbol_infos # None
            BY <2>2 DEF DeleteChunks, TypeOK
        <3>6. QED
            BY <1>3, <3>1, <3>2, <3>3, <3>4, <3>5 DEF Writing
    <2>3. CASE ReplaceSymbols(p)
        <3> DEFINE row == [RowSeen(p) EXCEPT !.symbols = {cur[p].symbol_infos}]
        <3>1. HoldsRow(p) /\ tx[p].row.chunks = {} /\ cur[p].symbol_infos # None
            BY <2>3 DEF ReplaceSymbols, HoldsRow, Writing, ProcInv, DocumentInv
        <3>2. cur[p].symbol_infos \in Contents
            BY <3>1 DEF TypeOK, Current
        <3>3. row \in Row
            BY <3>1, <3>2, WrittenRows DEF ProcInv
        <3>4. row.hash = HashOf[cur[p].text] /\ ~row.deleted /\ row.chunks = {}
            BY <1>2, <1>3, <3>1 DEF Row
        <3>5. StoreWrite(p, row) /\ pc'[p] = "insert_chunks"
            BY <2>3 DEF ReplaceSymbols, TypeOK
        <3>6. QED
            BY <1>3, <3>1, <3>3, <3>4, <3>5 DEF Writing
    <2>4. CASE InsertChunks(p)
        <3> DEFINE row == [RowSeen(p) EXCEPT !.chunks = @ \cup new]
        <3>1. HoldsRow(p) /\ tx[p].row.chunks = {}
            BY <2>4 DEF InsertChunks, HoldsRow, Writing, ProcInv, DocumentInv
        <3>2. row \in Row
            BY <3>1, WrittenRows DEF ProcInv
        <3>3. row.hash = HashOf[cur[p].text] /\ ~row.deleted /\ row.chunks = new
            <4> HIDE DEF new
            <4>1. QED
                BY <1>2, <1>3, <3>1 DEF Row
        <3>4. StoreWrite(p, row) /\ pc'[p] = "commit"
            BY <2>4 DEF InsertChunks, TypeOK
        <3>5. QED
            BY <1>3, <3>1, <3>2, <3>3, <3>4 DEF Writing
    <2>5. QED
        BY <2>1, <2>2, <2>3, <2>4
<1> HIDE DEF new
<1>7. /\ tx' = [tx EXCEPT ![p] = [tx[p] EXCEPT !.row = row]]
      /\ lock' = [lock EXCEPT ![n] = p]
      /\ db' = db
    BY <1>1, <1>6, StoreWriteType DEF ProcInv
<1>8. tx'[p].row = row /\ tx'[p].atomic
    <2>1. tx'[p] = [tx[p] EXCEPT !.row = row] /\ tx[p] \in Transaction
        BY <1>7 DEF TypeOK
    <2>2. QED
        BY <1>2, <2>1 DEF Transaction
<1>9. lock'[n] = p /\ \A k \in Paths \ {n} : lock'[k] = lock[k]
    BY <1>2, <1>7 DEF TypeOK
<1>10. HoldsRow(p)' /\ pc'[p] # "remove"
    BY <1>6 DEF HoldsRow, Writing
<1>11. DocumentInv(p)'
    <2>1. new = ChunksOf(PathOf(p)', cur'[p].text, opts'[p].model)
        BY <1>4, <1>5 DEF new
    <2>2. QED
        BY <1>3, <1>4, <1>5, <1>6, <1>8, <1>9, <1>10, <2>1 DEF DocumentInv, ChunksOf
<1>12. RemovalInv(p)'
    <2>1. doomed[p].held = {}
        BY <1>1 DEF ProcInv, RemovalInv
    <2>2. QED
        BY <1>4, <1>10, <2>1 DEF RemovalInv
<1>13. LockInv(p)'
    <2>1. \A k \in Paths : lock[k] = p => k = n
        BY <1>1 DEF ProcInv, LockInv
    <2>2. QED
        BY <1>5, <1>9, <1>10, <2>1 DEF LockInv
<1>14. QED
    BY <1>11, <1>12, <1>13 DEF ProcInv

LEMMA EndKeeps ==
    ASSUME TypeOK, NEW p \in Procs, ProcInv(p),
           \/ Commit(p) \/ ListDocuments(p) \/ (\E n \in Paths : LockDoomed(p, n))
           \/ Remove(p) \/ Abort(p)
    PROVE  ProcInv(p)'
<1> USE ValueAssumption
<1>1. pc'[p] \in {"walk", "remove", "done", "failed"}
    BY DEF Commit, ListDocuments, LockDoomed, Remove, Abort, TypeOK
<1>2. DocumentInv(p)'
    BY <1>1, BetweenDocuments
<1>3. RemovalInv(p)' /\ LockInv(p)'
    <2>1. CASE Commit(p)
        <3>1. doomed[p].held = {}
            BY <2>1 DEF Commit, ProcInv, RemovalInv
        <3>2. doomed'[p].held = {} /\ pc'[p] = "walk" /\ \A n \in Paths : lock'[n] # p
            BY <2>1, <3>1 DEF Commit, TypeOK
        <3>3. QED
            BY <3>2 DEF RemovalInv, LockInv
    <2>2. CASE ListDocuments(p)
        <3>1. doomed[p].held = {} /\ \A n \in Paths : lock[n] # p
            BY <2>2 DEF ListDocuments, ProcInv, RemovalInv, LockInv, HoldsRow, Writing
        <3>2. doomed'[p] = [doomed[p] EXCEPT !.todo = Stale(p)]
            BY <2>2 DEF ListDocuments, TypeOK
        <3>3. doomed'[p].held = {} /\ doomed'[p].todo = Stale(p)
            BY <3>1, <3>2 DEF TypeOK, Doomed
        <3>4. Stale(p) \cap Met(p) = {}
            BY DEF Stale, Met
        <3>5. Met(p)' = Met(p) /\ lock' = lock
            BY <2>2 DEF ListDocuments, Met
        <3>6. QED
            BY <3>1, <3>3, <3>4, <3>5 DEF RemovalInv, LockInv
    <2>3. ASSUME NEW n \in Paths, LockDoomed(p, n) PROVE RemovalInv(p)' /\ LockInv(p)'
        <3>1. /\ pc' = pc /\ pc[p] = "remove" /\ db' = db /\ Met(p)' = Met(p)
              /\ n \in doomed[p].todo
            BY <2>3 DEF LockDoomed, Met
        <3>2. ~HoldsRow(p)
            BY <3>1 DEF HoldsRow, Writing
        <3>3. /\ \A k \in doomed[p].held : lock[k] = p /\ db[k] # NoRow
              /\ (doomed[p].todo \cup doomed[p].held) \cap Met(p) = {}
              /\ \A k \in Paths : lock[k] = p => k \in doomed[p].held
            BY <3>1, <3>2 DEF ProcInv, RemovalInv, LockInv
        <3>4. CASE db[n] = NoRow
            <4>1. lock' = lock /\ doomed'[p] = [doomed[p] EXCEPT !.todo = doomed[p].todo \ {n}]
                BY <2>3, <3>4 DEF LockDoomed, TypeOK
            <4>2. doomed'[p].held = doomed[p].held /\ doomed'[p].todo \subseteq doomed[p].todo
                BY <4>1 DEF TypeOK, Doomed
            <4>3. QED
                BY <3>1, <3>3, <4>1, <4>2 DEF RemovalInv, LockInv
        <3>5. CASE db[n] # NoRow
            <4>1. /\ lock' = [lock EXCEPT ![n] = p]
                  /\ doomed'[p] = [doomed[p] EXCEPT !.todo = doomed[p].todo \ {n},
                                                    !.held = doomed[p].held \cup {n}]
                BY <2>3, <3>5 DEF LockDoomed, TypeOK
            <4>2. /\ doomed'[p].held = doomed[p].held \cup {n}
                  /\ doomed'[p].todo \subseteq doomed[p].todo
                BY <4>1 DEF TypeOK, Doomed
            <4>3. lock'[n] = p /\ \A k \in Paths \ {n} : lock'[k] = lock[k]
                BY <4>1 DEF TypeOK
            <4>4. doomed[p].held \subseteq Paths
                BY DEF TypeOK, Doomed
            <4>5. QED
                BY <3>1, <3>3, <3>5, <4>2, <4>3, <4>4 DEF RemovalInv, LockInv
        <3>6. QED
            BY <3>4, <3>5
    <2>4. CASE Remove(p) \/ Abort(p)
        <3>1. /\ doomed'[p] = NoDoomed /\ pc'[p] \in {"done", "failed"}
              /\ \A n \in Paths : lock'[n] # p
            BY <2>4 DEF Remove, Abort, TypeOK
        <3>2. doomed'[p].held = {}
            BY <3>1 DEF NoDoomed
        <3>3. QED
            BY <3>1, <3>2 DEF RemovalInv, LockInv
    <2>5. QED
        BY <2>1, <2>2, <2>3, <2>4
<1>4. QED
    BY <1>2, <1>3 DEF ProcInv

LEMMA InitTransaction == Init => TransactionInv
<1> SUFFICES ASSUME Init PROVE TransactionInv
    OBVIOUS
<1>1. OfferedInv
    BY PathsAssumption DEF Init, OfferedInv
<1>2. ASSUME NEW p \in Procs PROVE DocumentInv(p) /\ RemovalInv(p) /\ LockInv(p)
    <2>1. pc[p] = "idle" /\ doomed[p].held = {} /\ \A n \in Paths : lock[n] # p
        BY ValueAssumption DEF Init, NoDoomed
    <2>2. QED
        BY <2>1 DEF DocumentInv, RemovalInv, LockInv, InDocument, HoldsRow, Writing
<1>3. QED
    BY <1>1, <1>2 DEF TransactionInv

LEMMA NextTransaction == TypeOK /\ TransactionInv /\ [Next]_vars => TransactionInv'
<1> SUFFICES ASSUME TypeOK, TransactionInv, [Next]_vars PROVE TransactionInv'
    OBVIOUS
<1> USE PathsAssumption, ValueAssumption
<1>1. OfferedInv /\ \A q \in Procs : ProcInv(q)
    BY DEF TransactionInv, ProcInv
<1>2. SUFFICES OfferedInv' /\ \A q \in Procs : ProcInv(q)'
    BY DEF TransactionInv, ProcInv
<1>3. ASSUME NEW f \in Files, NEW c \in Edited, Edit(f, c)
      PROVE  OfferedInv' /\ \A q \in Procs : ProcInv(q)'
    <2>1. fs' = [fs EXCEPT ![f] = c]
        BY <1>3 DEF Edit
    <2>2. /\ offered'[Norm[f]] = offered[Norm[f]] \cup ({c} \cap Contents)
          /\ \A n \in Paths : offered[n] \subseteq offered'[n]
        BY <1>3 DEF Edit, TypeOK
    <2>3. OfferedInv'
        BY <1>1, <2>1, <2>2 DEF OfferedInv, TypeOK
    <2>4. ASSUME NEW q \in Procs PROVE Frame(q)
        BY <1>3, <2>2 DEF Edit, Frame
    <2>5. QED
        BY <1>1, <2>3, <2>4, Undisturbed
<1>4. ASSUME NEW p \in Procs, NEW asked \in BOOLEAN, NEW m \in Models, NEW s \in SymbolModes,
             Start(p, asked, m, s)
      PROVE  OfferedInv' /\ \A q \in Procs : ProcInv(q)'
    <2>1. OfferedInv'
        BY <1>1, <1>4 DEF OfferedInv, Start
    <2>2. ASSUME NEW q \in Procs, q # p PROVE ProcInv(q)'
        <3>1. Frame(q)
            BY <1>4, <2>2 DEF Start, Frame, TypeOK
        <3>2. QED
            BY <1>1, <3>1, Undisturbed
    <2>3. ProcInv(p)'
        <3>1. pc[p] \in {"idle", "done", "failed"}
            BY <1>4 DEF Start, Ended
        <3>2. doomed[p].held = {} /\ \A n \in Paths : lock[n] # p
            BY <1>1, <3>1 DEF ProcInv, RemovalInv, LockInv, HoldsRow, Writing
        <3>3. pc'[p] = "walk" /\ UNCHANGED <<doomed, lock>>
            BY <1>4 DEF Start, TypeOK
        <3>4. QED
            BY <3>2, <3>3, BetweenDocuments DEF ProcInv, RemovalInv, LockInv
    <2>4. QED
        BY <2>1, <2>2, <2>3
<1>5. ASSUME NEW p \in Procs, Step(p) \/ Abort(p)
      PROVE  OfferedInv' /\ \A q \in Procs : ProcInv(q)'
    <2>1. fs' = fs /\ offered' = offered
        BY <1>5 DEF Step, WriteDocument, DetectDeadlock, ListDirectory, ReadFile, CheckDocument,
             Prepare, Upsert, DeleteChunks, ReplaceSymbols, InsertChunks, Commit,
             ListDocuments, LockDoomed, Remove, Abort
    <2>2. OfferedInv'
        BY <1>1, <2>1 DEF OfferedInv
    <2>3. ASSUME NEW q \in Procs, q # p PROVE ProcInv(q)'
        BY <1>1, <1>5, <2>3, StepFrames, Undisturbed
    <2>4. ProcInv(p)'
        BY <1>1, <1>5, WalkKeeps, WriteKeeps, EndKeeps DEF Step, WriteDocument, DetectDeadlock
    <2>5. QED
        BY <2>2, <2>3, <2>4
<1>6. CASE UNCHANGED vars
    <2>1. OfferedInv'
        BY <1>1, <1>6 DEF OfferedInv, vars
    <2>2. ASSUME NEW q \in Procs PROVE Frame(q)
        BY <1>6 DEF Frame, vars
    <2>3. QED
        BY <1>1, <2>1, <2>2, Undisturbed
<1>7. QED
    BY <1>3, <1>4, <1>5, <1>6 DEF Next

-----------------------------------------------------------------------------
(* What a step does to the committed index *)

StoreMethod(p) == Upsert(p) \/ DeleteChunks(p) \/ ReplaceSymbols(p) \/ InsertChunks(p)

\* Only Commit and Remove change the index: Commit publishes the text its run
\* has read, whole, for one path; Remove marks or drops the rows it holds.
LEMMA IndexSteps ==
    ASSUME TypeOK, TransactionInv, [Next]_vars
    PROVE  \/ db' = db
           \/ \E p \in Procs :
                 /\ Commit(p)
                 /\ PathOf(p) \in Paths
                 /\ cur[p].text \in offered[PathOf(p)] \cap Contents
                 /\ tx[p].row \in Row /\ ~tx[p].row.deleted
                 /\ tx[p].row.hash = HashOf[cur[p].text]
                 /\ opts[p].model \in Models
                 /\ tx[p].row.chunks = ChunksOf(PathOf(p), cur[p].text, opts[p].model)
                 /\ db' = [db EXCEPT ![PathOf(p)] = tx[p].row]
           \/ \E p \in Procs :
                 /\ Remove(p)
                 /\ \A n \in doomed[p].held : db[n] # NoRow
<1>1. ASSUME NEW p \in Procs PROVE DocumentInv(p) /\ RemovalInv(p) /\ ProcInv(p)
    BY DEF TransactionInv, ProcInv
<1>2. ASSUME NEW p \in Procs, Commit(p)
      PROVE  /\ PathOf(p) \in Paths
             /\ cur[p].text \in offered[PathOf(p)] \cap Contents
             /\ tx[p].row \in Row /\ ~tx[p].row.deleted
             /\ tx[p].row.hash = HashOf[cur[p].text]
             /\ opts[p].model \in Models
             /\ tx[p].row.chunks = ChunksOf(PathOf(p), cur[p].text, opts[p].model)
             /\ db' = [db EXCEPT ![PathOf(p)] = tx[p].row]
    <2>1. pc[p] = "commit" /\ pc[p] \in Writing /\ HoldsRow(p) /\ InDocument(p)
        BY <1>2 DEF Commit, Writing, HoldsRow, InDocument
    <2>2. /\ PathOf(p) \in Paths /\ cur[p].text \in Contents /\ opts[p].model \in Models
          /\ RowSeen(p) = tx[p].row /\ RowSeen(p) \in Row
        BY <1>1, <2>1, RowType
    <2>3. db' = [db EXCEPT ![PathOf(p)] = tx[p].row]
        BY <1>2, <2>2 DEF Commit
    <2>4. QED
        BY <1>1, <2>1, <2>2, <2>3 DEF DocumentInv
<1>3. ASSUME NEW p \in Procs, StoreMethod(p) PROVE db' = db
    <2>1. pc[p] \in Writing
        BY <1>3 DEF StoreMethod, Upsert, DeleteChunks, ReplaceSymbols, InsertChunks, Writing
    <2>2. tx[p].atomic
        BY <1>1, <2>1 DEF DocumentInv
    <2>3. QED
        BY <1>3, <2>2 DEF StoreMethod, Upsert, DeleteChunks, ReplaceSymbols, InsertChunks, StoreWrite
<1>4. ASSUME NEW p \in Procs, Step(p) \/ Abort(p), ~Commit(p), ~Remove(p) PROVE db' = db
    BY <1>3, <1>4 DEF Step, WriteDocument, DetectDeadlock, StoreMethod, ListDirectory, ReadFile,
       CheckDocument, Prepare, ListDocuments, LockDoomed, Abort
<1>5. CASE \E f \in Files, c \in Edited : Edit(f, c)
    BY <1>5 DEF Edit
<1>6. CASE \E p \in Procs, asked \in BOOLEAN, m \in Models, s \in SymbolModes : Start(p, asked, m, s)
    BY <1>6 DEF Start
<1>7. CASE UNCHANGED vars
    BY <1>7 DEF vars
<1>8. ASSUME NEW p \in Procs, Remove(p) PROVE \A n \in doomed[p].held : db[n] # NoRow
    BY <1>1 DEF RemovalInv
<1>9. QED
    BY <1>2, <1>4, <1>5, <1>6, <1>7, <1>8 DEF Next

\* What Remove makes of one path.
LEMMA RemovedRows ==
    ASSUME TypeOK, NEW p \in Procs, Remove(p), NEW n \in Paths
    PROVE  /\ n \notin doomed[p].held => db'[n] = db[n]
           /\ n \in doomed[p].held /\ db[n] # NoRow /\ db'[n] # NoRow =>
                 /\ db'[n].hash = db[n].hash /\ db'[n].chunks = db[n].chunks
                 /\ db'[n].deleted
<1>1. db'[n] = IF n \in doomed[p].held THEN Removed(p, db[n]) ELSE db[n]
    BY DEF Remove
<1>2. db[n] # NoRow => db[n] \in Row
    BY DEF TypeOK
<1>3. QED
    BY <1>1, <1>2 DEF Removed, Row

LEMMA NextWhole ==
    TypeOK /\ TransactionInv /\ NoTornDocument /\ [Next]_vars => NoTornDocument'
<1> SUFFICES ASSUME TypeOK, TransactionInv, NoTornDocument, [Next]_vars,
                    NEW n \in Paths, db'[n] # NoRow
             PROVE  Whole(n, db'[n])
    BY DEF NoTornDocument, Whole, ChunksOf
<1>1. CASE db' = db
    BY <1>1 DEF NoTornDocument
<1>2. ASSUME NEW p \in Procs,
             PathOf(p) \in Paths, cur[p].text \in Contents, opts[p].model \in Models,
             tx[p].row.hash = HashOf[cur[p].text],
             tx[p].row.chunks = ChunksOf(PathOf(p), cur[p].text, opts[p].model),
             db' = [db EXCEPT ![PathOf(p)] = tx[p].row]
      PROVE  Whole(n, db'[n])
    <2>1. CASE n = PathOf(p)
        <3>1. db'[n] = tx[p].row
            BY <1>2, <2>1 DEF TypeOK
        <3>2. QED
            BY <1>2, <2>1, <3>1 DEF Whole
    <2>2. CASE n # PathOf(p)
        BY <1>2, <2>2 DEF TypeOK, NoTornDocument
    <2>3. QED
        BY <2>1, <2>2
<1>3. ASSUME NEW p \in Procs, Remove(p), \A k \in doomed[p].held : db[k] # NoRow
      PROVE  Whole(n, db'[n])
    <2>1. db[n] # NoRow /\ db'[n].hash = db[n].hash /\ db'[n].chunks = db[n].chunks
        BY <1>3, RemovedRows
    <2>2. Whole(n, db[n])
        BY <2>1 DEF NoTornDocument
    <2>3. QED
        BY <2>1, <2>2 DEF Whole
<1>4. QED
    BY <1>1, <1>2, <1>3, IndexSteps

-----------------------------------------------------------------------------
(* What a step does to the answers *)

Cause(n) ==
    \E p \in Procs :
        \/ pc[p] = "commit" /\ PathOf(p) = n /\ cur[p].text \in Blank
        \/ pc[p] = "remove" /\ pc'[p] = "done" /\ n \notin Met(p)

LEMMA StepCause ==
    ASSUME TypeOK, TransactionInv, [Next]_vars,
           NEW n \in Paths, Answers(n) # {}, Answers(n)' = {}
    PROVE  Cause(n)
<1>1. db[n] # NoRow /\ ~db[n].deleted /\ db[n].chunks # {}
    BY DEF Answers
<1>2. db'[n] = NoRow \/ db'[n].deleted \/ db'[n].chunks = {}
    BY DEF Answers
<1>3. db'[n] # db[n]
    BY <1>1, <1>2
<1>4. ASSUME NEW p \in Procs, Commit(p), PathOf(p) \in Paths,
             tx[p].row \in Row, ~tx[p].row.deleted,
             tx[p].row.chunks = ChunksOf(PathOf(p), cur[p].text, opts[p].model),
             db' = [db EXCEPT ![PathOf(p)] = tx[p].row]
      PROVE  Cause(n)
    <2>1. PathOf(p) = n /\ db'[n] = tx[p].row
        BY <1>3, <1>4 DEF TypeOK
    <2>2. ChunksOf(n, cur[p].text, opts[p].model) = {}
        BY <1>2, <1>4, <2>1, NoRowAssumption
    <2>3. cur[p].text \in Blank
        BY <2>2 DEF ChunksOf
    <2>4. pc[p] = "commit"
        BY <1>4 DEF Commit
    <2>5. QED
        BY <2>1, <2>3, <2>4 DEF Cause
<1>5. ASSUME NEW p \in Procs, Remove(p) PROVE Cause(n)
    <2>1. n \in doomed[p].held
        BY <1>3, <1>5, RemovedRows
    <2>2. pc[p] = "remove" /\ pc'[p] = "done"
        BY <1>5 DEF Remove, TypeOK
    <2>3. n \notin Met(p)
        BY <2>1, <2>2 DEF TransactionInv, RemovalInv
    <2>4. QED
        BY <2>2, <2>3 DEF Cause
<1>6. QED
    BY <1>3, <1>4, <1>5, IndexSteps

-----------------------------------------------------------------------------
(* Refinement *)

LEMMA InitRefines == Init => Index!Init
<1> SUFFICES ASSUME Init PROVE Index!Init
    OBVIOUS
<1>1. offered \in [Paths -> SUBSET Contents]
    BY InitType DEF TypeOK
<1>2. [n \in Paths |-> Answers(n)] = [n \in Paths |-> {}]
    BY DEF Init, Answers
<1>3. QED
    BY <1>1, <1>2 DEF Index!Init

LEMMA StepRefines ==
    ASSUME TypeOK, TransactionInv, [Next]_vars
    PROVE  [Index!Next]_<<offered, [n \in Paths |-> Answers(n)]>>
<1> DEFINE index == [n \in Paths |-> Answers(n)]
<1> USE PathsAssumption
<1>1. CASE \E f \in Files, c \in Edited : Edit(f, c)
    <2>1. PICK f \in Files, c \in Edited : Edit(f, c)
        BY <1>1
    <2>2. index' = index
        BY <2>1 DEF Edit, Answers
    <2>3. offered' = [offered EXCEPT ![Norm[f]] = offered[Norm[f]] \cup ({c} \cap Contents)]
        BY <2>1 DEF Edit
    <2>4. CASE c \in Contents
        <3>1. offered' = [offered EXCEPT ![Norm[f]] = offered[Norm[f]] \cup {c}]
            BY <2>3, <2>4
        <3>2. QED
            BY <2>2, <2>4, <3>1 DEF Index!Next, Index!Offer
    <2>5. CASE c \notin Contents
        <3>1. offered' = offered
            BY <2>3, <2>5 DEF TypeOK
        <3>2. QED
            BY <2>2, <3>1
    <2>6. QED
        BY <2>4, <2>5
<1>2. CASE ~\E f \in Files, c \in Edited : Edit(f, c)
    <2>1. offered' = offered
        BY <1>2 DEF Next, vars, Start, Step, WriteDocument, DetectDeadlock, ListDirectory, ReadFile,
           CheckDocument, Prepare, Upsert, DeleteChunks, ReplaceSymbols, InsertChunks, Commit,
           ListDocuments, LockDoomed, Remove, Abort
    <2>2. CASE db' = db
        BY <2>1, <2>2 DEF Answers
    <2>3. ASSUME NEW p \in Procs, PathOf(p) \in Paths,
                 cur[p].text \in offered[PathOf(p)] \cap Contents,
                 tx[p].row \in Row, ~tx[p].row.deleted,
                 opts[p].model \in Models,
                 tx[p].row.chunks = ChunksOf(PathOf(p), cur[p].text, opts[p].model),
                 db' = [db EXCEPT ![PathOf(p)] = tx[p].row]
          PROVE  [Index!Next]_<<offered, index>>
        <3> DEFINE k == PathOf(p)
                   new == ChunksOf(k, cur[p].text, opts[p].model)
        <3>1. \A n \in Paths : Answers(n)' = IF n = k THEN new ELSE Answers(n)
            BY <2>3, NoRowAssumption DEF Answers, TypeOK
        <3>2. CASE new = {}
            <4>1. index' = [n \in Paths |-> IF n \in {k} THEN {} ELSE index[n]]
                BY <3>1, <3>2
            <4>2. {k} \in SUBSET Paths
                BY <2>3
            <4>3. QED
                BY <2>1, <4>1, <4>2 DEF Index!Next, Index!Withdraw
        <3>3. CASE new # {}
            <4>1. new = {[text |-> cur[p].text, model |-> opts[p].model]}
                BY <3>3 DEF ChunksOf
            <4>2. index' = [index EXCEPT ![k] = {[text |-> cur[p].text, model |-> opts[p].model]}]
                BY <3>1, <4>1
            <4>3. QED
                BY <2>1, <2>3, <4>2 DEF Index!Next, Index!Publish
        <3>4. QED
            BY <3>2, <3>3
    <2>4. ASSUME NEW p \in Procs, Remove(p), \A n \in doomed[p].held : db[n] # NoRow
          PROVE  [Index!Next]_<<offered, index>>
        <3> DEFINE S == doomed[p].held
        <3>1. S \in SUBSET Paths
            BY DEF TypeOK, Doomed
        <3>2. \A n \in Paths : Answers(n)' = IF n \in S THEN {} ELSE Answers(n)
            BY <2>4, RemovedRows DEF Answers
        <3>3. index' = [n \in Paths |-> IF n \in S THEN {} ELSE index[n]]
            BY <3>2
        <3>4. QED
            BY <2>1, <3>1, <3>3 DEF Index!Next, Index!Withdraw
    <2>5. QED
        BY <2>2, <2>3, <2>4, IndexSteps
<1>3. QED
    BY <1>1, <1>2

-----------------------------------------------------------------------------
(* Theorems *)

\* The inductive invariant.
IInv == TypeOK /\ TransactionInv /\ NoTornDocument

\* Every reachable state of any number of runs over any tree has it: the
\* transaction discipline of atomic() and of the final delete.
THEOREM Inductive == Spec => []IInv
<1>1. Init => IInv
    BY InitType, InitTransaction DEF Init, IInv, NoTornDocument
<1>2. IInv /\ [Next]_vars => IInv'
    BY NextType, NextTransaction, NextWhole DEF IInv
<1>3. QED
    BY <1>1, <1>2, PTL DEF Spec

\* Every variable keeps its type.
THEOREM TypeCorrect == Spec => []TypeOK
<1>1. IInv => TypeOK
    BY DEF IInv
<1>2. QED
    BY <1>1, Inductive, PTL

\* Whoever runs, edits or dies, a run that writes a document holds its row
\* alone and will publish exactly what it has read.
THEOREM Disciplined == Spec => []TransactionInv
<1>1. IInv => TransactionInv
    BY DEF IInv
<1>2. QED
    BY <1>1, Inductive, PTL

\* Readers never observe a document whose old chunks are gone but whose new
\* chunks are not yet visible (the promise of the comment in ingest.py).
THEOREM NeverTorn == Spec => []NoTornDocument
<1>1. IInv => NoTornDocument
    BY DEF IInv
<1>2. QED
    BY <1>1, Inductive, PTL

\* A document stops answering only for a blank text or at the end of a run
\* that has not met it, for runs that overlap in any way.
THEOREM VanishesForCause == Spec => VanishesOnlyForCause
<1>1. IInv /\ [Next]_vars =>
        [\A n \in Paths : Answers(n) # {} /\ Answers(n)' = {} =>
           \E p \in Procs :
              \/ pc[p] = "commit" /\ PathOf(p) = n /\ cur[p].text \in Blank
              \/ /\ pc[p] = "remove" /\ pc'[p] = "done"
                 /\ n \notin Met(p)]_vars
    BY StepCause DEF IInv, Cause
<1>2. QED
    BY <1>1, Inductive, PTL DEF Spec, VanishesOnlyForCause

\* Concurrent, failing, overlapping runs implement the abstract index: every
\* step replaces one document by one whole text its files have held,
\* withdraws documents, or changes nothing readers see.
THEOREM Refinement == Spec => ImplementsSearchIndex
<1>1. IInv /\ [Next]_vars => [Index!Next]_<<offered, [n \in Paths |-> Answers(n)]>>
    BY StepRefines DEF IInv
<1>2. QED
    BY <1>1, InitRefines, Inductive, PTL DEF Spec, ImplementsSearchIndex, Index!Spec

-----------------------------------------------------------------------------
(* A run that has the tree and the index to itself *)

\* The files that exist and that p's walk has come past.
Passed(p) ==
    {f \in Files : fs[f] # Missing /\ DirOf[f] \notin scan[p].dirs /\ f \notin scan[p].files}

\* The row of path n is what p's run makes of a text that the tree holds.
Settled(p, n) ==
    /\ db[n] # NoRow /\ ~db[n].deleted
    /\ \E c \in TextsOf(n) :
          IF opts[p].incremental
          THEN db[n].hash = HashOf[c]
          ELSE /\ db[n].chunks = ChunksOf(n, c, opts[p].model)
               /\ db[n].chunks = {} \/ n \in scan[p].indexed

Walking(p) == pc[p] = "walk" \/ InDocument(p)

\* While p walks: whatever its walk has come past is settled, but for the
\* file in hand, and seen_paths and indexed_paths tell no more than that.
WalkInv(p) ==
    /\ \A f \in scan[p].files : fs[f] # Missing /\ DirOf[f] \notin scan[p].dirs
    /\ scan[p].seen = {Norm[f] : f \in Passed(p)}
    /\ InDocument(p) => cur[p].file \in Passed(p) /\ cur[p].text = fs[cur[p].file]
    /\ \A f \in Passed(p) : fs[f] \in Contents =>
          (InDocument(p) /\ f = cur[p].file) \/ Settled(p, Norm[f])
    /\ ~opts[p].incremental => \A n \in scan[p].indexed : TextsOf(n) # {}

\* What p's run promises of path n, and the paths of which it is true once
\* the removal has had them.
Right(p, n) == IF opts[p].incremental THEN UpToDate(n) ELSE Reindexed(n, opts[p].model)
Removable(p, n) ==
    \/ TextsOf(n) = {}
    \/ ~opts[p].incremental /\ \E c \in TextsOf(n) : ChunksOf(n, c, opts[p].model) = {}

QuietInv(p) ==
    /\ \A q \in Procs : q # p => pc[q] \notin Active
    /\ pc[p] # "idle"
    /\ Walking(p) => WalkInv(p)
    /\ pc[p] = "remove" => \A n \in Paths :
          IF n \in doomed[p].todo \cup doomed[p].held THEN Removable(p, n) ELSE Right(p, n)
    /\ pc[p] = "done" => \A n \in Paths : Right(p, n)

AllQuietInv == \A p \in Procs : quiet[p] => QuietInv(p)

\* A path whose answers the removal has taken away is right.
LEMMA RightWithoutRow ==
    ASSUME TypeOK, NEW p \in Procs, NEW n \in Paths, Removable(p, n),
           db[n] = NoRow \/ (opts[p].incremental /\ db[n].deleted)
    PROVE  Right(p, n)
<1>1. Answers(n) = {}
    BY DEF Answers, TypeOK
<1>2. CASE opts[p].incremental
    <2>1. TextsOf(n) = {}
        BY <1>2 DEF Removable
    <2>2. QED
        BY <1>1, <1>2, <2>1 DEF Right, UpToDate
<1>3. CASE ~opts[p].incremental
    <2>1. db[n] = NoRow
        BY <1>3
    <2>2. TextsOf(n) # {} => \E c \in TextsOf(n) : ChunksOf(n, c, opts[p].model) = {}
        BY <1>3 DEF Removable
    <2>3. QED
        BY <1>1, <1>3, <2>1, <2>2 DEF Right, Reindexed
<1>4. QED
    BY <1>2, <1>3

LEMMA TextOfPath ==
    ASSUME TypeOK, NEW f \in Files, fs[f] \in Contents
    PROVE  fs[f] \in TextsOf(Norm[f]) /\ Norm[f] \in Paths
BY PathsAssumption DEF TextsOf, FilesOf

\* When the walk is over, the removal is left with what is not right.
LEMMA WalkIsOver ==
    ASSUME IInv, NEW p \in Procs, WalkInv(p), ~InDocument(p),
           scan[p].dirs = {}, scan[p].files = {}, NEW n \in Paths
    PROVE  IF n \in Stale(p) THEN Removable(p, n) ELSE Right(p, n)
<1> USE PathsAssumption, TextAssumption, ValueAssumption
<1>1. Passed(p) = {f \in Files : fs[f] # Missing}
    BY DEF Passed
<1>2. TextsOf(n) # {} => Settled(p, n) /\ n \in scan[p].seen
    <2>1. SUFFICES ASSUME NEW f \in FilesOf(n), fs[f] \in Contents
                   PROVE  Settled(p, n) /\ n \in scan[p].seen
        BY DEF TextsOf
    <2>2. f \in Passed(p) /\ Norm[f] = n
        BY <1>1, <2>1 DEF FilesOf
    <2>3. QED
        BY <2>1, <2>2 DEF WalkInv
<1>3. CASE opts[p].incremental
    <2>1. CASE n \in Stale(p)
        BY <1>2, <1>3, <2>1 DEF Stale, Removable
    <2>2. CASE n \notin Stale(p)
        <3>1. Gone(n) => Answers(n) = {}
            <4>1. Gone(n) => n \notin scan[p].seen
                BY <1>1 DEF WalkInv, Gone, FilesOf
            <4>2. QED
                BY <1>3, <2>2, <4>1 DEF Stale, Answers
        <3>2. ASSUME TextsOf(n) # {}
              PROVE  \E c \in TextsOf(n), d \in Contents, m \in Models :
                        HashOf[d] = HashOf[c] /\ Answers(n) = ChunksOf(n, d, m)
            <4>1. PICK c \in TextsOf(n) : db[n].hash = HashOf[c]
                BY <1>2, <1>3, <3>2 DEF Settled
            <4>2. db[n] # NoRow /\ ~db[n].deleted
                BY <1>2, <3>2 DEF Settled
            <4>3. PICK d \in Contents, m \in Models :
                        HashOf[d] = db[n].hash /\ db[n].chunks = ChunksOf(n, d, m)
                BY <4>2 DEF IInv, NoTornDocument, Whole
            <4>4. Answers(n) = db[n].chunks
                BY <4>2 DEF Answers
            <4>5. QED
                BY <4>1, <4>3, <4>4
        <3>3. QED
            BY <1>3, <2>2, <3>1, <3>2 DEF Right, UpToDate
    <2>3. QED
        BY <2>1, <2>2
<1>4. CASE ~opts[p].incremental
    <2>1. ASSUME TextsOf(n) # {}
          PROVE  /\ db[n] # NoRow
                 /\ \E c \in TextsOf(n) : Answers(n) = ChunksOf(n, c, opts[p].model)
                 /\ Answers(n) = {} \/ n \in scan[p].indexed
        BY <1>2, <1>4, <2>1 DEF Settled, Answers
    <2>2. CASE n \in Stale(p)
        BY <1>4, <2>1, <2>2 DEF Stale, Removable
    <2>3. CASE n \notin Stale(p)
        <3>1. TextsOf(n) = {} => db[n] = NoRow
            BY <1>4, <2>3 DEF Stale, WalkInv
        <3>2. QED
            BY <1>4, <2>1, <2>3, <3>1 DEF Right, Reindexed
    <2>4. QED
        BY <2>2, <2>3
<1>5. QED
    BY <1>3, <1>4

\* What the promises are about when neither the tree nor the index of a path
\* nor the arguments of the run change.
LEMMA SameRow ==
    ASSUME TypeOK, NEW p \in Procs, NEW n \in Paths,
           fs' = fs, opts'[p] = opts[p], db'[n] = db[n]
    PROVE  /\ Right(p, n) => Right(p, n)'
           /\ Removable(p, n) => Removable(p, n)'
           /\ Settled(p, n) /\ scan[p].indexed \subseteq scan'[p].indexed => Settled(p, n)'
<1>1. TextsOf(n)' = TextsOf(n) /\ (Gone(n)' <=> Gone(n)) /\ Answers(n)' = Answers(n)
    BY DEF TextsOf, FilesOf, Gone, Answers
<1>2. Right(p, n) => Right(p, n)'
    BY <1>1 DEF Right, UpToDate, Reindexed, ChunksOf
<1>3. Removable(p, n) => Removable(p, n)'
    BY <1>1 DEF Removable, ChunksOf
<1>4. Settled(p, n) /\ scan[p].indexed \subseteq scan'[p].indexed => Settled(p, n)'
    BY <1>1 DEF Settled, ChunksOf
<1>5. QED
    BY <1>2, <1>3, <1>4

\* A step that leaves the tree and the arguments alone, moves no file past
\* the walk and unsettles no path keeps the walk in order.
LEMMA WalkGoesOn ==
    ASSUME IInv, NEW p \in Procs, WalkInv(p), fs' = fs, opts'[p] = opts[p],
           scan'[p].dirs = scan[p].dirs, scan'[p].files = scan[p].files,
           scan'[p].seen = scan[p].seen,
           scan[p].indexed \subseteq scan'[p].indexed,
           \A n \in scan'[p].indexed : n \in scan[p].indexed \/ TextsOf(n) # {},
           \A n \in Paths : Settled(p, n) => Settled(p, n)',
           InDocument(p)' => InDocument(p) /\ cur'[p].file = cur[p].file /\ cur'[p].text = cur[p].text,
           InDocument(p) => InDocument(p)' \/ \A n \in Paths : n = PathOf(p) => Settled(p, n)'
    PROVE  WalkInv(p)'
<1> USE PathsAssumption
<1>1. Passed(p)' = Passed(p)
    BY DEF Passed
<1>2. \A n \in Paths : TextsOf(n)' = TextsOf(n)
    BY DEF TextsOf, FilesOf
<1>3. ASSUME NEW f \in Passed(p), fs[f] \in Contents
      PROVE  (InDocument(p)' /\ f = cur'[p].file) \/ Settled(p, Norm[f])'
    <2>1. f \in Files /\ Norm[f] \in Paths
        BY DEF Passed
    <2>2. (InDocument(p) /\ f = cur[p].file) \/ Settled(p, Norm[f])
        BY <1>3 DEF WalkInv
    <2>3. CASE InDocument(p) /\ f = cur[p].file
        BY <2>1, <2>3 DEF PathOf
    <2>4. CASE Settled(p, Norm[f])
        BY <2>1, <2>4
    <2>5. QED
        BY <2>2, <2>3, <2>4
<1>4. ~opts'[p].incremental => \A n \in scan'[p].indexed : TextsOf(n)' # {}
    <2>1. \A n \in scan'[p].indexed : TextsOf(n)' = TextsOf(n)
        BY DEF TextsOf, FilesOf
    <2>2. QED
        BY <2>1 DEF WalkInv
<1>5. /\ \A f \in scan'[p].files : fs'[f] # Missing /\ DirOf[f] \notin scan'[p].dirs
      /\ scan'[p].seen = {Norm[f] : f \in Passed(p)}
      /\ InDocument(p)' => cur'[p].file \in Passed(p) /\ cur'[p].text = fs'[cur'[p].file]
    BY DEF WalkInv
<1>6. QED
    BY <1>1, <1>3, <1>4, <1>5 DEF WalkInv

\* The first step of a run, when nobody else is active.
LEMMA StartsInOrder ==
    ASSUME TypeOK, NEW p \in Procs, pc'[p] = "walk", scan'[p] = [NoScan EXCEPT !.dirs = Dirs]
    PROVE  Walking(p)' /\ WalkInv(p)'
<1>1. /\ scan'[p].dirs = Dirs /\ scan'[p].files = {} /\ scan'[p].seen = {} /\ scan'[p].indexed = {}
    BY DEF NoScan
<1>2. Passed(p)' = {}
    BY <1>1, PathsAssumption DEF Passed
<1>3. ~InDocument(p)'
    BY DEF InDocument, Writing
<1>4. QED
    BY <1>1, <1>2, <1>3 DEF WalkInv, Walking

LEMMA ListKeepsOrder ==
    ASSUME IInv, NEW p \in Procs, WalkInv(p), NEW d \in Dirs, ListDirectory(p, d)
    PROVE  WalkInv(p)'
<1> DEFINE listed == {f \in Files : DirOf[f] = d /\ fs[f] # Missing}
<1> USE PathsAssumption
<1>1. /\ scan'[p] = [scan[p] EXCEPT !.dirs = scan[p].dirs \ {d}, !.files = listed]
      /\ scan[p].files = {} /\ d \in scan[p].dirs /\ pc[p] = "walk"
      /\ UNCHANGED <<fs, db, pc, opts, cur>>
    BY DEF ListDirectory, IInv, TypeOK
<1>2. /\ scan'[p].dirs = scan[p].dirs \ {d} /\ scan'[p].files = listed
      /\ scan'[p].seen = scan[p].seen /\ scan'[p].indexed = scan[p].indexed
    BY <1>1 DEF IInv, TypeOK, Scan
<1>3. Passed(p)' = Passed(p)
    BY <1>1, <1>2 DEF Passed
<1>4. ~InDocument(p) /\ ~InDocument(p)'
    BY <1>1 DEF InDocument, Writing
<1>5. ASSUME NEW f \in Passed(p), fs[f] \in Contents PROVE Settled(p, Norm[f])'
    <2>1. f \in Files /\ Norm[f] \in Paths /\ Settled(p, Norm[f])
        BY <1>4, <1>5 DEF WalkInv, Passed
    <2>2. QED
        BY <1>1, <1>2, <2>1, SameRow DEF IInv
<1>6. \A n \in scan[p].indexed : TextsOf(n)' = TextsOf(n)
    BY <1>1 DEF TextsOf, FilesOf
<1>7. \A f \in scan'[p].files : fs'[f] # Missing /\ DirOf[f] \notin scan'[p].dirs
    BY <1>1, <1>2
<1>8. QED
    BY <1>1, <1>2, <1>3, <1>4, <1>5, <1>6, <1>7 DEF WalkInv

LEMMA ReadKeepsOrder ==
    ASSUME IInv, NEW p \in Procs, WalkInv(p), NEW f \in Files, ReadFile(p, f)
    PROVE  WalkInv(p)'
<1> USE PathsAssumption, ValueAssumption
<1>1. /\ scan'[p] = [scan[p] EXCEPT !.files = scan[p].files \ {f},
                                    !.seen = scan[p].seen \cup {Norm[f]}]
      /\ f \in scan[p].files /\ pc[p] = "walk"
      /\ UNCHANGED <<fs, db, opts>>
    BY DEF ReadFile, IInv, TypeOK
<1>2. /\ scan'[p].dirs = scan[p].dirs /\ scan'[p].files = scan[p].files \ {f}
      /\ scan'[p].seen = scan[p].seen \cup {Norm[f]} /\ scan'[p].indexed = scan[p].indexed
    BY <1>1 DEF IInv, TypeOK, Scan
<1>3. Passed(p)' = Passed(p) \cup {f}
    BY <1>1, <1>2 DEF Passed, WalkInv
<1>4. ~InDocument(p)
    BY <1>1 DEF InDocument, Writing
<1>5. ASSUME NEW g \in Passed(p), fs[g] \in Contents PROVE Settled(p, Norm[g])'
    <2>1. g \in Files /\ Norm[g] \in Paths /\ Settled(p, Norm[g])
        BY <1>4, <1>5 DEF WalkInv, Passed
    <2>2. QED
        BY <1>1, <1>2, <2>1, SameRow DEF IInv
<1>6. /\ InDocument(p)' => cur'[p].file = f /\ cur'[p].text = fs[f]
      /\ fs[f] \in Contents => InDocument(p)' /\ cur'[p].file = f
    <2>1. CASE fs[f] \in Contents
        <3>1. cur'[p] = [NoCur EXCEPT !.file = f, !.text = fs[f]] /\ pc'[p] = "check"
            BY <2>1 DEF ReadFile, IInv, TypeOK
        <3>2. cur'[p].file = f /\ cur'[p].text = fs[f]
            BY <3>1 DEF NoCur
        <3>3. QED
            BY <3>1, <3>2 DEF InDocument
    <2>2. CASE fs[f] \notin Contents
        <3>1. pc'[p] = "walk"
            BY <1>1, <2>2 DEF ReadFile
        <3>2. QED
            BY <2>2, <3>1 DEF InDocument, Writing
    <2>3. QED
        BY <2>1, <2>2
<1>7. scan'[p].seen = {Norm[g] : g \in Passed(p) \cup {f}}
    BY <1>2 DEF WalkInv
<1>8. \A g \in scan'[p].files : fs'[g] # Missing /\ DirOf[g] \notin scan'[p].dirs
    BY <1>1, <1>2 DEF WalkInv
<1>9. \A n \in scan[p].indexed : TextsOf(n)' = TextsOf(n)
    BY <1>1 DEF TextsOf, FilesOf
<1>10. \A g \in Passed(p) \cup {f} : fs'[g] \in Contents =>
          (InDocument(p)' /\ g = cur'[p].file) \/ Settled(p, Norm[g])'
    BY <1>1, <1>5, <1>6
<1>11. ~opts'[p].incremental => \A n \in scan'[p].indexed : TextsOf(n)' # {}
    BY <1>1, <1>2, <1>9 DEF WalkInv
<1>12. QED
    BY <1>1, <1>3, <1>6, <1>7, <1>8, <1>10, <1>11 DEF WalkInv

LEMMA DocumentInHand ==
    ASSUME IInv, NEW p \in Procs, InDocument(p), WalkInv(p)
    PROVE  /\ cur[p].file \in Files /\ PathOf(p) \in Paths
           /\ cur[p].text \in TextsOf(PathOf(p)) /\ cur[p].text \in Contents
<1>1. cur[p].file \in Files /\ cur[p].text \in offered[PathOf(p)]
    BY DEF IInv, TransactionInv, DocumentInv
<1>2. PathOf(p) \in Paths
    BY <1>1, PathsAssumption DEF PathOf
<1>3. cur[p].text = fs[cur[p].file] /\ cur[p].text \in Contents
    BY <1>1, <1>2 DEF WalkInv, IInv, TypeOK
<1>4. QED
    BY <1>1, <1>2, <1>3, TextOfPath DEF IInv, PathOf

LEMMA CheckKeepsOrder ==
    ASSUME IInv, NEW p \in Procs, WalkInv(p), CheckDocument(p)
    PROVE  WalkInv(p)'
<1> USE PathsAssumption, ValueAssumption
<1>1. InDocument(p) /\ UNCHANGED <<fs, db, opts>>
    BY DEF CheckDocument, InDocument
<1>2. cur[p].file \in Files /\ PathOf(p) \in Paths /\ cur[p].text \in TextsOf(PathOf(p))
    BY <1>1, DocumentInHand
<1>3. CASE Unchanged(p)
    <2>1. /\ scan'[p] = [scan[p] EXCEPT !.indexed = scan[p].indexed \cup {PathOf(p)}]
          /\ pc'[p] = "walk"
        BY <1>3 DEF CheckDocument, IInv, TypeOK
    <2>2. /\ scan'[p].dirs = scan[p].dirs /\ scan'[p].files = scan[p].files
          /\ scan'[p].seen = scan[p].seen
          /\ scan'[p].indexed = scan[p].indexed \cup {PathOf(p)}
        BY <2>1 DEF IInv, TypeOK, Scan
    <2>3. ~InDocument(p)'
        BY <2>1 DEF InDocument, Writing
    <2>4. \A n \in Paths : Settled(p, n) => Settled(p, n)'
        BY <1>1, <2>2, SameRow DEF IInv
    <2>5. Settled(p, PathOf(p))
        BY <1>2, <1>3 DEF Unchanged, Settled
    <2>6. \A n \in Paths : n = PathOf(p) => Settled(p, n)'
        BY <2>4, <2>5
    <2>7. QED
        BY <1>1, <1>2, <2>2, <2>3, <2>4, <2>6, WalkGoesOn
<1>4. CASE ~Unchanged(p)
    <2>1. pc'[p] = "prepare" /\ UNCHANGED <<scan, cur>>
        BY <1>4 DEF CheckDocument, IInv, TypeOK
    <2>2. InDocument(p)'
        BY <2>1 DEF InDocument
    <2>3. \A n \in Paths : Settled(p, n) => Settled(p, n)'
        BY <1>1, <2>1, SameRow DEF IInv
    <2>4. QED
        BY <1>1, <2>1, <2>2, <2>3, WalkGoesOn
<1>5. QED
    BY <1>3, <1>4

\* The statements of a transaction before its commit.
LEMMA WriteKeepsOrder ==
    ASSUME IInv, NEW p \in Procs, WalkInv(p), Prepare(p) \/ StoreMethod(p)
    PROVE  InDocument(p) /\ InDocument(p)' /\ WalkInv(p)'
<1>1. InDocument(p) /\ UNCHANGED <<fs, opts, scan>>
    BY DEF Prepare, StoreMethod, Upsert, DeleteChunks, ReplaceSymbols, InsertChunks, InDocument, Writing
<1>2. InDocument(p)'
    BY DEF Prepare, StoreMethod, Upsert, DeleteChunks, ReplaceSymbols, InsertChunks, InDocument, Writing,
       IInv, TypeOK
<1>3. db' = db
    <2>1. pc[p] \in Writing => tx[p].atomic
        BY DEF IInv, TransactionInv, DocumentInv
    <2>2. QED
        BY <2>1 DEF Prepare, StoreMethod, Upsert, DeleteChunks, ReplaceSymbols, InsertChunks, StoreWrite, Writing
<1>4. cur'[p].file = cur[p].file /\ cur'[p].text = cur[p].text
    <2>1. CASE Prepare(p)
        <3>1. PICK infos : cur' = [cur EXCEPT ![p] = [@ EXCEPT !.symbol_infos = infos]]
            BY <2>1 DEF Prepare
        <3>2. QED
            BY <3>1 DEF IInv, TypeOK, Current
    <2>2. CASE StoreMethod(p)
        BY <2>2 DEF StoreMethod, Upsert, DeleteChunks, ReplaceSymbols, InsertChunks
    <2>3. QED
        BY <2>1, <2>2
<1>5. \A n \in Paths : Settled(p, n) => Settled(p, n)'
    BY <1>1, <1>3, SameRow DEF IInv
<1>6. QED
    BY <1>1, <1>2, <1>4, <1>5, WalkGoesOn

LEMMA CommitKeepsOrder ==
    ASSUME IInv, NEW p \in Procs, WalkInv(p), Commit(p)
    PROVE  WalkInv(p)'
<1> DEFINE k == PathOf(p)
           new == ChunksOf(k, cur[p].text, opts[p].model)
<1> USE PathsAssumption, NoRowAssumption
<1>1. pc[p] = "commit" /\ pc'[p] = "walk" /\ UNCHANGED <<fs, opts>>
    BY DEF Commit, IInv, TypeOK
<1>2. InDocument(p) /\ ~InDocument(p)' /\ HoldsRow(p) /\ pc[p] \in Writing
    BY <1>1 DEF InDocument, HoldsRow, Writing
<1>3. k \in Paths /\ cur[p].text \in TextsOf(k)
    BY <1>2, DocumentInHand
<1>4. /\ RowSeen(p) \in Row /\ RowSeen(p).hash = HashOf[cur[p].text] /\ ~RowSeen(p).deleted
      /\ RowSeen(p).chunks = new
    BY <1>1, <1>2, RowType DEF IInv, TransactionInv, DocumentInv
<1>5. db' = [db EXCEPT ![k] = RowSeen(p)]
    BY DEF Commit
<1>6. /\ scan'[p].dirs = scan[p].dirs /\ scan'[p].files = scan[p].files
      /\ scan'[p].seen = scan[p].seen
      /\ scan'[p].indexed = IF new = {} THEN scan[p].indexed ELSE scan[p].indexed \cup {k}
    <2> HIDE DEF new
    <2>1. scan'[p] = IF new = {} THEN scan[p]
                     ELSE [scan[p] EXCEPT !.indexed = scan[p].indexed \cup {k}]
        BY DEF Commit, IInv, TypeOK, new
    <2>2. QED
        BY <2>1 DEF IInv, TypeOK, Scan
<1>7. \A n \in Paths : TextsOf(n)' = TextsOf(n)
    BY <1>1 DEF TextsOf, FilesOf
<1>8. \A n \in Paths : n = k => Settled(p, n)'
    <2> HIDE DEF new
    <2>1. db'[k] = RowSeen(p)
        BY <1>3, <1>5 DEF IInv, TypeOK
    <2>2. db'[k] # NoRow /\ ~db'[k].deleted /\ db'[k].hash = HashOf[cur[p].text] /\ db'[k].chunks = new
        BY <1>4, <2>1
    <2>3. db'[k].chunks = {} \/ k \in scan'[p].indexed
        BY <1>6, <2>2
    <2>4. new = ChunksOf(k, cur[p].text, opts'[p].model)
        BY <1>1 DEF new
    <2>5. ASSUME NEW n \in Paths, n = k PROVE Settled(p, n)'
        <3>1. TextsOf(n)' = TextsOf(k)
            BY <1>7, <2>5
        <3>2. QED
            BY <1>3, <2>2, <2>3, <2>4, <2>5, <3>1 DEF Settled, ChunksOf
    <2>6. QED
        BY <2>5
<1>9. \A n \in Paths : Settled(p, n) => Settled(p, n)'
    <2>1. ASSUME NEW n \in Paths, n # k PROVE Settled(p, n) => Settled(p, n)'
        <3>1. db'[n] = db[n]
            BY <1>3, <1>5, <2>1 DEF IInv, TypeOK
        <3>2. scan[p].indexed \subseteq scan'[p].indexed
            BY <1>6
        <3>3. QED
            BY <1>1, <3>1, <3>2, SameRow DEF IInv
    <2>2. QED
        BY <1>8, <2>1
<1>10. /\ scan[p].indexed \subseteq scan'[p].indexed
       /\ \A n \in scan'[p].indexed : n \in scan[p].indexed \/ TextsOf(n) # {}
    BY <1>3, <1>6
<1>11. QED
    BY <1>1, <1>2, <1>6, <1>8, <1>9, <1>10, WalkGoesOn

\* From the end of the walk to the end of the run.
LEMMA ListingLeavesRest ==
    ASSUME IInv, NEW p \in Procs, WalkInv(p), ListDocuments(p), NEW n \in Paths
    PROVE  /\ pc'[p] \in {"done", "remove"}
           /\ pc'[p] = "remove" =>
                 IF n \in doomed'[p].todo \cup doomed'[p].held THEN Removable(p, n)' ELSE Right(p, n)'
           /\ pc'[p] = "done" => Right(p, n)'
<1>1. /\ doomed'[p] = [doomed[p] EXCEPT !.todo = Stale(p)]
      /\ pc'[p] = IF Stale(p) = {} THEN "done" ELSE "remove"
      /\ pc[p] = "walk" /\ scan[p].dirs = {} /\ scan[p].files = {}
      /\ UNCHANGED <<fs, db, opts>>
    BY DEF ListDocuments, IInv, TypeOK
<1>2. doomed'[p].todo = Stale(p) /\ doomed'[p].held = {}
    <2>1. doomed[p].held = {}
        BY <1>1 DEF IInv, TransactionInv, RemovalInv
    <2>2. QED
        BY <1>1, <2>1 DEF IInv, TypeOK, Doomed
<1>3. IF n \in Stale(p) THEN Removable(p, n) ELSE Right(p, n)
    BY <1>1, WalkIsOver DEF InDocument, Writing
<1>4. (Removable(p, n) => Removable(p, n)') /\ (Right(p, n) => Right(p, n)')
    BY <1>1, SameRow DEF IInv
<1>5. QED
    BY <1>1, <1>2, <1>3, <1>4

LEMMA LockingLeavesRest ==
    ASSUME IInv, NEW p \in Procs, NEW k \in Paths, LockDoomed(p, k), NEW n \in Paths,
           IF n \in doomed[p].todo \cup doomed[p].held THEN Removable(p, n) ELSE Right(p, n)
    PROVE  IF n \in doomed'[p].todo \cup doomed'[p].held THEN Removable(p, n)' ELSE Right(p, n)'
<1>1. UNCHANGED <<fs, db, opts>> /\ k \in doomed[p].todo
    BY DEF LockDoomed
<1>2. (Removable(p, n) => Removable(p, n)') /\ (Right(p, n) => Right(p, n)')
    BY <1>1, SameRow DEF IInv
<1>3. CASE db[k] = NoRow
    <2>1. doomed'[p] = [doomed[p] EXCEPT !.todo = doomed[p].todo \ {k}]
        BY <1>3 DEF LockDoomed, IInv, TypeOK
    <2>2. doomed'[p].todo = doomed[p].todo \ {k} /\ doomed'[p].held = doomed[p].held
        BY <2>1 DEF IInv, TypeOK, Doomed
    <2>3. Removable(p, k) => Right(p, k)
        BY <1>3, RightWithoutRow DEF IInv
    <2>4. n = k => (Removable(p, n) => Right(p, n))
        BY <2>3
    <2>5. QED
        BY <1>1, <1>2, <2>2, <2>4
<1>4. CASE db[k] # NoRow
    <2>1. doomed'[p] = [doomed[p] EXCEPT !.todo = doomed[p].todo \ {k},
                                         !.held = doomed[p].held \cup {k}]
        BY <1>4 DEF LockDoomed, IInv, TypeOK
    <2>2. doomed'[p].todo = doomed[p].todo \ {k} /\ doomed'[p].held = doomed[p].held \cup {k}
        BY <2>1 DEF IInv, TypeOK, Doomed
    <2>3. QED
        BY <1>1, <1>2, <2>2
<1>5. QED
    BY <1>3, <1>4

LEMMA RemovalIsRight ==
    ASSUME IInv, NEW p \in Procs, Remove(p), NEW n \in Paths,
           IF n \in doomed[p].todo \cup doomed[p].held THEN Removable(p, n) ELSE Right(p, n)
    PROVE  Right(p, n)'
<1>1. /\ UNCHANGED <<fs, opts>> /\ doomed[p].todo = {}
      /\ db'[n] = IF n \in doomed[p].held THEN Removed(p, db[n]) ELSE db[n]
    BY DEF Remove
<1>2. CASE n \in doomed[p].held
    <2>1. db[n] \in Row
        BY <1>2 DEF IInv, TypeOK, TransactionInv, RemovalInv
    <2>2. db'[n] = NoRow \/ (opts'[p].incremental /\ db'[n].deleted)
        BY <1>1, <1>2, <2>1 DEF Removed, Row
    <2>3. TextsOf(n)' = TextsOf(n) /\ Answers(n)' = {}
        BY <1>1, <2>2 DEF TextsOf, FilesOf, Answers
    <2>4. Removable(p, n)
        BY <1>2
    <2>5. CASE opts[p].incremental
        BY <1>1, <2>3, <2>4, <2>5 DEF Right, UpToDate, Removable
    <2>6. CASE ~opts[p].incremental
        BY <1>1, <2>2, <2>3, <2>4, <2>6 DEF Right, Reindexed, Removable, ChunksOf
    <2>7. QED
        BY <2>5, <2>6
<1>3. CASE n \notin doomed[p].held
    BY <1>1, <1>3, SameRow DEF IInv
<1>4. QED
    BY <1>2, <1>3

\* A step of the run itself.
LEMMA OwnStep ==
    ASSUME IInv, NEW p \in Procs, QuietInv(p), Step(p) \/ Abort(p)
    PROVE  QuietInv(p)'
<1> USE DEF Active, Ended, Writing
<1>1. \A q \in Procs : q # p => pc'[q] \notin Active
    <2>1. ASSUME NEW q \in Procs, q # p PROVE pc'[q] = pc[q]
        <3>1. ProcInv(p)
            BY DEF IInv, TransactionInv, ProcInv
        <3>2. QED
            BY <2>1, <3>1, StepFrames DEF IInv, Frame
    <2>2. QED
        BY <2>1 DEF QuietInv
<1>2. CASE (\E d \in Dirs : ListDirectory(p, d)) \/ (\E f \in Files : ReadFile(p, f)) \/ CheckDocument(p)
    <2>1. Walking(p)
        BY <1>2 DEF Walking, InDocument, ListDirectory, ReadFile, CheckDocument
    <2>2. WalkInv(p)'
        BY <1>2, <2>1, ListKeepsOrder, ReadKeepsOrder, CheckKeepsOrder DEF QuietInv
    <2>3. pc'[p] \in {"walk", "check", "prepare"}
        BY <1>2 DEF ListDirectory, ReadFile, CheckDocument, IInv, TypeOK
    <2>4. QED
        BY <1>1, <2>2, <2>3 DEF QuietInv, Walking
<1>3. CASE Prepare(p) \/ StoreMethod(p)
    <2>1. Walking(p)
        BY <1>3 DEF Walking, InDocument, Prepare, StoreMethod, Upsert, DeleteChunks, ReplaceSymbols, InsertChunks
    <2>2. InDocument(p)' /\ WalkInv(p)'
        BY <1>3, <2>1, WriteKeepsOrder DEF QuietInv
    <2>3. pc'[p] \notin {"idle", "remove", "done"}
        BY <2>2 DEF InDocument
    <2>4. QED
        BY <1>1, <2>2, <2>3 DEF QuietInv
<1>4. CASE Commit(p)
    <2>1. Walking(p) /\ pc'[p] = "walk"
        BY <1>4 DEF Walking, InDocument, Commit, IInv, TypeOK
    <2>2. WalkInv(p)'
        BY <1>4, <2>1, CommitKeepsOrder DEF QuietInv
    <2>3. QED
        BY <1>1, <2>1, <2>2 DEF QuietInv
<1>5. CASE ListDocuments(p)
    <2>1. WalkInv(p)
        BY <1>5 DEF QuietInv, Walking, ListDocuments
    <2>2. pc'[p] \in {"done", "remove"}
        BY <1>5 DEF ListDocuments, IInv, TypeOK
    <2>3. ~Walking(p)'
        BY <2>2 DEF Walking, InDocument
    <2>4. QED
        BY <1>1, <1>5, <2>1, <2>2, <2>3, ListingLeavesRest DEF QuietInv
<1>6. ASSUME NEW k \in Paths, LockDoomed(p, k) PROVE QuietInv(p)'
    <2>1. pc[p] = "remove" /\ pc'[p] = "remove"
        BY <1>6 DEF LockDoomed
    <2>2. ~Walking(p)'
        BY <2>1 DEF Walking, InDocument
    <2>3. \A n \in Paths :
            IF n \in doomed'[p].todo \cup doomed'[p].held THEN Removable(p, n)' ELSE Right(p, n)'
        BY <1>6, <2>1, LockingLeavesRest DEF QuietInv
    <2>4. QED
        BY <1>1, <2>1, <2>2, <2>3 DEF QuietInv
<1>7. CASE Remove(p)
    <2>1. pc[p] = "remove" /\ pc'[p] = "done"
        BY <1>7 DEF Remove, IInv, TypeOK
    <2>2. ~Walking(p)'
        BY <2>1 DEF Walking, InDocument
    <2>3. \A n \in Paths : Right(p, n)'
        BY <1>7, <2>1, RemovalIsRight DEF QuietInv
    <2>4. QED
        BY <1>1, <2>1, <2>2, <2>3 DEF QuietInv
<1>8. CASE Abort(p)
    <2>1. pc'[p] = "failed"
        BY <1>8 DEF Abort, IInv, TypeOK
    <2>2. ~Walking(p)'
        BY <2>1 DEF Walking, InDocument
    <2>3. QED
        BY <1>1, <2>1, <2>2 DEF QuietInv
<1>9. QED
    BY <1>2, <1>3, <1>4, <1>5, <1>6, <1>7, <1>8 DEF Step, WriteDocument, StoreMethod, DetectDeadlock

LEMMA NextQuiet == IInv /\ AllQuietInv /\ [Next]_vars => AllQuietInv'
<1> SUFFICES ASSUME IInv, AllQuietInv, [Next]_vars, NEW p \in Procs, quiet'[p]
             PROVE  QuietInv(p)'
    BY DEF AllQuietInv
<1>1. CASE \E f \in Files, c \in Edited : Edit(f, c)
    BY <1>1 DEF Edit
<1>2. ASSUME NEW q \in Procs, NEW asked \in BOOLEAN, NEW m \in Models, NEW s \in SymbolModes,
             Start(q, asked, m, s)
      PROVE  QuietInv(p)'
    <2>1. q = p /\ \A r \in Procs : pc[r] \notin Active
        BY <1>2 DEF Start
    <2>2. /\ pc' = [pc EXCEPT ![p] = "walk"]
          /\ scan'[p] = [NoScan EXCEPT !.dirs = Dirs]
        BY <1>2, <2>1 DEF Start, IInv, TypeOK
    <2>3. pc'[p] = "walk" /\ \A r \in Procs : r # p => pc'[r] \notin Active
        BY <2>1, <2>2 DEF IInv, TypeOK
    <2>4. Walking(p)' /\ WalkInv(p)'
        BY <2>2, <2>3, StartsInOrder DEF IInv
    <2>5. QED
        BY <2>3, <2>4 DEF QuietInv
<1>3. ASSUME NEW q \in Procs, Step(q) \/ Abort(q) PROVE QuietInv(p)'
    <2>1. quiet' = quiet
        BY <1>3 DEF Step, WriteDocument, DetectDeadlock, ListDirectory, ReadFile, CheckDocument,
           Prepare, Upsert, DeleteChunks, ReplaceSymbols, InsertChunks, Commit,
           ListDocuments, LockDoomed, Remove, Abort
    <2>2. pc[q] \in Active
        BY <1>3 DEF Step, WriteDocument, DetectDeadlock, ListDirectory, ReadFile, CheckDocument,
           Prepare, Upsert, DeleteChunks, ReplaceSymbols, InsertChunks, Commit,
           ListDocuments, LockDoomed, Remove, Abort, Active, Writing
    <2>3. QuietInv(p)
        BY <2>1 DEF AllQuietInv
    <2>4. q = p
        BY <2>2, <2>3 DEF QuietInv
    <2>5. QED
        BY <1>3, <2>3, <2>4, OwnStep
<1>4. CASE UNCHANGED vars
    <2>1. quiet[p] /\ QuietInv(p)
        BY <1>4 DEF vars, AllQuietInv
    <2>2. /\ (InDocument(p)' <=> InDocument(p)) /\ (Walking(p)' <=> Walking(p))
          /\ (WalkInv(p)' <=> WalkInv(p))
        BY <1>4 DEF vars, InDocument, Walking, WalkInv, Passed, Settled, TextsOf, FilesOf, ChunksOf
    <2>3. \A n \in Paths : (Right(p, n)' <=> Right(p, n)) /\ (Removable(p, n)' <=> Removable(p, n))
        BY <1>4 DEF vars, Right, Removable, UpToDate, Reindexed, Gone, TextsOf, FilesOf, ChunksOf, Answers
    <2>4. QED
        BY <1>4, <2>1, <2>2, <2>3 DEF vars, QuietInv
<1>5. QED
    BY <1>1, <1>2, <1>3, <1>4 DEF Next

\* The mode of a run comes from its --incremental or from the configuration.
ModeInv == \A p \in Procs : opts[p].incremental => opts[p].asked \/ ConfigIncremental

LEMMA NextMode == TypeOK /\ ModeInv /\ [Next]_vars => ModeInv'
<1> SUFFICES ASSUME TypeOK, ModeInv, [Next]_vars PROVE ModeInv'
    OBVIOUS
<1>1. ASSUME NEW q \in Procs, NEW asked \in BOOLEAN, NEW m \in Models, NEW s \in SymbolModes,
             Start(q, asked, m, s)
      PROVE  ModeInv'
    <2>1. opts' = [opts EXCEPT ![q] = [asked |-> asked, incremental |-> asked \/ ConfigIncremental,
                                       model |-> m, symbol_search |-> s]]
        BY <1>1 DEF Start, IncrementalMode
    <2>2. opts'[q].incremental => opts'[q].asked \/ ConfigIncremental
        BY <2>1 DEF TypeOK
    <2>3. \A p \in Procs : p # q => opts'[p] = opts[p]
        BY <2>1 DEF TypeOK
    <2>4. QED
        BY <2>2, <2>3 DEF ModeInv
<1>2. CASE opts' = opts
    BY <1>2 DEF ModeInv
<1>3. QED
    BY <1>1, <1>2 DEF Next, vars, Edit, Step, WriteDocument, DetectDeadlock, ListDirectory, ReadFile,
       CheckDocument, Prepare, Upsert, DeleteChunks, ReplaceSymbols, InsertChunks, Commit,
       ListDocuments, LockDoomed, Remove, Abort

LEMMA QuietAlways == Spec => [](TypeOK /\ AllQuietInv /\ ModeInv)
<1>1. Init => AllQuietInv /\ ModeInv
    BY DEF Init, AllQuietInv, ModeInv
<1>2. IInv /\ AllQuietInv /\ ModeInv /\ [Next]_vars => AllQuietInv' /\ ModeInv'
    BY NextQuiet, NextMode DEF IInv
<1>3. IInv => TypeOK
    BY DEF IInv
<1>4. QED
    BY <1>1, <1>2, <1>3, Inductive, PTL DEF Spec

\* Whatever earlier runs left behind, a run that ends having had the tree and
\* the index to itself leaves the index in step with the tree.
THEOREM QuietRunMirrors == Spec => []QuietRunMirrorsTree
<1>1. AllQuietInv => QuietRunMirrorsTree
    BY DEF AllQuietInv, QuietInv, QuietRunMirrorsTree, Right
<1>2. QED
    BY <1>1, QuietAlways, PTL

\* README, "Ingest": unless the configuration makes every run incremental, a
\* run without --incremental re-indexes every file.
THEOREM FullRunReindexes == ASSUME ~ConfigIncremental PROVE Spec => []FullRunReindexesEveryFile
<1>1. AllQuietInv /\ ModeInv => FullRunReindexesEveryFile
    BY DEF AllQuietInv, QuietInv, ModeInv, FullRunReindexesEveryFile, Right
<1>2. QED
    BY <1>1, QuietAlways, PTL

\* README, "Ingest": such a run leaves neither chunk nor symbol of a document
\* that disappeared from the source tree.
THEOREM FullRunRemoves == ASSUME ~ConfigIncremental PROVE Spec => []FullRunRemovesDisappeared
<1>1. TypeOK /\ AllQuietInv /\ ModeInv => FullRunRemovesDisappeared
    <2> SUFFICES ASSUME TypeOK, AllQuietInv, ModeInv,
                        NEW p \in Procs, pc[p] = "done", quiet[p], ~opts[p].asked,
                        NEW n \in Paths, Gone(n)
                 PROVE  Answers(n) = {} /\ SymbolAnswers(n) = {}
        BY DEF FullRunRemovesDisappeared
    <2>1. TextsOf(n) = {}
        BY ValueAssumption DEF TextsOf, Gone
    <2>2. Reindexed(n, opts[p].model)
        BY DEF AllQuietInv, QuietInv, ModeInv, Right
    <2>3. db[n] = NoRow
        BY <2>1, <2>2 DEF Reindexed
    <2>4. QED
        BY <2>3 DEF Answers, SymbolAnswers
<1>2. QED
    BY <1>1, QuietAlways, PTL

-----------------------------------------------------------------------------
(* The symbols of a document *)

\* With symbol search on and an extraction that does not raise, what a run is
\* about to publish for a code file has the symbols of the text it has read.
SymbolInv(p) ==
    /\ opts[p].symbol_search
    /\ PathOf(p) \in Code /\ pc[p] \in Writing => cur[p].symbol_infos = cur[p].text
    /\ PathOf(p) \in Code /\ pc[p] \in {"insert_chunks", "commit"} =>
          tx[p].row.symbols = {cur[p].text}

LEMMA SymbolFrame ==
    ASSUME NEW p \in Procs, SymbolInv(p),
           opts'[p] = opts[p], pc'[p] = pc[p], cur'[p] = cur[p], tx'[p] = tx[p]
    PROVE  SymbolInv(p)'
BY DEF SymbolInv, PathOf

LEMMA OwnSymbols ==
    ASSUME IInv, NEW p \in Procs, SymbolInv(p), ~ExtractionMayRaise, Step(p) \/ Abort(p)
    PROVE  SymbolInv(p)'
<1> USE ValueAssumption DEF Writing
<1>1. DocumentInv(p) /\ opts' = opts
    BY DEF IInv, TransactionInv, Step, WriteDocument, DetectDeadlock, ListDirectory, ReadFile,
       CheckDocument, Prepare, Upsert, DeleteChunks, ReplaceSymbols, InsertChunks, Commit,
       ListDocuments, LockDoomed, Remove, Abort
<1>2. CASE pc'[p] \notin Writing
    BY <1>1, <1>2 DEF SymbolInv
<1>3. CASE Prepare(p)
    <2>1. PICK infos \in Extraction(p) : cur' = [cur EXCEPT ![p] = [@ EXCEPT !.symbol_infos = infos]]
        BY <1>3 DEF Prepare
    <2>2. /\ cur'[p].symbol_infos = infos /\ cur'[p].file = cur[p].file /\ cur'[p].text = cur[p].text
        BY <2>1 DEF IInv, TypeOK, Current
    <2>3. PathOf(p) \in Code => infos = cur[p].text
        BY <2>1 DEF Extraction, SymbolInv
    <2>4. pc'[p] = "upsert"
        BY <1>3 DEF Prepare, IInv, TypeOK
    <2>5. QED
        BY <1>1, <2>2, <2>3, <2>4 DEF SymbolInv, PathOf
<1>4. CASE StoreMethod(p)
    <2>1. cur' = cur /\ pc[p] \in Writing
        BY <1>4 DEF StoreMethod, Upsert, DeleteChunks, ReplaceSymbols, InsertChunks
    <2>2. PathOf(p) \in Code => cur[p].symbol_infos = cur[p].text
        BY <2>1 DEF SymbolInv
    <2>3. SUFFICES ASSUME PathOf(p) \in Code, pc'[p] \in {"insert_chunks", "commit"}
                   PROVE  tx'[p].row.symbols = {cur[p].text}
        BY <1>1, <2>1, <2>2 DEF SymbolInv, PathOf
    <2>4. /\ PathOf(p) \in Paths /\ cur[p].text \in Contents
          /\ HoldsRow(p) => RowSeen(p) = tx[p].row /\ RowSeen(p) \in Row
        BY <1>1, <2>1, RowType DEF IInv
    <2>5. ASSUME NEW row \in Row, StoreWrite(p, row) PROVE tx'[p].row = row
        <3>1. tx'[p] = [tx[p] EXCEPT !.row = row] /\ tx[p] \in Transaction
            BY <1>1, <2>1, <2>5, StoreWriteType DEF IInv, TypeOK
        <3>2. QED
            BY <3>1 DEF Transaction
    <2>6. ~Upsert(p)
        BY <2>3 DEF Upsert, IInv, TypeOK
    <2>7. ~DeleteChunks(p)
        <3>1. cur[p].symbol_infos # None
            BY <2>2, <2>3, <2>4
        <3>2. QED
            BY <2>3, <3>1 DEF DeleteChunks, IInv, TypeOK
    <2>8. CASE ReplaceSymbols(p)
        <3>1. HoldsRow(p) /\ cur[p].symbol_infos \in Contents
            BY <2>2, <2>3, <2>4, <2>8 DEF ReplaceSymbols, HoldsRow
        <3>2. [RowSeen(p) EXCEPT !.symbols = {cur[p].symbol_infos}] \in Row
            BY <1>1, <3>1, WrittenRows DEF IInv
        <3>3. tx'[p].row = [RowSeen(p) EXCEPT !.symbols = {cur[p].symbol_infos}]
            BY <2>5, <2>8, <3>2 DEF ReplaceSymbols
        <3>4. QED
            BY <2>2, <2>3, <2>4, <3>1, <3>3 DEF Row
    <2>9. CASE InsertChunks(p)
        <3> DEFINE row == [RowSeen(p) EXCEPT
                              !.chunks = @ \cup ChunksOf(PathOf(p), cur[p].text, opts[p].model)]
        <3>1. HoldsRow(p) /\ RowSeen(p).symbols = {cur[p].text}
            BY <2>3, <2>4, <2>9 DEF InsertChunks, HoldsRow, SymbolInv
        <3>2. row \in Row
            BY <1>1, <3>1, WrittenRows DEF IInv
        <3>3. tx'[p].row = row
            BY <2>5, <2>9, <3>2 DEF InsertChunks
        <3>4. QED
            BY <2>4, <3>1, <3>3 DEF Row
    <2>10. QED
        BY <1>4, <2>6, <2>7, <2>8, <2>9 DEF StoreMethod
<1>5. ASSUME ~Prepare(p), ~StoreMethod(p) PROVE pc'[p] \notin Writing
    <2>1. pc \in [Procs -> {"idle"} \cup Active \cup Ended]
        BY DEF IInv, TypeOK
    <2>2. CASE (\E d \in Dirs : ListDirectory(p, d)) \/ (\E f \in Files : ReadFile(p, f)) \/ CheckDocument(p)
        BY <2>1, <2>2 DEF ListDirectory, ReadFile, CheckDocument
    <2>3. CASE Commit(p) \/ ListDocuments(p) \/ (\E n \in Paths : LockDoomed(p, n)) \/ Remove(p) \/ Abort(p)
        BY <2>1, <2>3 DEF Commit, ListDocuments, LockDoomed, Remove, Abort
    <2>4. QED
        BY <1>5, <2>2, <2>3 DEF Step, WriteDocument, StoreMethod, DetectDeadlock
<1>6. QED
    BY <1>2, <1>3, <1>4, <1>5

LEMMA NextSymbols ==
    ASSUME SymbolModes = {TRUE}, ~ExtractionMayRaise,
           IInv, \A p \in Procs : SymbolInv(p), [Next]_vars
    PROVE  \A p \in Procs : SymbolInv(p)'
<1> SUFFICES ASSUME NEW p \in Procs PROVE SymbolInv(p)'
    OBVIOUS
<1>1. ASSUME NEW q \in Procs, Step(q) \/ Abort(q) PROVE SymbolInv(p)'
    <2>1. CASE q = p
        BY <1>1, <2>1, OwnSymbols
    <2>2. CASE q # p
        <3>1. Frame(p)
            BY <1>1, <2>2, StepFrames DEF IInv, TransactionInv, ProcInv
        <3>2. QED
            BY <3>1, SymbolFrame DEF Frame
    <2>3. QED
        BY <2>1, <2>2
<1>2. ASSUME NEW q \in Procs, NEW asked \in BOOLEAN, NEW m \in Models, NEW s \in SymbolModes,
             Start(q, asked, m, s)
      PROVE  SymbolInv(p)'
    <2>1. CASE q = p
        <3>1. pc'[p] = "walk" /\ opts'[p].symbol_search
            BY <1>2, <2>1 DEF Start, IInv, TypeOK
        <3>2. QED
            BY <3>1 DEF SymbolInv, Writing
    <2>2. CASE q # p
        BY <1>2, <2>2, SymbolFrame DEF Start, IInv, TypeOK
    <2>3. QED
        BY <2>1, <2>2
<1>3. CASE \E f \in Files, c \in Edited : Edit(f, c)
    BY <1>3, SymbolFrame DEF Edit
<1>4. CASE UNCHANGED vars
    BY <1>4, SymbolFrame DEF vars
<1>5. QED
    BY <1>1, <1>2, <1>3, <1>4 DEF Next

LEMMA NextSymbolsMatch ==
    ASSUME IInv, \A p \in Procs : SymbolInv(p), SymbolsMatchDocument, [Next]_vars
    PROVE  SymbolsMatchDocument'
<1> SUFFICES ASSUME NEW n \in Code, db'[n] # NoRow
             PROVE  \E c \in Contents : db'[n].symbols = {c} /\ HashOf[c] = db'[n].hash
    BY DEF SymbolsMatchDocument
<1> USE PathsAssumption
<1>1. CASE db'[n] = db[n]
    BY <1>1 DEF SymbolsMatchDocument
<1>2. ASSUME NEW p \in Procs, Commit(p), cur[p].text \in Contents,
             tx[p].row.hash = HashOf[cur[p].text],
             db' = [db EXCEPT ![PathOf(p)] = tx[p].row]
      PROVE  \E c \in Contents : db'[n].symbols = {c} /\ HashOf[c] = db'[n].hash
    <2>1. CASE n = PathOf(p)
        <3>1. db'[n] = tx[p].row
            BY <1>2, <2>1 DEF IInv, TypeOK
        <3>2. tx[p].row.symbols = {cur[p].text}
            BY <1>2, <2>1 DEF SymbolInv, Commit
        <3>3. QED
            BY <1>2, <3>1, <3>2
    <2>2. CASE n # PathOf(p)
        BY <1>1, <1>2, <2>2 DEF IInv, TypeOK
    <2>3. QED
        BY <2>1, <2>2
<1>3. ASSUME NEW p \in Procs, Remove(p), \A k \in doomed[p].held : db[k] # NoRow
      PROVE  \E c \in Contents : db'[n].symbols = {c} /\ HashOf[c] = db'[n].hash
    <2>1. db'[n] = IF n \in doomed[p].held THEN Removed(p, db[n]) ELSE db[n]
        BY <1>3 DEF Remove
    <2>2. db[n] \in Row
        BY <1>1, <1>3, <2>1 DEF IInv, TypeOK
    <2>3. db[n] # NoRow /\ db'[n].symbols = db[n].symbols /\ db'[n].hash = db[n].hash
        BY <2>1, <2>2, NoRowAssumption DEF Removed, Row
    <2>4. QED
        BY <2>3 DEF SymbolsMatchDocument
<1>4. CASE db' = db
    BY <1>1, <1>4
<1>5. QED
    BY <1>2, <1>3, <1>4, IndexSteps DEF IInv

\* While symbol search is on and extraction does not raise, overlapping, failing
\* and repeated runs never leave a code file with the symbols of another text.
THEOREM SymbolsMatch ==
    ASSUME SymbolModes = {TRUE}, ~ExtractionMayRaise
    PROVE  Spec => []SymbolsMatchDocument
<1> DEFINE AllSymbols == \A p \in Procs : SymbolInv(p)
<1>1. Init => AllSymbols /\ SymbolsMatchDocument
    BY PathsAssumption DEF Init, SymbolInv, SymbolsMatchDocument, Writing
<1>2. IInv /\ AllSymbols /\ SymbolsMatchDocument /\ [Next]_vars => AllSymbols' /\ SymbolsMatchDocument'
    BY NextSymbols, NextSymbolsMatch
<1>3. QED
    BY <1>1, <1>2, Inductive, PTL DEF Spec
=============================================================================
