------------------------------ MODULE MCIngest ------------------------------
(***************************************************************************)
(* Small instances of Ingest.  "a.md" and "A.md" are two files with the    *)
(* same path_norm; "lib.py" is code in a directory of its own.             *)
(***************************************************************************)
EXTENDS Ingest, TLC

DirectoryOf == [f \in Files |-> IF f = "lib.py" /\ "src" \in Dirs THEN "src" ELSE "docs"]
LowerCase == [f \in Files |-> IF f = "A.md" THEN "a.md" ELSE f]

\* "x" and "x2" differ in white space that _normalize_text strips.
HashOfText == [c \in Contents |-> IF c = "x2" THEN "x" ELSE c]

AnyTree == [Files -> Contents \cup {Missing}]

\* Every file is there, or all but the code file.
SomeTrees == {[f \in Files |-> IF f \in gone THEN Missing ELSE "x"] : gone \in {{}, {"lib.py"}}}

AnyEdit == Contents \cup {Missing, Unreadable}
SomeEdit == {"y", Missing}

\* Three runs are worth looking at when two edits concern one document.
Interesting ==
    runs = MaxRuns /\ edits = MaxEdits => \A f \in Files : Norm[f] # "a.md" => fs[f] = "x"

\* A second edit leaves nothing: two final deletes may then meet in two rows.
AllGone == edits = 2 => \A f \in Files : fs[f] = Missing

Symmetry == Permutations(Procs)
=============================================================================
