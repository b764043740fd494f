------------------------------ MODULE Chunking ------------------------------
(***************************************************************************)
(* How a text is cut into chunks: the line loops of chunk_markdown and     *)
(* chunk_code, the window loop of chunk_text_with_offsets, which           *)
(* chunk_markdown runs on each long section, and _filter_chunks.  One step *)
(* is one round of a loop.                                                 *)
(*                                                                         *)
(* A character is a letter, a blank, a line feed, another line break       *)
(* (splitlines knows more of them than the line index), or stands for the  *)
(* start of a line that the regular expressions know: a heading of some    *)
(* level, a declaration.  Offsets count from 0, as in the code.  Chunks    *)
(* are a set: chunk_index is their order by offset.                        *)
(*                                                                         *)
(* Operators named OverlapUnclamped, FilterBare, LineEndOfNext,            *)
(* ParentsOrSame and CodeLineHeld are deliberate defects that nothing      *)
(* uses; PROJECT.json names the property that each breaks.                 *)
(***************************************************************************)
EXTENDS Integers, Sequences, FiniteSets

CONSTANTS
    Letter, Blank, LineFeed, OtherBreak, Declaration,   \* characters
    Texts,      \* texts of each kind: "text", "md" and "code"
    Settings    \* chunk size, chunk_overlap and min_chunk_chars

Headings == 1..6
Kinds == {"text", "md", "code"}
Spaces == {Blank, LineFeed, OtherBreak}
Breaks == {LineFeed, OtherBreak}

ASSUME ChunkingAssumption ==
    /\ \A k \in Kinds : \A t \in Texts[k] :
          t \in Seq(Spaces \cup {Letter, Declaration} \cup Headings)
    /\ \A s \in Settings : s.size \in Int /\ s.overlap \in Int /\ s.min \in Int

VARIABLES
    text, kind, set,    \* the document and its settings
    pc,         \* which loop runs
    cursor,     \* offset of the next line
    current,    \* offset of the first line that belongs to no section or chunk yet
    stack,      \* heading_stack: offsets of the headings above the current section
    sections,   \* sections that are not cut yet: sequence of [from, to, path]
    region,     \* what the window loop cuts
    start,      \* start of its next window
    windows,    \* its list of chunks
    chunks,     \* the list of chunks of the document
    pieces      \* history: every chunk that was made, before any filter

vars == <<text, kind, set, pc, cursor, current, stack, sections, region, start, windows, chunks, pieces>>
input == <<text, kind, set>>
lineLoop == <<cursor, current, stack>>
windowLoop == <<region, start, windows>>

Size == Len(text)
Piece(a, b, p) == [from |-> a, to |-> b, path |-> p]
Whole == Piece(0, Size, <<>>)

Spans == [from : 0..Size, to : 0..Size, path : Seq(0..Size)]

TypeOK ==
    /\ kind \in Kinds /\ text \in Texts[kind] /\ set \in Settings
    /\ pc \in {"lines", "sections", "windows", "filter", "done"}
    /\ cursor \in 0..Size /\ current \in 0..cursor
    /\ stack \in Seq(0..Size)
    /\ sections \in Seq(Spans)
    /\ region \in Spans
    /\ start \in 0..Size
    /\ windows \subseteq Spans
    /\ chunks \subseteq Spans /\ pieces \subseteq Spans

Init ==
    /\ kind \in Kinds /\ text \in Texts[kind] /\ set \in Settings
    /\ pc = IF kind = "text" THEN "windows" ELSE "lines"
    /\ cursor = 0 /\ current = 0 /\ stack = <<>> /\ sections = <<>>
    /\ region = Whole /\ start = 0 /\ windows = {} /\ chunks = {} /\ pieces = {}

-----------------------------------------------------------------------------
(* Characters and lines *)

At(p) == text[p + 1]
Solid(a, b) == {p \in a..(b - 1) : At(p) \notin Spaces}
NotBlank(c) == Solid(c.from, c.to) # {}

\* [a, b) is a line, with its break.
IsLine(a, b) ==
    /\ b = Size \/ At(b - 1) \in Breaks
    /\ \A p \in a..(b - 2) : At(p) \notin Breaks

LongEnough(c) == \E p, q \in Solid(c.from, c.to) : q - p + 1 >= set.min

\* Short chunks go, even when there is nothing else.
FilterBare(C) == {c \in C : NotBlank(c) /\ (set.min <= 0 \/ LongEnough(c))}

\* _filter_chunks: blank chunks go, and short ones if there are others.
Filter(C) ==
    LET cleaned == {c \in C : NotBlank(c)}
        filtered == {c \in cleaned : LongEnough(c)}
    IN  IF set.min <= 0 \/ filtered = {} THEN cleaned ELSE filtered

\* _line_no_at: bisect_right over the offsets at which lines start.
LineNo(p) == 1 + Cardinality({q \in 0..(p - 1) : At(q) = LineFeed})
LineStart(c) == LineNo(c.from)

\* char_end is the offset of the next line, when the chunk ends with a line.
LineEndOfNext(c) == LineNo(c.to)

\* _make_chunk looks at the last character.
LineEnd(c) == LineNo(IF c.to - 1 > c.from THEN c.to - 1 ELSE c.from)

-----------------------------------------------------------------------------
(* The line loop of chunk_markdown *)

\* The items of heading_stack at the places K, in their order.  (SelectSeq, in
\* a form that can be proved about.)
Only(K) ==
    [n \in 1..Cardinality(K) |-> stack[CHOOSE i \in K : Cardinality({j \in K : j <= i}) = n]]

\* A heading leaves one of its own level above it.
ParentsOrSame(h) == Only({i \in DOMAIN stack : At(stack[i]) <= At(h)})

Parents(h) == Only({i \in DOMAIN stack : At(stack[i]) < At(h)})

MarkdownLine ==
    /\ kind = "md" /\ pc = "lines" /\ cursor < Size
    /\ \E e \in (cursor + 1)..Size :
          /\ IsLine(cursor, e)
          /\ cursor' = e
          /\ IF At(cursor) \in Headings
             THEN /\ sections' = IF current < cursor
                                 THEN Append(sections, Piece(current, cursor, stack)) ELSE sections
                  /\ stack' = Append(Parents(cursor), cursor)
                  /\ current' = cursor
             ELSE UNCHANGED <<sections, stack, current>>
    /\ UNCHANGED <<input, pc, windowLoop, chunks, pieces>>

MarkdownEnd ==
    /\ kind = "md" /\ pc = "lines" /\ cursor = Size
    /\ sections' = IF current < cursor THEN Append(sections, Piece(current, cursor, stack)) ELSE sections
    /\ pc' = "sections"
    /\ UNCHANGED <<input, lineLoop, windowLoop, chunks, pieces>>

\* A section that fits is a chunk; another one goes to the window loop.
Section ==
    /\ pc = "sections"
    /\ IF sections = <<>> THEN pc' = "filter" /\ UNCHANGED <<sections, windowLoop, chunks, pieces>>
       ELSE LET s == Head(sections) IN
            /\ sections' = Tail(sections)
            /\ IF s.to - s.from <= set.size
               THEN /\ chunks' = chunks \cup {s} /\ pieces' = pieces \cup {s}
                    /\ UNCHANGED <<pc, windowLoop>>
               ELSE /\ region' = s /\ start' = s.from /\ windows' = {}
                    /\ pc' = "windows"
                    /\ UNCHANGED <<chunks, pieces>>
    /\ UNCHANGED <<input, lineLoop>>

-----------------------------------------------------------------------------
(* chunk_text_with_offsets *)

\* The overlap is taken as it is configured.
OverlapUnclamped == IF set.overlap > 0 THEN set.overlap ELSE 0

Overlap ==
    IF set.overlap <= 0 THEN 0 ELSE IF set.overlap < set.size THEN set.overlap ELSE set.size - 1

Window == Piece(start, IF start + set.size < region.to THEN start + set.size ELSE region.to, region.path)

Back(e) == IF e - Overlap > region.from THEN e - Overlap ELSE region.from

\* The loop is over: back to the sections, or to the caller.
Return(C) ==
    /\ chunks' = chunks \cup C
    /\ pc' = IF kind = "md" THEN "sections" ELSE "done"

\* Without a size the text is one chunk.
NoWindows ==
    /\ pc = "windows" /\ set.size <= 0
    /\ Return({c \in {region} : NotBlank(c)})
    /\ pieces' = pieces \cup {region}
    /\ UNCHANGED <<input, lineLoop, sections, windowLoop>>

\* One round: the window is kept unless it is blank.
Slide ==
    /\ pc = "windows" /\ set.size > 0
    /\ IF start >= region.to THEN Return(Filter(windows)) /\ UNCHANGED <<start, windows, pieces>>
       ELSE LET kept == windows \cup {c \in {Window} : NotBlank(c)} IN
            /\ windows' = kept /\ pieces' = pieces \cup {Window}
            /\ IF Window.to >= region.to THEN Return(Filter(kept)) /\ UNCHANGED start
               ELSE start' = Back(Window.to) /\ UNCHANGED <<pc, chunks>>
    /\ UNCHANGED <<input, lineLoop, sections, region>>

-----------------------------------------------------------------------------
(* The line loop of chunk_code *)

\* What was gathered becomes a chunk, unless it is blank.
Flush(a, b) ==
    /\ chunks' = chunks \cup {c \in {Piece(a, b, <<>>)} : NotBlank(c)}
    /\ pieces' = pieces \cup {Piece(a, b, <<>>)}

\* The size is not looked at.
CodeLineHeld ==
    /\ kind = "code" /\ pc = "lines" /\ cursor < Size
    /\ \E e \in (cursor + 1)..Size :
          /\ IsLine(cursor, e)
          /\ cursor' = e
          /\ IF At(cursor) = Declaration /\ cursor - current >= set.min
             THEN Flush(current, cursor) /\ current' = cursor
             ELSE UNCHANGED <<chunks, pieces, current>>
    /\ UNCHANGED <<input, pc, stack, sections, windowLoop>>

\* A declaration begins a chunk, unless the one before it would be too short;
\* a chunk that has reached the size ends after the line.
CodeLine ==
    /\ kind = "code" /\ pc = "lines" /\ cursor < Size
    /\ \E e \in (cursor + 1)..Size :
          /\ IsLine(cursor, e)
          /\ cursor' = e
          /\ IF At(cursor) = Declaration /\ cursor - current >= set.min
             THEN Flush(current, cursor) /\ current' = cursor
             ELSE IF e - current >= set.size
             THEN Flush(current, e) /\ current' = e
             ELSE UNCHANGED <<chunks, pieces, current>>
    /\ UNCHANGED <<input, pc, stack, sections, windowLoop>>

CodeEnd ==
    /\ kind = "code" /\ pc = "lines" /\ cursor = Size
    /\ Flush(current, cursor)
    /\ pc' = "filter"
    /\ UNCHANGED <<input, lineLoop, sections, windowLoop>>

LastFilter ==
    /\ pc = "filter"
    /\ chunks' = Filter(chunks)
    /\ pc' = "done"
    /\ UNCHANGED <<input, lineLoop, sections, windowLoop, pieces>>

-----------------------------------------------------------------------------
Next ==
    \/ MarkdownLine \/ MarkdownEnd \/ Section
    \/ NoWindows \/ Slide
    \/ CodeLine \/ CodeEnd \/ LastFilter

Spec == Init /\ [][Next]_vars
-----------------------------------------------------------------------------
(* Properties *)

\* Every round of the window loop but the last moves on, whatever overlap is
\* configured: the loop ends.
Advances == [][pc = "windows" /\ pc' = "windows" => start' > start]_vars

\* No character is lost when a text is cut: what is not in a chunk was in a
\* short one, and only if a longer one is kept.  So a text that is not blank
\* has a chunk, although md chunks go through the filter twice.
OnlyScrapsLost ==
    pc = "done" =>
        /\ \A p \in Solid(0, Size) : \E c \in pieces : c.from <= p /\ p < c.to
        /\ chunks \subseteq pieces
        /\ \A c \in pieces \ chunks : NotBlank(c) =>
              set.min > 0 /\ ~LongEnough(c) /\ \E d \in chunks : LongEnough(d)

\* chunk_size and md_chunk_size are limits.  code_chunk_size is one up to the
\* line that reaches it; a long declaration takes one more line with it.
WithinLimit ==
    set.size > 0 => \A c \in chunks :
        IF kind = "code"
        THEN \E last \in c.from..(c.to - 1) :
                /\ IsLine(last, c.to)
                /\ last - c.from < set.size \/ IsLine(c.from, last)
        ELSE c.to - c.from <= set.size

\* section_path names the headings above each character of the chunk: those
\* with no heading of the same or a higher level between.
IsHeading(h) == At(h) \in Headings /\ (h = 0 \/ At(h - 1) \in Breaks)
Above(p) == {h \in 0..p : IsHeading(h) /\ \A g \in (h + 1)..p : IsHeading(g) => At(g) > At(h)}
PathIsAncestry ==
    \A c \in chunks :
        /\ \A i, j \in DOMAIN c.path : i < j => c.path[i] < c.path[j]
        /\ kind = "md" => \A p \in c.from..(c.to - 1) : {c.path[i] : i \in DOMAIN c.path} = Above(p)

\* The lines that a chunk cites are the lines of its characters.
CitedLines ==
    \A c \in chunks :
        LET cited == {LineNo(p) : p \in c.from..(c.to - 1)}
        IN  {LineStart(c), LineEnd(c)} \subseteq cited /\ cited \subseteq LineStart(c)..LineEnd(c)
=============================================================================
