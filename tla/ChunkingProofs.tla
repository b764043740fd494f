-------------------------- MODULE ChunkingProofs --------------------------
(***************************************************************************)
(* Theorems about Chunking, for texts of any length and any settings.      *)
(***************************************************************************)
EXTENDS Chunking, FiniteSetTheorems, TLAPS

-----------------------------------------------------------------------------
(* Shapes *)

Span(c) == c.from \in 0..Size /\ c.to \in 0..Size /\ c.from <= c.to
SpansOver(P) == [from : 0..Size, to : 0..Size, path : P]

\* Of the paths nothing is said here.
ShapeInv ==
  /\ kind \in Kinds /\ text \in Texts[kind] /\ set \in Settings
  /\ pc \in {"lines", "sections", "windows", "filter", "done"}
  /\ kind = "code" => pc \notin {"sections", "windows"}
  /\ cursor \in 0..Size /\ current \in 0..cursor
  /\ \E P : sections \in Seq(SpansOver(P))
  /\ \A i \in DOMAIN sections : sections[i].from < sections[i].to
  /\ Span(region) /\ start \in region.from..region.to
  /\ \A c \in windows \cup chunks \cup pieces : Span(c)
  /\ \A c \in windows \cup chunks : c.from < c.to
  /\ set.size <= 0 => windows = {}
  /\ DOMAIN sections # {} => kind = "md" /\ pc \in {"lines", "sections", "windows"}

Settled == Size \in Nat /\ set.size \in Int /\ set.overlap \in Int /\ set.min \in Int

LEMMA Sizes == ASSUME ShapeInv PROVE Settled
<1>1. text \in Seq(Spaces \cup {Letter, Declaration} \cup Headings)
  BY ChunkingAssumption DEF ShapeInv
<1> QED
  BY <1>1, ChunkingAssumption DEF ShapeInv, Settled, Size

LEMMA NotBlankIsNotEmpty == ASSUME NEW c, Span(c), NotBlank(c) PROVE c.from < c.to
  BY DEF Span, NotBlank, Solid

LEMMA FilterKeeps ==
  ASSUME NEW C
  PROVE  /\ Filter(C) \subseteq C
         /\ \A c \in C \ Filter(C) : NotBlank(c) =>
              ~(set.min <= 0) /\ ~LongEnough(c) /\ \E d \in Filter(C) : LongEnough(d)
         /\ \A c \in C : LongEnough(c) => c \in Filter(C)
<1>1. \A c \in C : LongEnough(c) => NotBlank(c)
  BY DEF LongEnough, NotBlank
<1> QED
  BY <1>1 DEF Filter

LEMMA PieceShape ==
  ASSUME NEW a, NEW b, NEW p
  PROVE  Piece(a, b, p).from = a /\ Piece(a, b, p).to = b /\ Piece(a, b, p).path = p
  BY DEF Piece

LEMMA WindowShape ==
  ASSUME ShapeInv, set.size > 0, start < region.to
  PROVE  /\ Span(Window) /\ Window.from = start /\ start < Window.to
         /\ Window.to - start <= set.size /\ Window.to <= region.to
         /\ Window.to < region.to =>
              Back(Window.to) \in region.from..region.to /\ start < Back(Window.to)
                /\ Back(Window.to) <= Window.to
<1>1. Settled
  BY Sizes
<1>2. /\ region.from \in 0..Size /\ region.to \in 0..Size
      /\ start \in Nat /\ region.from <= start /\ start <= region.to
  BY <1>1 DEF ShapeInv, Span, Settled
<1>3. /\ Window.from = start
      /\ Window.to = IF start + set.size < region.to THEN start + set.size ELSE region.to
  BY DEF Window, Piece
<1>4. Overlap \in Int /\ 0 <= Overlap /\ Overlap < set.size
  BY <1>1 DEF Overlap, Settled
<1>5. /\ Window.to \in Int /\ start < Window.to /\ Window.to - start <= set.size
      /\ Window.to <= region.to /\ (Window.to < region.to => Window.to = start + set.size)
  BY <1>1, <1>2, <1>3 DEF Settled
<1>6. Span(Window)
  BY <1>1, <1>2, <1>3, <1>5 DEF Span, Settled
<1>7. ASSUME Window.to < region.to
      PROVE  Back(Window.to) \in region.from..region.to /\ start < Back(Window.to)
               /\ Back(Window.to) <= Window.to
  BY <1>1, <1>2, <1>4, <1>5, <1>7 DEF Back, Settled
<1> QED
  BY <1>3, <1>5, <1>6, <1>7

LEMMA ShapeInit == Init => ShapeInv
<1> SUFFICES ASSUME Init PROVE ShapeInv
  OBVIOUS
<1>1. kind \in Kinds /\ text \in Texts[kind] /\ set \in Settings
  BY DEF Init
<1>2. Size \in Nat
  <2>1. text \in Seq(Spaces \cup {Letter, Declaration} \cup Headings)
    BY <1>1, ChunkingAssumption
  <2> QED
    BY <2>1 DEF Size
<1>3. region.from = 0 /\ region.to = Size /\ start = 0
  BY DEF Init, Whole, Piece
<1>4. sections \in Seq(SpansOver({})) /\ DOMAIN sections = {}
  BY DEF Init
<1> QED
  BY <1>1, <1>2, <1>3, <1>4 DEF Init, ShapeInv, Span

\* One more section.
LEMMA SectionsGrow ==
  ASSUME NEW P, sections \in Seq(SpansOver(P)), NEW a \in 0..Size, NEW b \in 0..Size, NEW p
  PROVE  /\ \E Q : Append(sections, Piece(a, b, p)) \in Seq(SpansOver(Q))
         /\ DOMAIN Append(sections, Piece(a, b, p)) = DOMAIN sections \cup {Len(sections) + 1}
         /\ Append(sections, Piece(a, b, p))[Len(sections) + 1] = Piece(a, b, p)
         /\ \A i \in DOMAIN sections : Append(sections, Piece(a, b, p))[i] = sections[i]
<1> DEFINE Q == P \cup {p}
<1>1. Piece(a, b, p) \in SpansOver(Q)
  BY DEF Piece, SpansOver
<1>2. SpansOver(P) \subseteq SpansOver(Q)
  BY DEF SpansOver
<1> HIDE DEF Q
<1>3. sections \in Seq(SpansOver(Q))
  BY <1>2
<1> QED
  BY <1>1, <1>3

LEMMA SectionsShrink ==
  ASSUME NEW P, sections \in Seq(SpansOver(P)), sections # <<>>
  PROVE  /\ Head(sections) = sections[1] /\ 1 \in DOMAIN sections
         /\ sections[1] \in SpansOver(P)
         /\ Tail(sections) \in Seq(SpansOver(P))
         /\ \A i \in DOMAIN Tail(sections) : i + 1 \in DOMAIN sections /\ Tail(sections)[i] = sections[i + 1]
         /\ \A i \in DOMAIN sections : i = 1 \/ (i - 1 \in DOMAIN Tail(sections)
                                               /\ Tail(sections)[i - 1] = sections[i])
  OBVIOUS

LEMMA InputKept ==
  ASSUME UNCHANGED input
  PROVE  Size' = Size /\ kind' = kind /\ set' = set /\ text' = text
  BY DEF input, Size

\* A step that leaves the lines and the sections alone.
LEMMA ShapeOfLoops ==
  ASSUME ShapeInv, UNCHANGED <<input, lineLoop>>,
         pc' \in {"lines", "sections", "windows", "filter", "done"},
         kind = "code" => pc' \notin {"sections", "windows"},
         \E P : sections' \in Seq(SpansOver(P)),
         \A i \in DOMAIN sections' : sections'[i].from < sections'[i].to,
         Span(region'), start' \in region'.from..region'.to,
         \A c \in windows' \cup chunks' \cup pieces' : Span(c),
         \A c \in windows' \cup chunks' : c.from < c.to,
         set.size <= 0 => windows' = {},
         DOMAIN sections' # {} => kind = "md" /\ pc' \in {"lines", "sections", "windows"}
  PROVE  ShapeInv'
<1>1. Size' = Size /\ kind' = kind /\ set' = set /\ text' = text /\ cursor' = cursor /\ current' = current
  BY InputKept DEF lineLoop
<1> QED
  BY <1>1 DEF ShapeInv, Span, SpansOver

LEMMA ShapeLines ==
  ASSUME ShapeInv, MarkdownLine \/ MarkdownEnd
  PROVE  ShapeInv'
<1>1. UNCHANGED <<input, region, start, windows, chunks, pieces>> /\ kind = "md"
  BY DEF MarkdownLine, MarkdownEnd, windowLoop
<1>2. Size' = Size /\ kind' = kind /\ set' = set /\ text' = text
  BY <1>1, InputKept
<1>3. pc' \in {"lines", "sections"} /\ cursor' \in 0..Size /\ current' \in 0..cursor'
  BY Sizes DEF MarkdownLine, MarkdownEnd, ShapeInv, lineLoop, Settled
<1>4. /\ \E Q : sections' \in Seq(SpansOver(Q))
      /\ \A i \in DOMAIN sections' : sections'[i].from < sections'[i].to
  <2>1. CASE sections' = sections
    BY <2>1 DEF ShapeInv
  <2>2. CASE sections' = Append(sections, Piece(current, cursor, stack)) /\ current < cursor
    <3>1. current \in 0..Size /\ cursor \in 0..Size
      BY Sizes DEF ShapeInv, Settled
    <3>2. PICK P : sections \in Seq(SpansOver(P))
      BY DEF ShapeInv
    <3>3. /\ \E Q : sections' \in Seq(SpansOver(Q))
          /\ DOMAIN sections' = DOMAIN sections \cup {Len(sections) + 1}
          /\ sections'[Len(sections) + 1] = Piece(current, cursor, stack)
          /\ \A i \in DOMAIN sections : sections'[i] = sections[i]
      BY <2>2, <3>1, <3>2, SectionsGrow
    <3> QED
      BY <2>2, <3>3, PieceShape DEF ShapeInv
  <2> QED
    BY <2>1, <2>2 DEF MarkdownLine, MarkdownEnd
<1>5. /\ Span(region) /\ start \in region.from..region.to
      /\ \A c \in windows \cup chunks \cup pieces : Span(c)
      /\ \A c \in windows \cup chunks : c.from < c.to
      /\ set.size <= 0 => windows = {}
  BY DEF ShapeInv
<1>6. kind \in Kinds /\ text \in Texts[kind] /\ set \in Settings
  BY DEF ShapeInv
<1> QED
  BY <1>1, <1>2, <1>3, <1>4, <1>5, <1>6 DEF ShapeInv, Span, SpansOver

LEMMA ShapeSection == ASSUME ShapeInv, Section PROVE ShapeInv'
<1>1. UNCHANGED <<input, lineLoop>> /\ pc = "sections" /\ kind # "code"
  BY DEF Section, ShapeInv
<1>2. CASE sections = <<>>
  <2>1. pc' = "filter" /\ UNCHANGED <<sections, region, start, windows, chunks, pieces>>
        /\ DOMAIN sections = {}
    BY <1>2 DEF Section, windowLoop
  <2> QED
    BY <1>1, <2>1, ShapeOfLoops DEF ShapeInv
<1>3. CASE sections # <<>>
  <2>1. PICK P : sections \in Seq(SpansOver(P))
    BY DEF ShapeInv
  <2> DEFINE s == sections[1]
  <2>2. /\ Head(sections) = s /\ s \in SpansOver(P) /\ s.from < s.to
        /\ Tail(sections) \in Seq(SpansOver(P))
        /\ \A i \in DOMAIN Tail(sections) : Tail(sections)[i].from < Tail(sections)[i].to
    BY <1>3, <2>1, SectionsShrink DEF ShapeInv
  <2>3. Span(s) /\ s.from \in s.from..s.to
    BY <2>2, Sizes DEF SpansOver, Span, Settled
  <2>4. sections' = Tail(sections)
    BY <1>3 DEF Section
  <2>5. CASE s.to - s.from <= set.size
    <3>1. /\ chunks' = chunks \cup {s} /\ pieces' = pieces \cup {s}
          /\ UNCHANGED <<pc, region, start, windows>>
      BY <1>3, <2>2, <2>5 DEF Section, windowLoop
    <3>2. /\ \A c \in windows' \cup chunks' \cup pieces' : Span(c)
          /\ \A c \in windows' \cup chunks' : c.from < c.to
      BY <2>2, <2>3, <3>1 DEF ShapeInv
    <3> HIDE DEF s
    <3> QED
      BY <1>1, <2>2, <2>4, <3>1, <3>2, ShapeOfLoops DEF ShapeInv
  <2>6. CASE ~(s.to - s.from <= set.size)
    <3>1. region' = s /\ start' = s.from /\ windows' = {} /\ pc' = "windows"
          /\ UNCHANGED <<chunks, pieces>>
      BY <1>3, <2>2, <2>6 DEF Section
    <3> HIDE DEF s
    <3> QED
      BY <1>1, <2>2, <2>3, <2>4, <3>1, ShapeOfLoops DEF ShapeInv
  <2> QED
    BY <2>5, <2>6
<1> QED
  BY <1>2, <1>3

LEMMA ShapeNoWindows == ASSUME ShapeInv, NoWindows PROVE ShapeInv'
<1>1. /\ UNCHANGED <<input, lineLoop, sections, region, start, windows>> /\ kind # "code"
      /\ chunks' = chunks \cup {c \in {region} : NotBlank(c)} /\ pieces' = pieces \cup {region}
      /\ pc' \in {"sections", "done"}
      /\ DOMAIN sections # {} => kind = "md" /\ pc' = "sections"
  BY DEF NoWindows, Return, windowLoop, ShapeInv
<1>2. Span(region) /\ (NotBlank(region) => region.from < region.to)
  BY NotBlankIsNotEmpty DEF ShapeInv
<1>3. /\ \A c \in windows' \cup chunks' \cup pieces' : Span(c)
      /\ \A c \in windows' \cup chunks' : c.from < c.to
  BY <1>1, <1>2 DEF ShapeInv
<1> QED
  BY <1>1, <1>3, ShapeOfLoops DEF ShapeInv

\* What one round of the window loop does.
Kept == windows \cup {c \in {Window} : NotBlank(c)}

LEMMA SlideCases ==
  ASSUME ShapeInv, Slide
  PROVE  /\ UNCHANGED <<input, lineLoop, sections, region>>
         /\ set.size > 0 /\ pc = "windows" /\ kind # "code"
         /\ \/ /\ start >= region.to /\ chunks' = chunks \cup Filter(windows)
               /\ pc' = IF kind = "md" THEN "sections" ELSE "done"
               /\ UNCHANGED <<start, windows, pieces>>
            \/ /\ start < region.to /\ windows' = Kept /\ pieces' = pieces \cup {Window}
               /\ Window.to = region.to /\ chunks' = chunks \cup Filter(Kept)
               /\ pc' = IF kind = "md" THEN "sections" ELSE "done"
               /\ UNCHANGED start
            \/ /\ start < region.to /\ windows' = Kept /\ pieces' = pieces \cup {Window}
               /\ Window.to < region.to /\ start' = Back(Window.to)
               /\ UNCHANGED <<pc, chunks>>
<1>1. UNCHANGED <<input, lineLoop, sections, region>> /\ set.size > 0 /\ pc = "windows" /\ kind # "code"
  BY DEF Slide, ShapeInv
<1>2. region.to \in Int /\ start \in Int
  BY Sizes DEF ShapeInv, Span, Settled
<1>3. CASE start >= region.to
  BY <1>1, <1>3 DEF Slide, Return
<1>4. CASE start < region.to
  <2>1. Window.to \in Int /\ Window.to <= region.to
    BY <1>1, <1>4, Sizes, WindowShape DEF Span, Settled
  <2>2. windows' = Kept /\ pieces' = pieces \cup {Window}
    BY <1>2, <1>4 DEF Slide, Kept
  <2>3. CASE Window.to >= region.to
    BY <1>1, <1>2, <1>4, <2>1, <2>2, <2>3 DEF Slide, Return, Kept
  <2>4. CASE ~(Window.to >= region.to)
    BY <1>1, <1>2, <1>4, <2>1, <2>2, <2>4 DEF Slide, Return, Kept
  <2> QED
    BY <2>3, <2>4
<1> QED
  BY <1>1, <1>2, <1>3, <1>4

LEMMA ShapeSlide == ASSUME ShapeInv, Slide PROVE ShapeInv'
<1>1. /\ UNCHANGED <<input, lineLoop, sections, region>> /\ set.size > 0 /\ kind # "code"
      /\ pc' \in {"windows", "sections", "done"}
      /\ DOMAIN sections # {} => kind = "md" /\ pc' # "done"
  BY SlideCases DEF ShapeInv
<1>2. ~(set.size <= 0)
  BY <1>1, Sizes DEF Settled
<1>3. /\ start' \in region.from..region.to
      /\ \A c \in windows' : Span(c) /\ c.from < c.to
      /\ \A c \in pieces' : Span(c)
      /\ chunks' \subseteq chunks \cup windows'
  <2>1. CASE start >= region.to /\ chunks' = chunks \cup Filter(windows)
             /\ UNCHANGED <<start, windows, pieces>>
    BY <2>1, FilterKeeps DEF ShapeInv
  <2>2. CASE start < region.to /\ windows' = Kept /\ pieces' = pieces \cup {Window}
             /\ (UNCHANGED <<start, chunks>> \/ (chunks' = chunks \cup Filter(Kept) /\ UNCHANGED start)
                 \/ (Window.to < region.to /\ start' = Back(Window.to) /\ UNCHANGED chunks))
    <3>1. Span(Window) /\ (NotBlank(Window) => Window.from < Window.to)
      BY <1>1, <2>2, WindowShape, NotBlankIsNotEmpty
    <3>2. start' \in region.from..region.to
      BY <1>1, <2>2, WindowShape DEF ShapeInv
    <3>3. \A c \in Kept : Span(c) /\ c.from < c.to
      BY <3>1 DEF Kept, ShapeInv
    <3>4. Filter(Kept) \subseteq Kept
      BY FilterKeeps
    <3>5. chunks' \subseteq chunks \cup windows'
      BY <2>2, <3>4
    <3> QED
      BY <2>2, <3>1, <3>2, <3>3, <3>5 DEF ShapeInv
  <2> QED
    BY <2>1, <2>2, SlideCases
<1>4. /\ \A c \in windows' \cup chunks' \cup pieces' : Span(c)
      /\ \A c \in windows' \cup chunks' : c.from < c.to
  BY <1>3 DEF ShapeInv
<1> QED
  BY <1>1, <1>2, <1>3, <1>4, ShapeOfLoops DEF ShapeInv

\* What one line of chunk_code does: e is the end of the line.
CodeKeeps(e) ==
  current' = current /\ UNCHANGED <<chunks, pieces>> /\ e - current < set.size
CodeBreaks(a, b) ==
  /\ current' = b
  /\ chunks' = chunks \cup {c \in {Piece(a, b, <<>>)} : NotBlank(c)}
  /\ pieces' = pieces \cup {Piece(a, b, <<>>)}

LEMMA CodeCases ==
  ASSUME ShapeInv, CodeLine
  PROVE  /\ UNCHANGED <<input, pc, stack, sections, windowLoop>> /\ kind = "code" /\ pc = "lines"
         /\ \E e \in (cursor + 1)..Size :
               /\ IsLine(cursor, e) /\ cursor' = e
               /\ \/ CodeBreaks(current, cursor)
                  \/ CodeBreaks(current, e)
                  \/ CodeKeeps(e)
<1>1. UNCHANGED <<input, pc, stack, sections, windowLoop>> /\ kind = "code" /\ pc = "lines"
  BY DEF CodeLine
<1>2. PICK e \in (cursor + 1)..Size :
         /\ IsLine(cursor, e)
         /\ cursor' = e
         /\ IF At(cursor) = Declaration /\ cursor - current >= set.min
            THEN Flush(current, cursor) /\ current' = cursor
            ELSE IF e - current >= set.size
            THEN Flush(current, e) /\ current' = e
            ELSE UNCHANGED <<chunks, pieces, current>>
  BY DEF CodeLine
<1>3. e \in Int /\ current \in Int /\ set.size \in Int
  BY Sizes DEF ShapeInv, Settled
<1> QED
  BY <1>1, <1>2, <1>3 DEF Flush, CodeBreaks, CodeKeeps

LEMMA ShapeCode == ASSUME ShapeInv, CodeLine \/ CodeEnd PROVE ShapeInv'
<1>0. Settled
  BY Sizes
<1>1. /\ UNCHANGED <<input, sections, region, start, windows>> /\ kind = "code"
      /\ pc' \in {"lines", "filter"} /\ cursor' \in 0..Size /\ current' \in 0..cursor'
  <2>1. CASE CodeLine
    <3>1. cursor \in 0..Size /\ current \in 0..cursor
      BY DEF ShapeInv
    <3> QED
      BY <1>0, <2>1, <3>1, CodeCases DEF CodeBreaks, CodeKeeps, windowLoop, Settled
  <2>2. CASE CodeEnd
    BY <2>2 DEF CodeEnd, lineLoop, windowLoop, ShapeInv
  <2> QED
    BY <2>1, <2>2
<1>2. /\ \A c \in chunks' \cup pieces' : Span(c)
      /\ \A c \in chunks' : c.from < c.to
  <2>1. ASSUME NEW a \in 0..Size, NEW b \in 0..Size, a <= b,
               chunks' = chunks \cup {c \in {Piece(a, b, <<>>)} : NotBlank(c)},
               pieces' = pieces \cup {Piece(a, b, <<>>)}
        PROVE  (\A c \in chunks' \cup pieces' : Span(c)) /\ \A c \in chunks' : c.from < c.to
    <3>1. Span(Piece(a, b, <<>>))
      BY <2>1, PieceShape DEF Span
    <3>2. NotBlank(Piece(a, b, <<>>)) => Piece(a, b, <<>>).from < Piece(a, b, <<>>).to
      BY <3>1, NotBlankIsNotEmpty
    <3> QED
      BY <2>1, <3>1, <3>2 DEF ShapeInv
  <2>2. current \in 0..Size /\ cursor \in 0..Size /\ current <= cursor
    BY <1>0 DEF ShapeInv, Settled
  <2>3. CASE UNCHANGED <<chunks, pieces>>
    BY <2>3 DEF ShapeInv
  <2>4. CASE CodeEnd
    BY <2>1, <2>2, <2>4 DEF CodeEnd, Flush
  <2>5. ASSUME NEW e \in (cursor + 1)..Size, CodeBreaks(current, cursor) \/ CodeBreaks(current, e)
        PROVE  (\A c \in chunks' \cup pieces' : Span(c)) /\ \A c \in chunks' : c.from < c.to
    <3>1. e \in 0..Size /\ current <= e
      BY <1>0, <2>2 DEF Settled
    <3> QED
      BY <2>1, <2>2, <2>5, <3>1 DEF CodeBreaks
  <2> QED
    BY <2>3, <2>4, <2>5, CodeCases DEF CodeKeeps
<1>3. Size' = Size /\ kind' = kind /\ set' = set /\ text' = text
  BY <1>1, InputKept
<1>4. /\ \E P : sections \in Seq(SpansOver(P))
      /\ \A i \in DOMAIN sections : sections[i].from < sections[i].to
      /\ Span(region) /\ start \in region.from..region.to
      /\ \A c \in windows : Span(c) /\ c.from < c.to
      /\ set.size <= 0 => windows = {}
      /\ kind \in Kinds /\ text \in Texts[kind] /\ set \in Settings
  BY DEF ShapeInv
<1> QED
  BY <1>1, <1>2, <1>3, <1>4 DEF ShapeInv, Span, SpansOver

LEMMA ShapeLastFilter == ASSUME ShapeInv, LastFilter PROVE ShapeInv'
<1>1. /\ UNCHANGED <<input, lineLoop, sections, region, start, windows, pieces>>
      /\ chunks' \subseteq chunks /\ pc' = "done" /\ DOMAIN sections = {}
  BY FilterKeeps DEF LastFilter, windowLoop, ShapeInv
<1>2. /\ \A c \in windows' \cup chunks' \cup pieces' : Span(c)
      /\ \A c \in windows' \cup chunks' : c.from < c.to
  BY <1>1 DEF ShapeInv
<1> QED
  BY <1>1, <1>2, ShapeOfLoops DEF ShapeInv

LEMMA ShapeNext == ShapeInv /\ [Next]_vars => ShapeInv'
<1> SUFFICES ASSUME ShapeInv, [Next]_vars PROVE ShapeInv'
  OBVIOUS
<1>1. CASE UNCHANGED vars
  <2>1. UNCHANGED <<input, lineLoop, sections, region, start, windows, chunks, pieces, pc>>
    BY <1>1 DEF vars, input, lineLoop
  <2> QED
    BY <2>1, ShapeOfLoops DEF ShapeInv
<1> QED
  BY <1>1, ShapeLines, ShapeSection, ShapeNoWindows, ShapeSlide, ShapeCode, ShapeLastFilter DEF Next

LEMMA ShapeHolds == Spec => []ShapeInv
<1> QED
  BY ShapeInit, ShapeNext, PTL DEF Spec

\* The window loop of chunk_text_with_offsets moves on in every round, whatever
\* overlap and size are configured.
THEOREM WindowsAdvance == Spec => Advances
<1>1. ShapeInv /\ [Next]_vars => [pc = "windows" /\ pc' = "windows" => start' > start]_vars
  <2>1. SUFFICES ASSUME ShapeInv, Next, pc = "windows", pc' = "windows" PROVE start' > start
    OBVIOUS
  <2>2. start \in Int /\ Settled
    BY <2>1, Sizes DEF ShapeInv, Span, Settled
  <2>3. CASE Slide
    <3>1. set.size > 0 /\ start < region.to /\ Window.to < region.to /\ start' = Back(Window.to)
      BY <2>1, <2>3, SlideCases
    <3>2. start < Back(Window.to) /\ Back(Window.to) \in Int
      BY <2>1, <3>1, WindowShape
    <3> QED
      BY <2>2, <3>1, <3>2
  <2> QED
    BY <2>1, <2>3 DEF Next, MarkdownLine, MarkdownEnd, Section, NoWindows, Return, CodeLine, CodeEnd,
       LastFilter
<1> QED
  BY <1>1, ShapeHolds, PTL DEF Spec, Advances

-----------------------------------------------------------------------------
(* The cited lines *)

LEMMA LineNoMonotone ==
  ASSUME NEW p \in Nat, NEW q \in Nat, p <= q
  PROVE  LineNo(p) \in Nat /\ LineNo(q) \in Nat /\ LineNo(p) <= LineNo(q)
<1> DEFINE F(n) == {i \in 0..(n - 1) : At(i) = LineFeed}
<1>1. IsFiniteSet(0..(p - 1)) /\ IsFiniteSet(0..(q - 1))
  BY FS_Interval
<1>2. F(p) \subseteq 0..(p - 1) /\ F(q) \subseteq 0..(q - 1) /\ F(p) \subseteq F(q)
  OBVIOUS
<1>3. IsFiniteSet(F(p)) /\ IsFiniteSet(F(q))
  <2> HIDE DEF F
  <2> QED
    BY <1>1, <1>2, FS_Subset
<1>4. Cardinality(F(p)) \in Nat /\ Cardinality(F(q)) \in Nat
  <2> HIDE DEF F
  <2> QED
    BY <1>3, FS_CardinalityType
<1>5. Cardinality(F(p)) <= Cardinality(F(q))
  <2> HIDE DEF F
  <2> QED
    BY <1>2, <1>3, FS_Subset
<1>6. LineNo(p) = 1 + Cardinality(F(p)) /\ LineNo(q) = 1 + Cardinality(F(q))
  BY DEF LineNo
<1> HIDE DEF F
<1> QED
  BY <1>4, <1>5, <1>6

\* The lines of _make_chunk are those of the characters of the chunk.
THEOREM ChunksCiteTheirLines == Spec => []CitedLines
<1>1. ShapeInv => CitedLines
  <2>1. SUFFICES ASSUME ShapeInv, NEW c \in chunks
                 PROVE  LET cited == {LineNo(p) : p \in c.from..(c.to - 1)}
                        IN  {LineStart(c), LineEnd(c)} \subseteq cited
                              /\ cited \subseteq LineStart(c)..LineEnd(c)
    BY DEF CitedLines
  <2>2. c.from \in Nat /\ c.to \in Nat /\ c.from < c.to
    BY <2>1, Sizes DEF ShapeInv, Span, Settled
  <2>3. LineStart(c) = LineNo(c.from) /\ LineEnd(c) = LineNo(c.to - 1)
    BY <2>2 DEF LineStart, LineEnd
  <2>4. c.from \in c.from..(c.to - 1) /\ c.to - 1 \in c.from..(c.to - 1)
    BY <2>2
  <2>5. ASSUME NEW p \in c.from..(c.to - 1)
        PROVE  LineNo(p) \in LineNo(c.from)..LineNo(c.to - 1)
    <3>1. p \in Nat /\ c.to - 1 \in Nat /\ c.from <= p /\ p <= c.to - 1
      BY <2>2
    <3> QED
      BY <2>2, <3>1, LineNoMonotone
  <2> QED
    BY <2>3, <2>4, <2>5
<1> QED
  BY <1>1, ShapeHolds, PTL

-----------------------------------------------------------------------------
(* The limit *)

\* [a, b) ends with a line that began below the limit, or is two lines.
Ending(a, b) ==
  \E last \in a..(b - 1) : IsLine(last, b) /\ (last - a < set.size \/ IsLine(a, last))
Within(c) == IF kind = "code" THEN Ending(c.from, c.to) ELSE c.to - c.from <= set.size

\* What chunk_code gathers is below the limit, or is one line.
LimitInv ==
  /\ set.size > 0 => \A c \in windows \cup chunks : Within(c)
  /\ kind = "code" /\ pc = "lines" /\ set.size > 0 =>
       /\ current < cursor => Ending(current, cursor)
       /\ cursor - current < set.size \/ IsLine(current, cursor)

LEMMA LimitInit == Init => LimitInv
<1> SUFFICES ASSUME Init PROVE LimitInv
  OBVIOUS
<1>1. windows = {} /\ chunks = {} /\ current = 0 /\ cursor = 0
  BY DEF Init
<1>2. 0 - 0 < set.size <=> 0 < set.size
  BY ShapeInit, Sizes DEF Settled
<1> QED
  BY <1>1, <1>2, ShapeInit, Sizes DEF LimitInv, Settled

LEMMA WithinKept ==
  ASSUME UNCHANGED input
  PROVE  /\ \A c : Within(c)' <=> Within(c)
         /\ \A a, b : Ending(a, b)' <=> Ending(a, b)
         /\ \A a, b : IsLine(a, b)' <=> IsLine(a, b)
<1>1. Size' = Size /\ kind' = kind /\ set' = set /\ text' = text
  BY InputKept
<1>2. \A a, b : IsLine(a, b)' <=> IsLine(a, b)
  BY <1>1 DEF IsLine, At
<1>3. \A a, b : Ending(a, b)' <=> Ending(a, b)
  BY <1>1, <1>2 DEF Ending
<1> QED
  BY <1>1, <1>2, <1>3 DEF Within

LEMMA LimitCode ==
  ASSUME ShapeInv, LimitInv, CodeLine, set.size > 0
  PROVE  /\ \A c \in chunks' : Within(c)
         /\ current' < cursor' => Ending(current', cursor')
         /\ cursor' - current' < set.size \/ IsLine(current', cursor')
<1>1. kind = "code" /\ pc = "lines" /\ set.size \in Int
  BY CodeCases, Sizes DEF Settled
<1>2. PICK e \in (cursor + 1)..Size :
         /\ IsLine(cursor, e) /\ cursor' = e
         /\ CodeBreaks(current, cursor) \/ CodeBreaks(current, e) \/ CodeKeeps(e)
  BY CodeCases
<1>3. current \in Nat /\ cursor \in Nat /\ e \in Nat /\ current <= cursor /\ cursor < e
  BY Sizes DEF ShapeInv, Settled
<1>4. /\ current < cursor => Ending(current, cursor)
      /\ cursor - current < set.size \/ IsLine(current, cursor)
  BY <1>1 DEF LimitInv
\* The line at hand ends what is gathered with it.
<1>5. Ending(current, e) /\ Ending(cursor, e)
  <2>1. cursor \in current..(e - 1) /\ cursor \in cursor..(e - 1) /\ cursor - cursor < set.size
    BY <1>3, <1>1
  <2> QED
    BY <1>2, <1>4, <2>1 DEF Ending
<1>6. ASSUME NEW a \in Nat, NEW b \in Nat, a <= b, b <= Size, a < b => Ending(a, b), CodeBreaks(a, b)
      PROVE  \A c \in chunks' : Within(c)
  <2>1. Span(Piece(a, b, <<>>)) /\ Piece(a, b, <<>>).from = a /\ Piece(a, b, <<>>).to = b
    BY <1>6, Sizes, PieceShape DEF Span, Settled
  <2>2. NotBlank(Piece(a, b, <<>>)) => Within(Piece(a, b, <<>>))
    BY <1>1, <1>6, <2>1, NotBlankIsNotEmpty DEF Within
  <2> QED
    BY <1>6, <2>2 DEF CodeBreaks, LimitInv
<1>7. CASE CodeBreaks(current, cursor)
  <2>1. current' = cursor /\ cursor <= Size
    BY <1>3, <1>7, Sizes DEF CodeBreaks, ShapeInv, Settled
  <2> QED
    BY <1>2, <1>3, <1>4, <1>5, <1>6, <1>7, <2>1
<1>8. CASE CodeBreaks(current, e)
  <2>1. current' = e /\ ~(e < e) /\ e - e < set.size /\ e <= Size /\ current <= e
    BY <1>1, <1>3, <1>8, Sizes DEF CodeBreaks, Settled
  <2> QED
    BY <1>2, <1>3, <1>5, <1>6, <1>8, <2>1
<1>9. CASE CodeKeeps(e)
  BY <1>2, <1>5, <1>9 DEF CodeKeeps, LimitInv
<1> QED
  BY <1>2, <1>7, <1>8, <1>9

LEMMA LimitNext == ShapeInv /\ LimitInv /\ [Next]_vars => LimitInv'
<1> SUFFICES ASSUME ShapeInv, LimitInv, [Next]_vars PROVE LimitInv'
  OBVIOUS
<1>0. Settled
  BY Sizes
<1>1. UNCHANGED input
  BY DEF Next, MarkdownLine, MarkdownEnd, Section, NoWindows, Slide, CodeLine, CodeEnd, LastFilter,
     vars, input
<1>2. /\ kind' = kind /\ set' = set
      /\ \A c : Within(c)' <=> Within(c)
      /\ \A a, b : Ending(a, b)' <=> Ending(a, b)
      /\ \A a, b : IsLine(a, b)' <=> IsLine(a, b)
  BY <1>1, InputKept, WithinKept
<1>3. CASE ~(set.size > 0)
  BY <1>2, <1>3 DEF LimitInv
\* Outside the line loop of chunk_code only the chunks matter.
<1>4. ASSUME set.size > 0, kind # "code" \/ pc' # "lines",
             \A c \in (windows' \cup chunks') \ (windows \cup chunks) : Within(c)
      PROVE  LimitInv'
  BY <1>2, <1>4 DEF LimitInv
<1>5. CASE set.size > 0 /\ (MarkdownLine \/ MarkdownEnd)
  BY <1>4, <1>5 DEF MarkdownLine, MarkdownEnd, windowLoop
<1>6. CASE set.size > 0 /\ Section
  <2>1. kind # "code"
    BY <1>6 DEF Section, ShapeInv
  <2>2. \A c \in (windows' \cup chunks') \ (windows \cup chunks) : c.to - c.from <= set.size
    BY <1>6 DEF Section, windowLoop
  <2> QED
    BY <1>4, <1>6, <2>1, <2>2 DEF Within
<1>7. CASE set.size > 0 /\ NoWindows
  BY <1>0, <1>7 DEF NoWindows, Settled
<1>8. CASE set.size > 0 /\ Slide
  <2>1. kind # "code"
    BY <1>8, SlideCases
  <2>2. start < region.to => Window.to - Window.from <= set.size
    BY <1>8, WindowShape
  <2>3. \A c \in (windows' \cup chunks') \ (windows \cup chunks) : c = Window /\ start < region.to
    <3>1. Filter(windows) \subseteq windows /\ Filter(Kept) \subseteq Kept
      BY FilterKeeps
    <3> QED
      BY <1>8, <3>1, SlideCases DEF Kept
  <2> QED
    BY <1>4, <1>8, <2>1, <2>2, <2>3 DEF Within
<1>9. CASE set.size > 0 /\ CodeLine
  <2>1. windows' = windows
    BY <1>9 DEF CodeLine, windowLoop
  <2>2. /\ \A c \in chunks' : Within(c)
        /\ current' < cursor' => Ending(current', cursor')
        /\ cursor' - current' < set.size \/ IsLine(current', cursor')
    BY <1>9, LimitCode
  <2>3. /\ Ending(current', cursor') => Ending(current, cursor)'
        /\ IsLine(current', cursor') => IsLine(current, cursor)'
    BY <1>1, InputKept DEF Ending, IsLine, At
  <2> QED
    BY <1>2, <2>1, <2>2, <2>3 DEF LimitInv
<1>10. CASE set.size > 0 /\ CodeEnd
  <2>1. kind = "code" /\ pc = "lines" /\ pc' = "filter" /\ windows' = windows
        /\ chunks' = chunks \cup {c \in {Piece(current, cursor, <<>>)} : NotBlank(c)}
    BY <1>10 DEF CodeEnd, Flush, windowLoop
  <2>2. Span(Piece(current, cursor, <<>>))
    BY <1>0, PieceShape DEF Span, ShapeInv, Settled
  <2>3. NotBlank(Piece(current, cursor, <<>>)) => Within(Piece(current, cursor, <<>>))
    BY <1>10, <2>1, <2>2, NotBlankIsNotEmpty, PieceShape DEF Within, LimitInv
  <2> QED
    BY <1>4, <1>10, <2>1, <2>3
<1>11. CASE set.size > 0 /\ LastFilter
  BY <1>4, <1>11, FilterKeeps DEF LastFilter, windowLoop
<1>12. CASE UNCHANGED vars
  BY <1>12 DEF vars, LimitInv, Within, Ending, IsLine, At, Size
<1> QED
  BY <1>3, <1>5, <1>6, <1>7, <1>8, <1>9, <1>10, <1>11, <1>12 DEF Next

\* md_chunk_size and chunk_size are limits; a chunk of code goes beyond
\* code_chunk_size only by the line that reaches it, or after a first line
\* that is too long.
THEOREM ChunksWithinLimit == Spec => []WithinLimit
<1>1. LimitInv => WithinLimit
  BY DEF LimitInv, WithinLimit, Within, Ending
<1>2. ShapeInv /\ LimitInv /\ [Next]_vars => LimitInv'
  BY LimitNext
<1> QED
  BY <1>1, <1>2, LimitInit, ShapeHolds, PTL DEF Spec

-----------------------------------------------------------------------------
(* Nothing is lost *)

In(p, c) == c.from <= p /\ p < c.to

\* Where a character is: in a piece, in a section, or still to be cut.
Somewhere(p) ==
  \/ \E c \in pieces : In(p, c)
  \/ \E i \in DOMAIN sections : In(p, sections[i])
  \/ pc = "lines" /\ current <= p
  \/ pc = "windows" /\ start <= p /\ p < region.to

\* Why a piece is not among the chunks.
Scrap(c) == ~(set.min <= 0) /\ ~LongEnough(c) /\ \E d \in chunks : LongEnough(d)

ScrapsInv ==
  /\ \A p \in Solid(0, Size) : Somewhere(p)
  /\ chunks \subseteq pieces
  /\ pc = "windows" => windows \subseteq pieces
  /\ \A c \in pieces \ chunks : NotBlank(c) => Scrap(c) \/ (pc = "windows" /\ c \in windows)

LEMMA SolidTyped == ASSUME ShapeInv, NEW p \in Solid(0, Size) PROVE p \in Nat /\ p < Size
  BY Sizes DEF Solid, Settled

LEMMA ScrapsInit == Init => ScrapsInv
<1> SUFFICES ASSUME Init PROVE ScrapsInv
  OBVIOUS
<1>1. ShapeInv
  BY ShapeInit
<1>2. pieces = {} /\ chunks = {} /\ windows = {} /\ current = 0 /\ start = 0 /\ region.to = Size
      /\ pc \in {"lines", "windows"}
  BY DEF Init, Whole, Piece
<1>3. \A p \in Solid(0, Size) : 0 <= p /\ p < Size
  BY <1>1, SolidTyped
<1> QED
  BY <1>2, <1>3 DEF ScrapsInv, Somewhere

LEMMA TextKept ==
  ASSUME UNCHANGED input
  PROVE  /\ Solid(0, Size)' = Solid(0, Size)
         /\ \A c : NotBlank(c)' <=> NotBlank(c)
         /\ \A c : LongEnough(c)' <=> LongEnough(c)
         /\ set' = set
<1>1. Size' = Size /\ kind' = kind /\ set' = set /\ text' = text
  BY InputKept
<1>2. \A a, b : Solid(a, b)' = Solid(a, b)
  BY <1>1 DEF Solid, At
<1> QED
  BY <1>1, <1>2 DEF NotBlank, LongEnough, Solid, At

\* A step that cuts one more piece; D are the chunks that it adds.
LEMMA ScrapsOfStep ==
  ASSUME ShapeInv, ScrapsInv, UNCHANGED input,
         pieces \subseteq pieces', chunks \subseteq chunks', chunks' \subseteq pieces',
         pc' = "windows" => windows' \subseteq pieces',
         \A p \in Solid(0, Size) : Somewhere(p)',
         \A c \in pieces' \ (pieces \cup chunks') : NotBlank(c) =>
              Scrap(c)' \/ (pc' = "windows" /\ c \in windows'),
         pc = "windows" => \A c \in windows \ chunks' : NotBlank(c) =>
                              Scrap(c)' \/ (pc' = "windows" /\ c \in windows')
  PROVE  ScrapsInv'
<1>1. \A c \in pieces \ chunks' : NotBlank(c) => Scrap(c)' \/ (pc' = "windows" /\ c \in windows')
  <2>1. SUFFICES ASSUME NEW c \in pieces \ chunks', NotBlank(c)
                 PROVE  Scrap(c)' \/ (pc' = "windows" /\ c \in windows')
    OBVIOUS
  <2>2. Scrap(c) \/ (pc = "windows" /\ c \in windows)
    BY <2>1 DEF ScrapsInv
  <2>3. Scrap(c) => Scrap(c)'
    BY TextKept DEF Scrap
  <2> QED
    BY <2>1, <2>2, <2>3
<1> QED
  BY <1>1, TextKept DEF ScrapsInv

LEMMA ScrapsLines == ASSUME ShapeInv, ScrapsInv, MarkdownLine \/ MarkdownEnd PROVE ScrapsInv'
<1>0. UNCHANGED <<input, windows, chunks, pieces, region, start>> /\ pc = "lines"
      /\ pc' \in {"lines", "sections"}
  BY DEF MarkdownLine, MarkdownEnd, windowLoop
<1>1. current \in Nat /\ cursor \in Nat /\ current <= cursor
  BY Sizes DEF ShapeInv, Settled
<1>2. \A p \in Solid(0, Size) : Somewhere(p)'
  <2>1. SUFFICES ASSUME NEW p \in Solid(0, Size) PROVE Somewhere(p)'
    OBVIOUS
  <2>2. p \in Nat /\ p < Size
    BY SolidTyped
  <2>3. (\E c \in pieces : In(p, c)) \/ (\E i \in DOMAIN sections : In(p, sections[i])) \/ current <= p
    BY <1>0 DEF ScrapsInv, Somewhere
  <2>4. CASE \E c \in pieces : In(p, c)
    BY <1>0, <2>4 DEF Somewhere
  <2>5. CASE sections' = Append(sections, Piece(current, cursor, stack)) /\ current < cursor
             /\ ((pc' = "lines" /\ current' = cursor) \/ cursor = Size)
    <3>1. PICK P : sections \in Seq(SpansOver(P))
      BY DEF ShapeInv
    <3>2. current \in 0..Size /\ cursor \in 0..Size
      BY Sizes DEF ShapeInv, Settled
    <3>3. /\ DOMAIN sections' = DOMAIN sections \cup {Len(sections) + 1}
          /\ sections'[Len(sections) + 1] = Piece(current, cursor, stack)
          /\ \A i \in DOMAIN sections : sections'[i] = sections[i]
      BY <2>5, <3>1, <3>2, SectionsGrow
    <3>4. CASE \E i \in DOMAIN sections : In(p, sections[i])
      BY <3>3, <3>4 DEF Somewhere
    <3>5. CASE current <= p /\ p < cursor
      <4>1. In(p, sections'[Len(sections) + 1])
        BY <3>3, <3>5, PieceShape DEF In
      <4> QED
        BY <3>3, <4>1 DEF Somewhere
    <3>6. CASE current <= p /\ ~(p < cursor)
      BY <1>1, <2>2, <2>5, <3>6 DEF Somewhere
    <3> QED
      BY <2>3, <2>4, <3>4, <3>5, <3>6
  <2>6. CASE sections' = sections /\ pc' = "lines" /\ current' \in {current, cursor}
             /\ (current' = current \/ ~(current < cursor))
    BY <1>1, <2>2, <2>3, <2>4, <2>6 DEF Somewhere
  <2>7. CASE sections' = sections /\ cursor = Size /\ ~(current < cursor)
    BY <1>1, <2>2, <2>3, <2>4, <2>7 DEF Somewhere
  <2> QED
    BY <1>0, <2>5, <2>6, <2>7 DEF MarkdownLine, MarkdownEnd
<1> QED
  BY <1>0, <1>2, ScrapsOfStep DEF ScrapsInv

LEMMA ScrapsSection == ASSUME ShapeInv, ScrapsInv, Section PROVE ScrapsInv'
<1>0. UNCHANGED <<input, current>> /\ pc = "sections"
  BY DEF Section, lineLoop
<1>1. CASE sections = <<>>
  <2>1. UNCHANGED <<sections, chunks, pieces>> /\ pc' = "filter"
    BY <1>1 DEF Section
  <2>2. \A p \in Solid(0, Size) : Somewhere(p)'
    BY <1>0, <2>1 DEF ScrapsInv, Somewhere
  <2> QED
    BY <1>0, <2>1, <2>2, ScrapsOfStep DEF ScrapsInv
<1>2. CASE sections # <<>>
  <2> DEFINE s == sections[1]
  <2>1. PICK P : sections \in Seq(SpansOver(P))
    BY DEF ShapeInv
  <2>2. Head(sections) = s /\ sections' = Tail(sections)
        /\ \A i \in DOMAIN sections : i = 1 \/ (i - 1 \in DOMAIN sections' /\ sections'[i - 1] = sections[i])
    BY <1>2, <2>1, SectionsShrink DEF Section
  <2>3. ASSUME NEW p, In(p, s) => Somewhere(p)', Somewhere(p), pieces \subseteq pieces'
        PROVE  Somewhere(p)'
    <3>1. CASE \E c \in pieces : In(p, c)
      BY <2>3, <3>1 DEF Somewhere
    <3>2. CASE \E i \in DOMAIN sections : In(p, sections[i])
      BY <2>2, <2>3, <3>2 DEF Somewhere
    <3> QED
      BY <1>0, <2>3, <3>1, <3>2 DEF Somewhere
  <2>4. CASE s.to - s.from <= set.size
    <3>1. chunks' = chunks \cup {s} /\ pieces' = pieces \cup {s} /\ pc' = "sections"
      BY <1>0, <1>2, <2>2, <2>4 DEF Section
    <3>2. \A p : In(p, s) => Somewhere(p)'
      BY <3>1 DEF Somewhere
    <3>3. \A p \in Solid(0, Size) : Somewhere(p)'
      <4> HIDE DEF s
      <4> QED
        BY <2>3, <3>1, <3>2 DEF ScrapsInv
    <3> HIDE DEF s
    <3> QED
      BY <1>0, <3>1, <3>3, ScrapsOfStep DEF ScrapsInv
  <2>5. CASE ~(s.to - s.from <= set.size)
    <3>1. region' = s /\ start' = s.from /\ windows' = {} /\ pc' = "windows"
          /\ UNCHANGED <<chunks, pieces>>
      BY <1>2, <2>2, <2>5 DEF Section
    <3>2. \A p : In(p, s) => Somewhere(p)'
      BY <3>1 DEF Somewhere, In
    <3>3. \A p \in Solid(0, Size) : Somewhere(p)'
      <4> HIDE DEF s
      <4> QED
        BY <2>3, <3>1, <3>2 DEF ScrapsInv
    <3> HIDE DEF s
    <3> QED
      BY <1>0, <3>1, <3>3, ScrapsOfStep DEF ScrapsInv
  <2> QED
    BY <2>4, <2>5
<1> QED
  BY <1>1, <1>2

\* The end of chunk_text_with_offsets: of its windows, the filter keeps some.
LEMMA ScrapsReturn ==
  ASSUME ShapeInv, ScrapsInv, UNCHANGED <<input, sections>>, pc = "windows", pc' \in {"sections", "done"},
         NEW C, chunks' = chunks \cup Filter(C), windows \subseteq C, C \subseteq pieces',
         pieces \subseteq pieces', pieces' \subseteq pieces \cup {c \in pieces' : NotBlank(c) => c \in C},
         \A p \in Solid(0, Size) : start <= p /\ p < region.to => \E c \in pieces' : In(p, c)
  PROVE  ScrapsInv'
<1>1. \A p \in Solid(0, Size) : Somewhere(p)'
  BY DEF ScrapsInv, Somewhere
<1>2. \A c \in C \ chunks' : NotBlank(c) => Scrap(c)'
  <2>1. \A c \in C \ Filter(C) : NotBlank(c) =>
           ~(set.min <= 0) /\ ~LongEnough(c) /\ \E d \in Filter(C) : LongEnough(d)
    BY FilterKeeps
  <2> QED
    BY <2>1, TextKept DEF Scrap
<1>3. chunks' \subseteq pieces'
  BY FilterKeeps DEF ScrapsInv
<1> QED
  BY <1>1, <1>2, <1>3, ScrapsOfStep DEF ScrapsInv

LEMMA ScrapsNoWindows == ASSUME ShapeInv, ScrapsInv, NoWindows PROVE ScrapsInv'
<1>1. /\ UNCHANGED <<input, sections>> /\ pc = "windows" /\ pc' \in {"sections", "done"}
      /\ chunks' = chunks \cup {c \in {region} : NotBlank(c)} /\ pieces' = pieces \cup {region}
      /\ windows = {}
  BY DEF NoWindows, Return, ShapeInv
<1>2. region.from \in Int /\ start \in Int /\ region.from <= start
  BY Sizes DEF ShapeInv, Span, Settled
<1>3. \A p \in Solid(0, Size) : start <= p /\ p < region.to => In(p, region)
  BY <1>2, SolidTyped DEF In
<1>4. \A p \in Solid(0, Size) : Somewhere(p)'
  BY <1>1, <1>3 DEF ScrapsInv, Somewhere
<1> QED
  BY <1>1, <1>4, ScrapsOfStep DEF ScrapsInv

LEMMA ScrapsSlide == ASSUME ShapeInv, ScrapsInv, Slide PROVE ScrapsInv'
<1>0. UNCHANGED <<input, sections, region>> /\ set.size > 0 /\ pc = "windows" /\ start \in Int
      /\ region.to \in Int
  BY SlideCases, Sizes DEF ShapeInv, Span, Settled
<1>1. CASE start >= region.to /\ chunks' = chunks \cup Filter(windows)
           /\ pc' \in {"sections", "done"} /\ UNCHANGED <<start, windows, pieces>>
  <2>1. \A p \in Solid(0, Size) : ~(start <= p /\ p < region.to)
    BY <1>0, <1>1, SolidTyped
  <2> QED
    BY <1>0, <1>1, <2>1, ScrapsReturn DEF ScrapsInv
<1>2. ASSUME start < region.to, windows' = Kept, pieces' = pieces \cup {Window}
      PROVE  /\ windows \subseteq Kept /\ Kept \subseteq pieces'
             /\ NotBlank(Window) => Window \in Kept
             /\ \A p \in Solid(0, Size) : start <= p /\ p < Window.to => In(p, Window)
             /\ Window.to \in Int /\ Window.to <= region.to
             /\ Window.to < region.to => Back(Window.to) \in Int /\ Back(Window.to) <= Window.to
  <2>1. Window.from = start /\ Window.to \in Int /\ Window.to <= region.to
    BY <1>0, <1>2, WindowShape, Sizes DEF Span, Settled
  <2>2. Window.to < region.to => Back(Window.to) \in Int /\ Back(Window.to) <= Window.to
    BY <1>0, <1>2, WindowShape, Sizes DEF ShapeInv, Span, Settled
  <2> QED
    BY <1>0, <1>2, <2>1, <2>2 DEF Kept, In, ScrapsInv
<1>3. CASE start < region.to /\ windows' = Kept /\ pieces' = pieces \cup {Window}
           /\ Window.to = region.to /\ chunks' = chunks \cup Filter(Kept) /\ pc' \in {"sections", "done"}
  BY <1>0, <1>2, <1>3, ScrapsReturn
<1>4. CASE start < region.to /\ windows' = Kept /\ pieces' = pieces \cup {Window}
           /\ Window.to < region.to /\ start' = Back(Window.to) /\ UNCHANGED <<pc, chunks>>
  <2>1. \A p \in Solid(0, Size) : Somewhere(p)'
    <3>1. SUFFICES ASSUME NEW p \in Solid(0, Size) PROVE Somewhere(p)'
      OBVIOUS
    <3>2. p \in Int
      BY SolidTyped
    <3>3. CASE start <= p /\ p < region.to
      <4>1. CASE p < Window.to
        BY <1>2, <1>4, <3>3, <4>1 DEF Somewhere
      <4>2. CASE ~(p < Window.to)
        <5>1. start' <= p
          BY <1>2, <1>4, <3>2, <4>2
        <5> QED
          BY <1>0, <1>4, <3>3, <5>1 DEF Somewhere
      <4> QED
        BY <4>1, <4>2
    <3>4. CASE ~(start <= p /\ p < region.to)
      BY <1>0, <1>4, <3>4 DEF ScrapsInv, Somewhere
    <3> QED
      BY <3>3, <3>4
  <2> QED
    BY <1>0, <1>2, <1>4, <2>1, ScrapsOfStep DEF ScrapsInv
<1> QED
  BY <1>1, <1>3, <1>4, SlideCases

LEMMA ScrapsCode == ASSUME ShapeInv, ScrapsInv, CodeLine \/ CodeEnd PROVE ScrapsInv'
<1>0. UNCHANGED <<input, sections>> /\ pc = "lines" /\ pc' \in {"lines", "filter"}
  BY CodeCases DEF CodeEnd
<1>1. current \in Nat /\ cursor \in Nat
  BY Sizes DEF ShapeInv, Settled
\* The piece from current to b is cut; what follows is still to come.
<1>2. ASSUME NEW b,
             chunks' = chunks \cup {c \in {Piece(current, b, <<>>)} : NotBlank(c)},
             pieces' = pieces \cup {Piece(current, b, <<>>)},
             \A p \in Solid(0, Size) : ~(p < b) => pc' = "lines" /\ current' <= p
      PROVE  ScrapsInv'
  <2>1. \A p \in Solid(0, Size) : Somewhere(p)'
    <3>1. SUFFICES ASSUME NEW p \in Solid(0, Size) PROVE Somewhere(p)'
      OBVIOUS
    <3>2. CASE current <= p /\ p < b
      <4>1. In(p, Piece(current, b, <<>>))
        BY <3>2, PieceShape DEF In
      <4> QED
        BY <1>2, <4>1 DEF Somewhere
    <3>3. CASE current <= p /\ ~(p < b)
      BY <1>2, <3>3 DEF Somewhere
    <3>4. CASE ~(current <= p)
      BY <1>0, <1>2, <3>4 DEF ScrapsInv, Somewhere
    <3> QED
      BY <3>2, <3>3, <3>4
  <2> QED
    BY <1>0, <1>2, <2>1, ScrapsOfStep DEF ScrapsInv
<1>3. CASE CodeEnd
  <2>1. \A p \in Solid(0, Size) : p < cursor
    BY <1>3, SolidTyped DEF CodeEnd
  <2> QED
    BY <1>2, <1>3, <2>1 DEF CodeEnd, Flush
<1>4. CASE CodeLine
  <2>1. pc' = "lines"
    BY <1>0, <1>4, CodeCases
  <2>2. ASSUME NEW b \in Nat, CodeBreaks(current, b)
        PROVE  ScrapsInv'
    <3>1. \A p \in Solid(0, Size) : ~(p < b) => pc' = "lines" /\ current' <= p
      BY <2>1, <2>2, SolidTyped DEF CodeBreaks
    <3> QED
      BY <1>2, <2>2, <3>1 DEF CodeBreaks
  <2>3. CASE UNCHANGED <<chunks, pieces, current>>
    <3>1. \A p \in Solid(0, Size) : Somewhere(p)'
      BY <1>0, <2>1, <2>3 DEF ScrapsInv, Somewhere
    <3> QED
      BY <1>0, <2>1, <2>3, <3>1, ScrapsOfStep DEF ScrapsInv
  <2>4. \A e \in (cursor + 1)..Size : e \in Nat
    BY <1>1, Sizes DEF Settled
  <2> QED
    BY <1>1, <1>4, <2>2, <2>3, <2>4, CodeCases DEF CodeKeeps
<1> QED
  BY <1>3, <1>4

LEMMA ScrapsLastFilter == ASSUME ShapeInv, ScrapsInv, LastFilter PROVE ScrapsInv'
<1>1. /\ UNCHANGED <<input, sections, pieces>> /\ pc = "filter" /\ pc' = "done"
      /\ chunks' = Filter(chunks)
  BY DEF LastFilter
<1>2. \A p \in Solid(0, Size) : Somewhere(p)'
  BY <1>1 DEF ScrapsInv, Somewhere
<1>3. \A c \in pieces \ chunks' : NotBlank(c) => Scrap(c)'
  <2>1. SUFFICES ASSUME NEW c \in pieces \ chunks', NotBlank(c) PROVE Scrap(c)'
    OBVIOUS
  <2>2. CASE c \in chunks
    <3>1. ~(set.min <= 0) /\ ~LongEnough(c) /\ \E d \in Filter(chunks) : LongEnough(d)
      BY <1>1, <2>1, <2>2, FilterKeeps
    <3> QED
      BY <1>1, <3>1, TextKept DEF Scrap
  <2>3. CASE c \notin chunks
    <3>1. Scrap(c)
      BY <1>1, <2>1, <2>3 DEF ScrapsInv
    <3>2. \E d \in Filter(chunks) : LongEnough(d)
      BY <3>1, FilterKeeps DEF Scrap
    <3> QED
      BY <1>1, <3>1, <3>2, TextKept DEF Scrap
  <2> QED
    BY <2>2, <2>3
<1>4. chunks' \subseteq pieces'
  BY <1>1, FilterKeeps DEF ScrapsInv
<1> QED
  BY <1>1, <1>2, <1>3, <1>4, TextKept DEF ScrapsInv

LEMMA ScrapsNext == ShapeInv /\ ScrapsInv /\ [Next]_vars => ScrapsInv'
<1> SUFFICES ASSUME ShapeInv, ScrapsInv, [Next]_vars PROVE ScrapsInv'
  OBVIOUS
<1>1. CASE UNCHANGED vars
  <2>1. UNCHANGED <<input, sections, region, start, windows, chunks, pieces, pc, current>>
    BY <1>1 DEF vars, input
  <2>2. \A p \in Solid(0, Size) : Somewhere(p)'
    BY <2>1 DEF ScrapsInv, Somewhere
  <2>3. \A c : Scrap(c) => Scrap(c)'
    BY <2>1, TextKept DEF Scrap
  <2> QED
    BY <2>1, <2>2, <2>3, TextKept DEF ScrapsInv
<1> QED
  BY <1>1, ScrapsLines, ScrapsSection, ScrapsNoWindows, ScrapsSlide, ScrapsCode, ScrapsLastFilter DEF Next

\* Cutting loses no character but in short chunks, next to a long one: for any
\* text and settings, although md chunks are filtered twice.
THEOREM NothingButScrapsIsLost == Spec => []OnlyScrapsLost
<1>1. ShapeInv /\ ScrapsInv => OnlyScrapsLost
  <2>1. SUFFICES ASSUME ShapeInv, ScrapsInv, pc = "done"
                 PROVE  /\ \A p \in Solid(0, Size) : \E c \in pieces : c.from <= p /\ p < c.to
                        /\ chunks \subseteq pieces
                        /\ \A c \in pieces \ chunks : NotBlank(c) =>
                             set.min > 0 /\ ~LongEnough(c) /\ \E d \in chunks : LongEnough(d)
    BY DEF OnlyScrapsLost
  <2>2. DOMAIN sections = {}
    BY <2>1 DEF ShapeInv
  <2>3. \A p \in Solid(0, Size) : \E c \in pieces : In(p, c)
    BY <2>1, <2>2 DEF ScrapsInv, Somewhere
  <2>4. \A c \in pieces \ chunks : NotBlank(c) => Scrap(c)
    BY <2>1 DEF ScrapsInv
  <2>5. ~(set.min <= 0) => set.min > 0
    BY <2>1, Sizes DEF Settled
  <2>6. \A p \in Solid(0, Size) : \E c \in pieces : c.from <= p /\ p < c.to
    BY <2>3 DEF In
  <2>7. \A c \in pieces \ chunks : NotBlank(c) =>
           set.min > 0 /\ ~LongEnough(c) /\ \E d \in chunks : LongEnough(d)
    BY <2>4, <2>5 DEF Scrap
  <2>8. chunks \subseteq pieces
    BY <2>1 DEF ScrapsInv
  <2> QED
    BY <2>6, <2>7, <2>8
<1>2. ShapeInv /\ ScrapsInv /\ [Next]_vars => ScrapsInv'
  BY ScrapsNext
<1> QED
  BY <1>1, <1>2, ScrapsInit, ShapeHolds, PTL DEF Spec

-----------------------------------------------------------------------------
(* The headings above *)

Increasing(s) == \A i, j \in DOMAIN s : i < j => s[i] < s[j]
Names(path) == {path[i] : i \in DOMAIN path}

\* The place that an element of K takes.
UpTo(K, i) == {j \in K : j <= i}

LEMMA UpToCounts ==
  ASSUME NEW K, K \subseteq Nat, IsFiniteSet(K)
  PROVE  /\ Cardinality(K) \in Nat
         /\ \A i \in K : Cardinality(UpTo(K, i)) \in 1..Cardinality(K)
         /\ \A i, j \in K : i < j => Cardinality(UpTo(K, i)) < Cardinality(UpTo(K, j))
<1>1. \A i : UpTo(K, i) \in SUBSET K
  BY DEF UpTo
<1>2. Cardinality(K) \in Nat
  BY FS_CardinalityType
<1>3. ASSUME NEW i \in K
      PROVE  IsFiniteSet(UpTo(K, i)) /\ Cardinality(UpTo(K, i)) \in 1..Cardinality(K)
  <2>1. IsFiniteSet(UpTo(K, i)) /\ Cardinality(UpTo(K, i)) <= Cardinality(K)
    BY <1>1, FS_Subset
  <2>2. i \in UpTo(K, i)
    BY DEF UpTo
  <2>3. Cardinality(UpTo(K, i)) \in Nat /\ Cardinality(UpTo(K, i)) # 0
    BY <2>1, <2>2, FS_CardinalityType, FS_EmptySet
  <2> QED
    BY <1>2, <2>1, <2>3
<1>4. ASSUME NEW i \in K, NEW j \in K, i < j
      PROVE  Cardinality(UpTo(K, i)) < Cardinality(UpTo(K, j))
  <2>1. UpTo(K, i) \in SUBSET UpTo(K, j) /\ j \in UpTo(K, j) /\ j \notin UpTo(K, i)
    <3>1. i \in Nat /\ j \in Nat
      OBVIOUS
    <3>2. j \in UpTo(K, j) /\ j \notin UpTo(K, i)
      BY <1>4, <3>1 DEF UpTo
    <3>3. \A k \in Nat : k <= i => k <= j
      BY <1>4, <3>1
    <3>4. UpTo(K, i) \subseteq UpTo(K, j)
      BY <3>3 DEF UpTo
    <3> QED
      BY <3>2, <3>4
  <2>2. /\ Cardinality(UpTo(K, i)) <= Cardinality(UpTo(K, j))
        /\ Cardinality(UpTo(K, j)) = Cardinality(UpTo(K, i)) => UpTo(K, j) = UpTo(K, i)
    BY <1>3, <2>1, FS_Subset
  <2> QED
    BY <1>2, <1>3, <2>1, <2>2
<1> QED
  BY <1>2, <1>3, <1>4

LEMMA UpToReachesAll ==
  ASSUME NEW K, K \subseteq Nat, IsFiniteSet(K), NEW n \in 1..Cardinality(K)
  PROVE  \E i \in K : Cardinality(UpTo(K, i)) = n
<1> DEFINE N == 1..Cardinality(K)
           f == [i \in K |-> Cardinality(UpTo(K, i))]
<1>1. /\ Cardinality(K) \in Nat
      /\ \A i \in K : Cardinality(UpTo(K, i)) \in N
      /\ \A i, j \in K : i < j => Cardinality(UpTo(K, i)) < Cardinality(UpTo(K, j))
  BY UpToCounts
<1>2. f \in [K -> N]
  BY <1>1
<1>3. \A i, j \in K : f[i] = f[j] => i = j
  BY <1>1
<1>4. IsFiniteSet(N) /\ Cardinality(N) = Cardinality(K)
  BY <1>1, FS_Interval
<1>5. f \in Injection(K, N)
  <2> HIDE DEF f, N
  <2> QED
    BY <1>2, <1>3 DEF Injection, IsInjective
<1>6. f \in Surjection(K, N)
  <2> HIDE DEF f, N
  <2> QED
    BY <1>4, <1>5, FS_Injection
<1>7. \E i \in K : f[i] = n
  <2>1. n \in N
    OBVIOUS
  <2> HIDE DEF f, N
  <2> QED
    BY <1>6, <2>1 DEF Surjection
<1> QED
  BY <1>7

\* Only keeps the items at the places K, and their order.
LEMMA OnlyThose ==
  ASSUME NEW S, stack \in Seq(S), NEW K, K \subseteq DOMAIN stack
  PROVE  /\ Only(K) \in Seq(S)
         /\ Names(Only(K)) = {stack[i] : i \in K}
         /\ Increasing(stack) => Increasing(Only(K))
<1> DEFINE place(n) == CHOOSE i \in K : Cardinality({j \in K : j <= i}) = n
<1>1. K \subseteq Nat /\ IsFiniteSet(K)
  <2>1. K \in SUBSET (1..Len(stack)) /\ Len(stack) \in Nat
    OBVIOUS
  <2>2. IsFiniteSet(1..Len(stack))
    BY <2>1, FS_Interval
  <2>3. IsFiniteSet(K)
    BY <2>1, <2>2, FS_Subset
  <2> QED
    BY <2>1, <2>3
<1>2. Cardinality(K) \in Nat
  BY <1>1, UpToCounts
<1>3. \A n \in 1..Cardinality(K) : place(n) \in K /\ Cardinality(UpTo(K, place(n))) = n
  <2>1. SUFFICES ASSUME NEW n \in 1..Cardinality(K)
                 PROVE  place(n) \in K /\ Cardinality(UpTo(K, place(n))) = n
    OBVIOUS
  <2>2. \E i \in K : Cardinality(UpTo(K, i)) = n
    BY <1>1, UpToReachesAll
  <2>3. \E i \in K : Cardinality({j \in K : j <= i}) = n
    BY <2>2 DEF UpTo
  <2>4. place(n) \in K /\ Cardinality({j \in K : j <= place(n)}) = n
    BY <2>3
  <2> QED
    BY <2>4 DEF UpTo
<1>4. \A i \in K : Cardinality(UpTo(K, i)) \in 1..Cardinality(K)
  BY <1>1, UpToCounts
<1>5. \A i, j \in K : i < j => Cardinality(UpTo(K, i)) < Cardinality(UpTo(K, j))
  BY <1>1, UpToCounts
<1>6. \A i \in K : place(Cardinality(UpTo(K, i))) = i
  <2>1. SUFFICES ASSUME NEW i \in K PROVE place(Cardinality(UpTo(K, i))) = i
    OBVIOUS
  <2> DEFINE j == place(Cardinality(UpTo(K, i)))
  <2>2. j \in K /\ Cardinality(UpTo(K, j)) = Cardinality(UpTo(K, i))
    BY <1>3, <1>4
  <2>3. j \in Nat /\ i \in Nat /\ Cardinality(UpTo(K, i)) \in Nat
    BY <1>1, <1>2, <1>4, <2>2
  <2> HIDE DEF j
  <2>4. ~(i < j) /\ ~(j < i)
    BY <1>5, <2>2, <2>3
  <2>5. j = i
    BY <2>3, <2>4
  <2> QED
    BY <2>5 DEF j
<1>7. \A m, n \in 1..Cardinality(K) : m < n => place(m) < place(n)
  <2>1. SUFFICES ASSUME NEW m \in 1..Cardinality(K), NEW n \in 1..Cardinality(K), m < n
                 PROVE  place(m) < place(n)
    OBVIOUS
  <2>2. place(m) \in K /\ place(n) \in K /\ Cardinality(UpTo(K, place(m))) = m
        /\ Cardinality(UpTo(K, place(n))) = n
    BY <1>3
  <2> HIDE DEF place
  <2> QED
    BY <1>1, <1>2, <1>5, <2>1, <2>2
<1>8. Only(K) = [n \in 1..Cardinality(K) |-> stack[place(n)]]
  BY DEF Only
<1> HIDE DEF place
<1>9. DOMAIN Only(K) = 1..Cardinality(K)
      /\ \A n \in 1..Cardinality(K) : Only(K)[n] = stack[place(n)] /\ place(n) \in DOMAIN stack
  BY <1>3, <1>8
<1>10. \A n \in DOMAIN stack : stack[n] \in S
  OBVIOUS
<1>11. Only(K) \in Seq(S)
  BY <1>2, <1>8, <1>9, <1>10
<1>12. Names(Only(K)) = {stack[i] : i \in K}
  BY <1>3, <1>4, <1>6, <1>9 DEF Names
<1>13. Increasing(stack) => Increasing(Only(K))
  BY <1>7, <1>9 DEF Increasing
<1> QED
  BY <1>11, <1>12, <1>13

\* Without a heading between them, two characters have the same ones above.
LEMMA NoHeadingBetween ==
  ASSUME NEW a \in Nat, NEW p \in Nat, a <= p, \A h \in (a + 1)..p : ~IsHeading(h)
  PROVE  Above(p) = Above(a)
<1>1. ASSUME NEW h \in Above(p)
      PROVE  h \in Above(a)
  <2>1. h \in 0..p /\ IsHeading(h) /\ \A g \in (h + 1)..p : IsHeading(g) => At(g) > At(h)
    BY <1>1 DEF Above
  <2>2. h \in 0..a
    BY <2>1
  <2>3. \A g \in (h + 1)..a : g \in (h + 1)..p
    BY <2>1
  <2> QED
    BY <2>1, <2>2, <2>3 DEF Above
<1>2. ASSUME NEW h \in Above(a)
      PROVE  h \in Above(p)
  <2>1. h \in 0..a /\ IsHeading(h) /\ \A g \in (h + 1)..a : IsHeading(g) => At(g) > At(h)
    BY <1>2 DEF Above
  <2>2. h \in 0..p
    BY <2>1
  <2>3. \A g \in (h + 1)..p : g \in (h + 1)..a \/ g \in (a + 1)..p
    BY <2>1
  <2> QED
    BY <2>1, <2>2, <2>3 DEF Above
<1> QED
  BY <1>1, <1>2

\* A heading has above it those that it does not end, and itself.
LEMMA HeadingEnds ==
  ASSUME NEW h \in Nat, IsHeading(h)
  PROVE  Above(h) = {h} \cup IF h = 0 THEN {} ELSE {g \in Above(h - 1) : At(g) < At(h)}
<1>1. h \in Above(h)
  BY DEF Above
<1>2. ASSUME h = 0
      PROVE  Above(h) \subseteq {h}
  BY <1>2 DEF Above
<1>3. ASSUME h # 0, NEW g \in Above(h), g # h
      PROVE  g \in Above(h - 1) /\ At(g) < At(h)
  <2>1. g \in 0..h /\ IsHeading(g) /\ \A k \in (g + 1)..h : IsHeading(k) => At(k) > At(g)
    BY <1>3 DEF Above
  <2>2. g \in 0..(h - 1) /\ h \in (g + 1)..h
    BY <1>3, <2>1
  <2>3. At(g) \in Headings /\ At(h) \in Headings /\ At(h) > At(g)
    BY <2>1, <2>2 DEF IsHeading
  <2>4. \A k \in (g + 1)..(h - 1) : k \in (g + 1)..h
    BY <2>1
  <2>5. At(g) < At(h)
    BY <2>3 DEF Headings
  <2> QED
    BY <2>1, <2>2, <2>4, <2>5 DEF Above
<1>4. ASSUME h # 0, NEW g \in Above(h - 1), At(g) < At(h)
      PROVE  g \in Above(h)
  <2>1. g \in 0..(h - 1) /\ IsHeading(g) /\ \A k \in (g + 1)..(h - 1) : IsHeading(k) => At(k) > At(g)
    BY <1>4 DEF Above
  <2>2. At(g) \in Headings /\ At(h) \in Headings
    BY <2>1 DEF IsHeading
  <2>3. At(h) > At(g)
    BY <1>4, <2>2 DEF Headings
  <2>4. g \in 0..h /\ \A k \in (g + 1)..h : k = h \/ k \in (g + 1)..(h - 1)
    BY <1>4, <2>1
  <2> QED
    BY <2>1, <2>3, <2>4 DEF Above
<1> QED
  BY <1>1, <1>2, <1>3, <1>4

\* What PathIsAncestry asks of a chunk.
Headed(c) ==
  /\ Increasing(c.path)
  /\ kind = "md" => \A p \in c.from..(c.to - 1) : Names(c.path) = Above(p)

\* Between two lines the stack holds the headings above what has been read.
StackInv ==
  /\ stack \in Seq(Int) /\ Increasing(stack)
  /\ cursor = 0 \/ cursor = Size \/ At(cursor - 1) \in Breaks
  /\ cursor = 0 => stack = <<>>
  /\ cursor > 0 => current < cursor
  /\ \A p \in current..(cursor - 1) : Names(stack) = Above(p)

PathInv ==
  /\ kind = "md" /\ pc = "lines" => StackInv
  /\ \A i \in DOMAIN sections : Headed(sections[i])
  /\ pc = "windows" => Headed(region) /\ \A c \in windows : Headed(c)
  /\ \A c \in chunks : Headed(c)

LEMMA AboveKept ==
  ASSUME UNCHANGED input
  PROVE  /\ \A p : Above(p)' = Above(p)
         /\ \A c : Headed(c)' <=> Headed(c)
         /\ \A p : At(p)' = At(p)
<1>1. Size' = Size /\ kind' = kind /\ text' = text
  BY InputKept
<1>2. \A p : At(p)' = At(p)
  BY <1>1 DEF At
<1>3. \A p : IsHeading(p)' <=> IsHeading(p)
  BY <1>1 DEF IsHeading, At
<1>4. \A p : Above(p)' = Above(p)
  BY <1>1, <1>3 DEF Above, IsHeading, At
<1> QED
  BY <1>1, <1>2, <1>4 DEF Headed, Above, IsHeading, At

LEMMA Pathless == ASSUME NEW c, c.path = <<>>, kind # "md" PROVE Headed(c)
  BY DEF Headed, Increasing

LEMMA PathInit == Init => PathInv
<1> SUFFICES ASSUME Init PROVE PathInv
  OBVIOUS
<1>1. sections = <<>> /\ windows = {} /\ chunks = {} /\ stack = <<>> /\ cursor = 0 /\ current = 0
      /\ region.path = <<>> /\ (pc = "windows" => kind = "text")
  BY PieceShape DEF Init, Whole
<1>2. StackInv
  BY <1>1 DEF StackInv, Increasing
<1>3. pc = "windows" => Headed(region)
  BY <1>1, Pathless
<1> QED
  BY <1>1, <1>2, <1>3 DEF PathInv

\* One more line: e is the end of it.
LEMMA StackLine ==
  ASSUME ShapeInv, StackInv, UNCHANGED input, cursor < Size,
         NEW e \in (cursor + 1)..Size, IsLine(cursor, e), cursor' = e,
         IF At(cursor) \in Headings
         THEN stack' = Append(Parents(cursor), cursor) /\ current' = cursor
         ELSE UNCHANGED <<stack, current>>
  PROVE  StackInv'
<1>1. Size \in Nat /\ cursor \in Nat /\ current \in Nat /\ current <= cursor /\ e \in Nat /\ cursor < e
  BY Sizes DEF ShapeInv, Settled
<1>2. Size' = Size /\ (\A p : At(p)' = At(p)) /\ (\A p : Above(p)' = Above(p))
  BY InputKept, AboveKept
<1>3. cursor' = Size' \/ (At(cursor - 1) \in Breaks)'
  <2>1. e = Size \/ text[e - 1 + 1] \in Breaks
    BY DEF IsLine, At
  <2>2. text' = text
    BY InputKept
  <2> QED
    BY <1>2, <2>1, <2>2 DEF At
<1>4. \A h \in (cursor + 1)..(e - 1) : ~IsHeading(h)
  <2>1. \A h \in (cursor + 1)..(e - 1) : h - 1 \in cursor..(e - 2) /\ h # 0
    BY <1>1
  <2> QED
    BY <2>1 DEF IsLine, IsHeading
<1>5. \A p \in cursor..(e - 1) : Above(p) = Above(cursor)
  <2>1. SUFFICES ASSUME NEW p \in cursor..(e - 1) PROVE Above(p) = Above(cursor)
    OBVIOUS
  <2>2. p \in Nat /\ cursor <= p /\ \A h \in (cursor + 1)..p : ~IsHeading(h)
    BY <1>1, <1>4
  <2> QED
    BY <1>1, <2>2, NoHeadingBetween
<1>6. cursor = 0 \/ At(cursor - 1) \in Breaks
  BY <1>1 DEF StackInv
<1>7. cursor > 0 => Names(stack) = Above(cursor - 1)
  <2>1. cursor > 0 => cursor - 1 \in current..(cursor - 1)
    BY <1>1 DEF StackInv
  <2> QED
    BY <2>1 DEF StackInv
<1>8. CASE At(cursor) \in Headings
  <2>1. IsHeading(cursor)
    BY <1>6, <1>8 DEF IsHeading
  <2> DEFINE K == {i \in DOMAIN stack : At(stack[i]) < At(cursor)}
  <2>2. Parents(cursor) = Only(K) /\ K \subseteq DOMAIN stack
    BY DEF Parents
  <2>3. /\ Parents(cursor) \in Seq(Int) /\ Increasing(Parents(cursor))
        /\ Names(Parents(cursor)) = {stack[i] : i \in K}
    <3> HIDE DEF K
    <3> QED
      BY <2>2, OnlyThose DEF StackInv
  <2>4. Names(Parents(cursor)) = {g \in Names(stack) : At(g) < At(cursor)}
    BY <2>3 DEF Names
  <2>5. {cursor} \cup Names(Parents(cursor)) = Above(cursor)
    <3>1. CASE cursor = 0
      BY <2>1, <2>4, <3>1, HeadingEnds DEF StackInv, Names
    <3>2. CASE cursor > 0
      BY <1>1, <1>7, <2>1, <2>4, <3>2, HeadingEnds
    <3> QED
      BY <1>1, <3>1, <3>2
  <2>6. \A g \in Names(Parents(cursor)) : g < cursor
    <3>1. cursor = 0 => Names(stack) = {}
      BY DEF StackInv, Names
    <3>2. cursor > 0 => \A g \in Names(stack) : g < cursor
      BY <1>1, <1>7 DEF Above
    <3> QED
      BY <1>1, <2>4, <3>1, <3>2
  <2>7. /\ stack' \in Seq(Int) /\ DOMAIN stack' = DOMAIN Parents(cursor) \cup {Len(Parents(cursor)) + 1}
        /\ \A i \in DOMAIN Parents(cursor) : stack'[i] = Parents(cursor)[i] /\ i < Len(Parents(cursor)) + 1
        /\ stack'[Len(Parents(cursor)) + 1] = cursor
        /\ Len(Parents(cursor)) + 1 \in Nat
    BY <1>1, <1>8, <2>3
  <2>8. Names(stack') = {cursor} \cup Names(Parents(cursor))
    BY <2>7 DEF Names
  <2>9. Increasing(stack')
    <3>1. SUFFICES ASSUME NEW i \in DOMAIN stack', NEW j \in DOMAIN stack', i < j
                   PROVE  stack'[i] < stack'[j]
      BY DEF Increasing
    <3>2. i \in DOMAIN Parents(cursor)
      BY <2>3, <2>7, <3>1
    <3>3. stack'[i] < cursor /\ stack'[i] = Parents(cursor)[i]
      BY <2>6, <2>7, <3>2 DEF Names
    <3>4. CASE j \in DOMAIN Parents(cursor)
      BY <2>3, <2>7, <3>1, <3>2, <3>3, <3>4 DEF Increasing
    <3>5. CASE j = Len(Parents(cursor)) + 1
      BY <2>7, <3>3, <3>5
    <3> QED
      BY <2>7, <3>4, <3>5
  <2>10. \A p \in current'..(cursor' - 1) : Names(stack') = Above(p)
    BY <1>5, <1>8, <2>5, <2>8
  <2> HIDE DEF K
  <2> QED
    BY <1>1, <1>2, <1>3, <1>8, <2>7, <2>9, <2>10 DEF StackInv, Increasing, Names
<1>9. CASE At(cursor) \notin Headings
  <2>1. ~IsHeading(cursor)
    BY <1>9 DEF IsHeading
  <2>2. Names(stack) = Above(cursor)
    <3>1. CASE cursor = 0
      <4>1. Above(0) = {}
        BY <2>1, <3>1 DEF Above
      <4> QED
        BY <3>1, <4>1 DEF StackInv, Names
    <3>2. CASE cursor > 0
      <4>1. cursor - 1 \in Nat /\ \A h \in (cursor - 1 + 1)..cursor : ~IsHeading(h)
        BY <1>1, <2>1, <3>2
      <4> QED
        BY <1>1, <1>7, <3>2, <4>1, NoHeadingBetween
    <3> QED
      BY <1>1, <3>1, <3>2
  <2>3. \A p \in current..(e - 1) : Names(stack) = Above(p)
    <3>1. \A p \in current..(e - 1) : p \in current..(cursor - 1) \/ p \in cursor..(e - 1)
      BY <1>1
    <3> QED
      BY <1>5, <2>2, <3>1 DEF StackInv
  <2>4. UNCHANGED <<stack, current>> /\ current < e /\ stack \in Seq(Int) /\ Increasing(stack)
    BY <1>1, <1>9 DEF StackInv
  <2> QED
    BY <1>1, <1>2, <1>3, <2>3, <2>4 DEF StackInv, Increasing, Names
<1> QED
  BY <1>8, <1>9

LEMMA PathLines == ASSUME ShapeInv, PathInv, MarkdownLine \/ MarkdownEnd PROVE PathInv'
<1>1. UNCHANGED <<input, region, windows, chunks>> /\ kind = "md" /\ pc = "lines" /\ StackInv
      /\ pc' # "windows"
  BY DEF MarkdownLine, MarkdownEnd, windowLoop, PathInv
<1>2. kind' = kind /\ \A c : Headed(c)' <=> Headed(c)
  BY <1>1, InputKept, AboveKept
<1>3. \A i \in DOMAIN sections' : Headed(sections'[i])
  <2>1. CASE sections' = sections
    BY <2>1 DEF PathInv
  <2>2. CASE sections' = Append(sections, Piece(current, cursor, stack))
    <3>1. current \in 0..Size /\ cursor \in 0..Size
      BY Sizes DEF ShapeInv, Settled
    <3>2. PICK P : sections \in Seq(SpansOver(P))
      BY DEF ShapeInv
    <3>3. /\ DOMAIN sections' = DOMAIN sections \cup {Len(sections) + 1}
          /\ sections'[Len(sections) + 1] = Piece(current, cursor, stack)
          /\ \A i \in DOMAIN sections : sections'[i] = sections[i]
      BY <2>2, <3>1, <3>2, SectionsGrow
    <3>4. Headed(Piece(current, cursor, stack))
      BY <1>1, PieceShape DEF Headed, StackInv
    <3> QED
      BY <3>3, <3>4 DEF PathInv
  <2> QED
    BY <2>1, <2>2 DEF MarkdownLine, MarkdownEnd
<1>4. pc' = "lines" => StackInv'
  <2>1. CASE MarkdownEnd
    BY <2>1 DEF MarkdownEnd
  <2>2. CASE MarkdownLine
    <3>1. PICK e \in (cursor + 1)..Size :
            /\ IsLine(cursor, e) /\ cursor' = e
            /\ IF At(cursor) \in Headings
               THEN stack' = Append(Parents(cursor), cursor) /\ current' = cursor
               ELSE UNCHANGED <<stack, current>>
      BY <2>2 DEF MarkdownLine
    <3> QED
      BY <1>1, <2>2, <3>1, StackLine DEF MarkdownLine
  <2> QED
    BY <2>1, <2>2
<1> QED
  BY <1>1, <1>2, <1>3, <1>4 DEF PathInv

\* A step that is none of chunk_markdown's line loop.
LEMMA PathOfLoops ==
  ASSUME PathInv, UNCHANGED input, kind = "md" => pc' # "lines",
         \A i \in DOMAIN sections' : Headed(sections'[i]),
         pc' = "windows" => Headed(region') /\ \A c \in windows' : Headed(c),
         \A c \in chunks' : Headed(c)
  PROVE  PathInv'
  BY InputKept, AboveKept DEF PathInv

LEMMA PathSection == ASSUME ShapeInv, PathInv, Section PROVE PathInv'
<1>1. UNCHANGED input /\ pc' \in {"sections", "windows", "filter"} /\ pc = "sections"
  BY DEF Section
<1>2. CASE sections = <<>>
  BY <1>1, <1>2, PathOfLoops DEF Section, PathInv
<1>3. CASE sections # <<>>
  <2>1. PICK P : sections \in Seq(SpansOver(P))
    BY DEF ShapeInv
  <2>2. /\ Head(sections) = sections[1] /\ 1 \in DOMAIN sections /\ sections' = Tail(sections)
        /\ \A i \in DOMAIN sections' : i + 1 \in DOMAIN sections /\ sections'[i] = sections[i + 1]
    BY <1>3, <2>1, SectionsShrink DEF Section
  <2>3. Headed(Head(sections)) /\ \A i \in DOMAIN sections' : Headed(sections'[i])
    BY <2>2 DEF PathInv
  <2>4. \/ chunks' = chunks \cup {Head(sections)} /\ pc' = "sections"
        \/ region' = Head(sections) /\ windows' = {} /\ chunks' = chunks
    BY <1>1, <1>3 DEF Section
  <2> QED
    BY <1>1, <2>3, <2>4, PathOfLoops DEF PathInv
<1> QED
  BY <1>2, <1>3

LEMMA PathWindows == ASSUME ShapeInv, PathInv, NoWindows \/ Slide PROVE PathInv'
<1>1. CASE NoWindows
  <2>1. /\ UNCHANGED <<input, sections>> /\ pc = "windows" /\ pc' \in {"sections", "done"}
        /\ chunks' \subseteq chunks \cup {region}
    BY <1>1 DEF NoWindows, Return
  <2> QED
    BY <2>1, PathOfLoops DEF PathInv
<1>2. CASE Slide
  <2>1. /\ UNCHANGED <<input, sections, region>> /\ set.size > 0 /\ pc = "windows"
        /\ pc' \in {"windows", "sections", "done"}
    BY <1>2, SlideCases
  <2>2. ASSUME start < region.to
        PROVE  Headed(Window)
    <3>1. Window.from = start /\ Window.to <= region.to /\ Window.to \in Int /\ region.to \in Int
          /\ region.from <= start /\ start \in Int /\ region.from \in Int
      BY <2>1, <2>2, WindowShape, Sizes DEF ShapeInv, Span, Settled
    <3>2. Window.path = region.path
      BY PieceShape DEF Window
    <3>3. \A p \in Window.from..(Window.to - 1) : p \in region.from..(region.to - 1)
      BY <3>1
    <3> QED
      BY <2>1, <3>2, <3>3 DEF Headed, PathInv
  <2>3. (\A c \in windows' : Headed(c)) /\ \A c \in chunks' : Headed(c)
    <3>1. start < region.to => \A c \in Kept : Headed(c)
      BY <2>1, <2>2 DEF Kept, PathInv
    <3>2. Filter(windows) \subseteq windows /\ Filter(Kept) \subseteq Kept
      BY FilterKeeps
    <3> QED
      BY <1>2, <2>1, <3>1, <3>2, SlideCases DEF PathInv
  <2> QED
    BY <2>1, <2>3, PathOfLoops DEF PathInv
<1> QED
  BY <1>1, <1>2

LEMMA PathCode == ASSUME ShapeInv, PathInv, CodeLine \/ CodeEnd PROVE PathInv'
<1>1. UNCHANGED <<input, sections>> /\ kind = "code" /\ pc' \in {"lines", "filter"}
  BY CodeCases DEF CodeEnd
<1>2. \A a, b : Headed(Piece(a, b, <<>>))
  BY <1>1, Pathless, PieceShape
<1>3. \A c \in chunks' : Headed(c)
  BY <1>2, CodeCases DEF CodeEnd, Flush, CodeBreaks, CodeKeeps, PathInv
<1> QED
  BY <1>1, <1>3, PathOfLoops DEF PathInv

LEMMA PathNext == ShapeInv /\ PathInv /\ [Next]_vars => PathInv'
<1> SUFFICES ASSUME ShapeInv, PathInv, [Next]_vars PROVE PathInv'
  OBVIOUS
<1>1. CASE UNCHANGED vars
  <2>1. UNCHANGED <<input, pc, cursor, current, stack, sections, region, windows, chunks>>
    BY <1>1 DEF vars, input
  <2>2. StackInv => StackInv'
    BY <2>1, InputKept, AboveKept DEF StackInv, Increasing, Names
  <2> QED
    BY <2>1, <2>2, InputKept, AboveKept DEF PathInv
<1>2. CASE LastFilter
  <2>1. UNCHANGED <<input, sections>> /\ pc' = "done" /\ chunks' = Filter(chunks)
    BY <1>2 DEF LastFilter
  <2> QED
    BY <2>1, FilterKeeps, PathOfLoops DEF PathInv
<1> QED
  BY <1>1, <1>2, PathLines, PathSection, PathWindows, PathCode DEF Next

\* section_path names the headings above every character of a chunk, in their
\* order: for any document, whatever levels it skips or repeats.
THEOREM PathNamesHeadings == Spec => []PathIsAncestry
<1>1. PathInv => PathIsAncestry
  BY DEF PathInv, PathIsAncestry, Headed, Increasing, Names
<1> QED
  BY <1>1, PathInit, PathNext, ShapeHolds, PTL DEF Spec

-----------------------------------------------------------------------------
(* Types *)

PathsOver(P) ==
  /\ stack \in Seq(P)
  /\ \A i \in DOMAIN sections : sections[i].path \in Seq(P)
  /\ region.path \in Seq(P)
  /\ \A c \in windows \cup chunks \cup pieces : c.path \in Seq(P)

RecordsInv ==
  /\ Piece(region.from, region.to, region.path) = region
  /\ \A c \in windows \cup chunks \cup pieces : Piece(c.from, c.to, c.path) = c

\* Paths hold offsets of the text, and everything cut is a record of offsets
\* and a path.
TypedInv == PathsOver(0..Size) /\ RecordsInv

LEMMA TypedInit == Init => TypedInv
<1> SUFFICES ASSUME Init PROVE TypedInv
  OBVIOUS
<1>1. region = Piece(0, Size, <<>>) /\ stack = <<>> /\ sections = <<>>
      /\ windows = {} /\ chunks = {} /\ pieces = {}
  BY DEF Init, Whole
<1>2. <<>> \in Seq(0..Size)
  OBVIOUS
<1>3. region.from = 0 /\ region.to = Size /\ region.path = <<>>
  BY <1>1, PieceShape
<1> QED
  <2>1. PathsOver(0..Size)
    <3>1. DOMAIN sections = {}
      BY <1>1
    <3>2. stack \in Seq(0..Size)
      BY <1>1, <1>2
    <3>3. region.path \in Seq(0..Size)
      BY <1>2, <1>3
    <3> QED
      BY <1>1, <3>1, <3>2, <3>3 DEF PathsOver
  <2>2. RecordsInv
    BY <1>1, <1>3 DEF RecordsInv
  <2> QED
    BY <2>1, <2>2 DEF TypedInv

LEMMA TypedLines == ASSUME ShapeInv, TypedInv, MarkdownLine \/ MarkdownEnd PROVE TypedInv'
<1>1. UNCHANGED <<input, region, start, windows, chunks, pieces>>
  BY DEF MarkdownLine, MarkdownEnd, windowLoop
<1>2. Size' = Size
  BY <1>1, InputKept
<1>3. stack' \in Seq(0..Size)
  <2>1. CASE stack' = Append(Parents(cursor), cursor) /\ cursor \in 0..Size
    <3>1. Parents(cursor) \in Seq(0..Size)
      BY OnlyThose DEF TypedInv, PathsOver, Parents
    <3> QED
      BY <2>1, <3>1
  <2>2. CASE stack' = stack
    BY <2>2 DEF TypedInv, PathsOver
  <2> QED
    BY <2>1, <2>2 DEF MarkdownLine, MarkdownEnd, lineLoop, ShapeInv
<1>4. \A i \in DOMAIN sections' : sections'[i].path \in Seq(0..Size)
  <2>1. CASE sections' = sections
    BY <2>1 DEF TypedInv, PathsOver
  <2>2. CASE sections' = Append(sections, Piece(current, cursor, stack)) /\ current < cursor
    <3>1. current \in 0..Size /\ cursor \in 0..Size
      BY Sizes DEF ShapeInv, Settled
    <3>2. PICK P : sections \in Seq(SpansOver(P))
      BY DEF ShapeInv
    <3>3. /\ DOMAIN sections' = DOMAIN sections \cup {Len(sections) + 1}
          /\ sections'[Len(sections) + 1] = Piece(current, cursor, stack)
          /\ \A i \in DOMAIN sections : sections'[i] = sections[i]
      BY <2>2, <3>1, <3>2, SectionsGrow
    <3> QED
      BY <3>3, PieceShape DEF TypedInv, PathsOver
  <2> QED
    BY <2>1, <2>2 DEF MarkdownLine, MarkdownEnd
<1> QED
  BY <1>1, <1>2, <1>3, <1>4 DEF TypedInv, PathsOver, RecordsInv

\* A step that is none of chunk_markdown's line loop.
LEMMA TypedOfLoops ==
  ASSUME TypedInv, UNCHANGED <<input, stack>>,
         \A i \in DOMAIN sections' : sections'[i].path \in Seq(0..Size),
         region'.path \in Seq(0..Size) /\ Piece(region'.from, region'.to, region'.path) = region',
         \A c \in windows' \cup chunks' \cup pieces' :
            c.path \in Seq(0..Size) /\ Piece(c.from, c.to, c.path) = c
  PROVE  TypedInv'
  BY InputKept DEF TypedInv, PathsOver, RecordsInv, Piece

LEMMA TypedSection == ASSUME ShapeInv, TypedInv, Section PROVE TypedInv'
<1>1. UNCHANGED <<input, stack>>
  BY DEF Section, lineLoop
<1>2. CASE sections = <<>>
  BY <1>1, <1>2, TypedOfLoops DEF Section, TypedInv, PathsOver, RecordsInv, windowLoop
<1>3. CASE sections # <<>>
  <2>1. PICK P : sections \in Seq(SpansOver(P))
    BY DEF ShapeInv
  <2> DEFINE s == sections[1]
  <2>2. /\ Head(sections) = s /\ 1 \in DOMAIN sections /\ sections' = Tail(sections)
        /\ s \in SpansOver(P)
        /\ \A i \in DOMAIN sections' : i + 1 \in DOMAIN sections /\ sections'[i] = sections[i + 1]
    BY <1>3, <2>1, SectionsShrink DEF Section
  <2>3. s.path \in Seq(0..Size) /\ \A i \in DOMAIN sections' : sections'[i].path \in Seq(0..Size)
    BY <2>2 DEF TypedInv, PathsOver
  <2>4. Piece(s.from, s.to, s.path) = s
    BY <2>2 DEF SpansOver, Piece
  <2>5. \/ /\ chunks' = chunks \cup {s} /\ pieces' = pieces \cup {s}
           /\ UNCHANGED <<region, windows>>
        \/ region' = s /\ windows' = {} /\ UNCHANGED <<chunks, pieces>>
    BY <1>3, <2>2 DEF Section, windowLoop
  <2> HIDE DEF s
  <2> QED
    BY <1>1, <2>3, <2>4, <2>5, TypedOfLoops DEF TypedInv, PathsOver, RecordsInv
<1> QED
  BY <1>2, <1>3

LEMMA TypedWindows == ASSUME ShapeInv, TypedInv, NoWindows \/ Slide PROVE TypedInv'
<1>1. CASE NoWindows
  <2>1. /\ UNCHANGED <<input, stack, sections, region, windows>>
        /\ chunks' \subseteq chunks \cup {region} /\ pieces' = pieces \cup {region}
    BY <1>1 DEF NoWindows, Return, lineLoop, windowLoop
  <2> QED
    BY <2>1, TypedOfLoops DEF TypedInv, PathsOver, RecordsInv
<1>2. CASE Slide
  <2>1. UNCHANGED <<input, stack, sections, region>>
    BY <1>2, SlideCases DEF lineLoop
  <2>2. Window.path = region.path /\ Piece(Window.from, Window.to, Window.path) = Window
    BY PieceShape DEF Window
  <2>3. /\ windows' \subseteq windows \cup {Window}
        /\ pieces' \subseteq pieces \cup {Window}
        /\ chunks' \subseteq chunks \cup windows \cup {Window}
    <3>1. Filter(windows) \subseteq windows /\ Filter(Kept) \subseteq Kept
      BY FilterKeeps
    <3>2. Kept \subseteq windows \cup {Window}
      BY DEF Kept
    <3> QED
      BY <1>2, <3>1, <3>2, SlideCases
  <2> QED
    BY <2>1, <2>2, <2>3, TypedOfLoops DEF TypedInv, PathsOver, RecordsInv
<1> QED
  BY <1>1, <1>2

LEMMA TypedCode == ASSUME ShapeInv, TypedInv, CodeLine \/ CodeEnd PROVE TypedInv'
<1>1. UNCHANGED <<input, stack, sections, region, windows>>
  BY CodeCases DEF CodeEnd, lineLoop, windowLoop
<1>2. \A a, b : /\ Piece(a, b, <<>>).path \in Seq(0..Size)
                /\ Piece(Piece(a, b, <<>>).from, Piece(a, b, <<>>).to, Piece(a, b, <<>>).path) = Piece(a, b, <<>>)
  <2>1. <<>> \in Seq(0..Size)
    OBVIOUS
  <2> QED
    BY <2>1 DEF Piece
<1>3. \A c \in chunks' \cup pieces' : c \in chunks \cup pieces \/ \E a, b : c = Piece(a, b, <<>>)
  BY CodeCases DEF CodeEnd, Flush, CodeBreaks, CodeKeeps
<1>4. \A c \in chunks' \cup pieces' : c.path \in Seq(0..Size) /\ Piece(c.from, c.to, c.path) = c
  BY <1>2, <1>3 DEF TypedInv, PathsOver, RecordsInv
<1> QED
  BY <1>1, <1>4, TypedOfLoops DEF TypedInv, PathsOver, RecordsInv

LEMMA TypedNext == ShapeInv /\ TypedInv /\ [Next]_vars => TypedInv'
<1> SUFFICES ASSUME ShapeInv, TypedInv, [Next]_vars PROVE TypedInv'
  OBVIOUS
<1>1. CASE UNCHANGED vars
  <2>1. UNCHANGED <<input, stack, sections, region, windows, chunks, pieces>>
    BY <1>1 DEF vars, input
  <2> QED
    BY <2>1, TypedOfLoops DEF TypedInv, PathsOver, RecordsInv
<1>2. CASE LastFilter
  <2>1. UNCHANGED <<input, stack, sections, region, windows, pieces>> /\ chunks' \subseteq chunks
    BY <1>2, FilterKeeps DEF LastFilter, lineLoop, windowLoop
  <2> QED
    BY <2>1, TypedOfLoops DEF TypedInv, PathsOver, RecordsInv
<1> QED
  BY <1>1, <1>2, TypedLines, TypedSection, TypedWindows, TypedCode DEF Next

\* What is cut is cut at offsets of the text, and its path names offsets of the
\* text.
THEOREM TypeCorrect == Spec => []TypeOK
<1>1. ShapeInv /\ TypedInv => TypeOK
  <2> SUFFICES ASSUME ShapeInv, TypedInv PROVE TypeOK
    OBVIOUS
  <2>1. \A c : Span(c) /\ c.path \in Seq(0..Size) /\ Piece(c.from, c.to, c.path) = c => c \in Spans
    BY DEF Span, Piece, Spans
  <2>2. region \in Spans /\ windows \subseteq Spans /\ chunks \subseteq Spans /\ pieces \subseteq Spans
    BY <2>1 DEF ShapeInv, TypedInv, PathsOver, RecordsInv
  <2>3. sections \in Seq(Spans)
    <3>1. PICK P : sections \in Seq(SpansOver(P))
      BY DEF ShapeInv
    <3>2. ASSUME NEW i \in DOMAIN sections
          PROVE  sections[i] \in Spans
      <4>1. sections[i] \in SpansOver(P) /\ sections[i].path \in Seq(0..Size)
        BY <3>1, <3>2 DEF TypedInv, PathsOver
      <4> QED
        BY <4>1 DEF SpansOver, Spans
    <3> HIDE DEF Spans
    <3>3. Len(sections) \in Nat /\ sections \in [1..Len(sections) -> Spans]
      BY <3>1, <3>2
    <3> QED
      BY <3>3
  <2>4. start \in 0..Size
    BY Sizes DEF ShapeInv, Span, Settled
  <2> QED
    BY <2>2, <2>3, <2>4 DEF ShapeInv, TypedInv, PathsOver, TypeOK
<1> QED
  BY <1>1, TypedInit, TypedNext, ShapeHolds, PTL DEF Spec
=============================================================================
