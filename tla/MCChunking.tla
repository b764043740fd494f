----------------------------- MODULE MCChunking -----------------------------
(***************************************************************************)
(* Small instances of Chunking: all texts up to a length.                  *)
(***************************************************************************)
EXTENDS Chunking, TLC

CONSTANT MaxLength
Words(alphabet) == UNION {[1..n -> alphabet] : n \in 0..MaxLength}

\* A heading or a declaration starts a line.
Marked(t) ==
    \A i \in DOMAIN t : t[i] \in Headings \cup {Declaration} => i = 1 \/ t[i - 1] \in Breaks

MCTexts ==
    [k \in Kinds |->
       CASE k = "text" -> Words({Letter, Blank, LineFeed})
         [] k = "md" -> {t \in Words({Letter, LineFeed, 1, 2}) : Marked(t)}
         [] k = "code" -> {t \in Words({Letter, LineFeed, OtherBreak, Declaration}) : Marked(t)}]

\* An overlap larger than the size, and none; sizes and minima that are off.
MCSettings == [size : {0, 1, 2, 3}, overlap : {-1, 0, 1, 5}, min : {0, 2, 3}]
=============================================================================
