------------------------------ MODULE PageText ------------------------------
(***************************************************************************)
(* The text of a page: cleanText and fixBrokenLines of                     *)
(* internal/mupdf/gofitz_extractor.go (extractor.go, its twin for mutool,  *)
(* is never reached: go-fitz is compiled in).  A line is a number, and     *)
(* three sets say what the code looks for in it; blanks around lines are   *)
(* left out.                                                               *)
(***************************************************************************)
EXTENDS SequencesExt, Integers

CONSTANTS
    Noise,       \* empty lines, page numbers, headers, footers, ornaments
    Unfinished,  \* lines that end neither a sentence nor in a hyphen
    Lower        \* lines that start with one of a..z

Break == 0       \* "\n"
Mark == 1        \* "=== Page n ===\n"

\* The lines of s but for those of drop, in order.
Without(s, drop) ==
    LET upTo[i \in 0..Len(s)] ==
            IF i = 0 THEN <<>>
            ELSE IF s[i] \in drop THEN upTo[i - 1]
            ELSE Append(upTo[i - 1], s[i])
    IN upTo[Len(s)]

\* cleanText: the lines worth keeping.
Kept(page) == Without(page, Noise)

\* Faulty variant: a new sentence is joined to an unfinished line as well.
JoinableAnyhow(s, i) == i < Len(s) /\ s[i] \in Unfinished

\* Line i was broken in mid-sentence: the next one goes on.
Joinable(s, i) == i < Len(s) /\ s[i] \in Unfinished /\ s[i + 1] \in Lower

\* The lines that get the next one appended: the loop skips the line it
\* appended, so that line gets none.
Joins(s) ==
    LET upTo[i \in 0..Len(s)] ==
            IF i = 0 THEN {}
            ELSE IF Joinable(s, i) /\ (i - 1) \notin upTo[i - 1]
                 THEN upTo[i - 1] \cup {i} ELSE upTo[i - 1]
    IN upTo[Len(s)]

\* Faulty variant: the appended line is not skipped.
FixBrokenLinesTwice(s) ==
    FlattenSeq([i \in DOMAIN s |->
        IF i \in Joins(s) THEN <<s[i], s[i + 1], Break>>
        ELSE IF i = Len(s) THEN <<s[i]>> ELSE <<s[i], Break>>])

FixBrokenLines(s) ==
    FlattenSeq([i \in DOMAIN s |->
        IF i \in Joins(s) \/ i = Len(s) THEN <<s[i]>> ELSE <<s[i], Break>>])

\* Two lines share a line of the text only if the second goes on where the
\* first was broken off, and no third one follows them there.
OnlyBrokenJoined(text) ==
    \A i \in 1..(Len(text) - 1) :
        text[i] # Break /\ text[i + 1] # Break =>
            /\ text[i] \in Unfinished /\ text[i + 1] \in Lower
            /\ i > 1 => text[i - 1] = Break

\* What a page contributes to the text of its document.
TextOf(page) == <<Mark>> \o FixBrokenLines(Kept(page))
=============================================================================
