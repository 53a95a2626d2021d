-------------------------------- MODULE Text --------------------------------
(***************************************************************************)
(* The string functions of the C library that the parsers of nermalproxy   *)
(* are written with.  A text is a sequence of characters, or of larger     *)
(* pieces where no function looks inside them.                             *)
(***************************************************************************)
EXTENDS Integers, Sequences, SequencesExt

\* strchr and strrchr: a position, or 0.
strchr(s, c) == SelectInSeq(s, LAMBDA x : x = c)
strrchr(s, c) == SelectLastInSeq(s, LAMBDA x : x = c)

\* The text when its character at i is overwritten with the end of the string
\* (all of it if i is 0), and the text behind i.
Before(s, i) == IF i = 0 THEN s ELSE SubSeq(s, 1, i - 1)
After(s, i) == SubSeq(s, i + 1, Len(s))

\* sscanf with "%s": blanks are passed over, then characters are taken up to
\* the next blank.  If there are none the call fails and the buffer is left as
\* it is; the empty text stands for that.
SkipBlanks(s, blanks) ==
    LET i == SelectInSeq(s, LAMBDA x : x \notin blanks)
    IN  IF i = 0 THEN <<>> ELSE SubSeq(s, i, Len(s))

WordLength(s, blanks) ==
    LET i == SelectInSeq(s, LAMBDA x : x \in blanks)
    IN  IF i = 0 THEN Len(s) ELSE i - 1

Word(s, blanks) ==
    LET t == SkipBlanks(s, blanks) IN SubSeq(t, 1, WordLength(t, blanks))

\* What is left for the rest of the format.
AfterWord(s, blanks) ==
    LET t == SkipBlanks(s, blanks) IN After(t, WordLength(t, blanks))

=============================================================================
