---------------------------- MODULE StringUtils ----------------------------
(***************************************************************************)
(* filter_ctrl_chars() of src/src/common/string-utils.cpp.  A string is a  *)
(* sequence of character classes: the only thing the function looks at.    *)
(***************************************************************************)
EXTENDS Naturals, Sequences

\* Classes of a (signed) char c: newline, another control character (0 <= c < 0x20),
\* a printable ASCII character, and the bytes 0x80..0xFF of a UTF-8 sequence.
CharClasses == {"nl", "ctl", "ascii", "high"}

\* Whether c < 0x20 in C++: char is signed on the x86-64 and most other builds,
\* so that the bytes from 0x80 on are negative.
Below0x20(c) == c \in {"nl", "ctl", "high"}

\* Removing the trailing newlines first makes no difference when filter_nl is set.
Keeps(filter_nl, c) == ~(Below0x20(c) /\ c # "nl") /\ ~(filter_nl /\ c = "nl")

RECURSIVE StripTrailingNewlines(_)
StripTrailingNewlines(s) ==
    IF s # <<>> /\ s[Len(s)] = "nl" THEN StripTrailingNewlines(SubSeq(s, 1, Len(s) - 1)) ELSE s

filter_ctrl_chars(input, filter_nl) ==
    LET keep(c) == Keeps(filter_nl, c) IN SelectSeq(StripTrailingNewlines(input), keep)
=============================================================================
