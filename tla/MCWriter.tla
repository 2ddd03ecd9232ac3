------------------------------ MODULE MCWriter ------------------------------
\* Values of Writer's constants for TLC.
EXTENDS Writer

WriterLast == {<<"other", "writer">>}
AnyOrder == {<<"writer", "other">>, <<"other", "writer">>}

\* One mark, the low one below the high one, and marks that cross.
SameMarks == {[low |-> 2, high |-> 2]}
AllMarks == SameMarks \union {[low |-> 1, high |-> 2], [low |-> 3, high |-> 1]}
=============================================================================
