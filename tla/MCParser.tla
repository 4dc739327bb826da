------------------------------ MODULE MCParser ------------------------------
(* An instance of Parser for TLC: every line of up to three symbols, and     *)
(* those with a command and any four symbols after it, that tell coordinates *)
(* from other letters, and the three kinds of values from text.              *)
EXTENDS Parser

Apart(l) == \A i \in 1 .. Len(l) - 1 : ~ (l[i] \in Floats /\ l[i + 1] \in Floats)

Short == {l \in BoundedSeq(Symbols, 3) : Apart(l)}

Commands == {<<"G", n>> : n \in {"0", "28", "91"}}
Rests == BoundedSeq({Blank, "X", "F", "other", "1", "nan", "long"}, 4)
Long == {l \in {c \o <<Blank>> \o r : c \in Commands, r \in Rests} : Apart(l)}

MCLines == Short \cup Long
=============================================================================
