--------------------------- MODULE MCParseToMatch ---------------------------
(***************************************************************************)
(* Instances of ParseToMatch for TLC: one file of up to LongLines lines,   *)
(* or two of up to ShortLines lines each.                                  *)
(***************************************************************************)
EXTENDS ParseToMatch

CONSTANTS LongLines, ShortLines

MCPositional == <<"resume_0", "resume_1">>

MCRequested == {-1, 1, 3, 5}

Texts(n) == UNION {[1..k -> LineKinds] : k \in 0..n}
FilesOf(n) == [name : Names, text : Texts(n)]

MCJdUploads == [1..1 -> FilesOf(LongLines)] \cup [1..2 -> FilesOf(ShortLines)]
=============================================================================
