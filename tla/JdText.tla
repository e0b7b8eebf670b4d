------------------------------- MODULE JdText -------------------------------
(***************************************************************************)
(* pipeline._split_jd_text: how a job description file is cut into one     *)
(* chunk per 招聘单位 header.  A text is a sequence of lines, of which     *)
(* the regular expression ^\s*【?\s*招聘单位 can tell five kinds.  Its     *)
(* \s* runs over line ends: a match may begin in blank lines, or at a 【   *)
(* that stands alone, above the line with the header.                      *)
(***************************************************************************)
EXTENDS Integers, FiniteSets, Sequences

LineKinds == {"plain",      \* 招聘单位...
              "wrapped",    \* 【招聘单位...
              "bracket",    \* 【 and nothing else
              "blank",
              "body"}       \* anything else

Headers(text) == {h \in DOMAIN text : text[h] \in {"plain", "wrapped"}}

\* Where a match of header h could begin: nothing but blanks, and one 【, if
\* any, from there to its 招聘单位.
LeadAnyBrackets(text, h) ==
    {i \in 1..h : \A k \in i..(h - 1) : text[k] \in {"blank", "bracket"}}
Lead(text, h) ==
    {i \in 1..h :
        /\ \A k \in i..(h - 1) : text[k] \in {"blank", "bracket"}
        /\ \A k, l \in i..h :
              text[k] \in {"bracket", "wrapped"} /\ text[l] \in {"bracket", "wrapped"}
                  => k = l}

\* text[s:e]: from the leftmost match of h up to that of the next header.
Slice(text, h) ==
    {n \in DOMAIN text :
        /\ n >= h \/ n \in Lead(text, h)
        /\ \A g \in Headers(text) : g > h => n < g /\ n \notin Lead(text, g)}

\* str.strip
Stripped(text, S) ==
    {n \in S : \E a, b \in S : a <= n /\ n <= b /\ text[a] # "blank" /\ text[b] # "blank"}

Chunk(text, h) == Stripped(text, Slice(text, h))

\* The chunk_index of the chunk of h: its place among the chunks.
ChunkIndex(text, h) == Cardinality({g \in Headers(text) : g < h})

----------------------------------------------------------------------------
(* The same, told line by line *)

\* Line n is the lone 【 that opens header h: only blanks are between them.
Opens(text, n, h) ==
    /\ text[n] = "bracket"
    /\ text[h] = "plain"
    /\ n < h
    /\ \A k \in (n + 1)..(h - 1) : text[k] = "blank"

\* A line that is not blank belongs to the header above it, or to the one it
\* opens.
BelongsTo(text, n, h) ==
    \/ Opens(text, n, h)
    \/ /\ n >= h
       /\ \A g \in Headers(text) : g > h => n < g /\ ~Opens(text, n, g)

\* The chunks are what that says: every line that is not blank is in the chunk
\* of its header and in no other, a line above the first header is in none, no
\* chunk begins or ends in a blank, and each has its own header alone.
SplitsInto(text) ==
    \A h \in Headers(text) :
        /\ {n \in Chunk(text, h) : text[n] # "blank"}
               = {n \in DOMAIN text : text[n] # "blank" /\ BelongsTo(text, n, h)}
        /\ Chunk(text, h) \cap Headers(text) = {h}
        /\ \A g \in Headers(text) \ {h} : Chunk(text, g) \cap Chunk(text, h) = {}
        /\ \A n \in Chunk(text, h) : \E a, b \in Chunk(text, h) :
              a <= n /\ n <= b /\ text[a] # "blank" /\ text[b] # "blank"
=============================================================================
