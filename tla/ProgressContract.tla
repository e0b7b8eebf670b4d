------------------------- MODULE ProgressContract -------------------------
(***************************************************************************)
(* What pipeline.match_all promises whoever listens to its on_progress     *)
(* events: first every job description, then the resumes, each of them     *)
(* parsed once and scored once and never scored before it was parsed; a    *)
(* report only when all are scored.  When match_all raises, the resumes    *)
(* that are under way go on reporting, since nobody stops their tasks.     *)
(***************************************************************************)
EXTENDS Naturals

CONSTANTS
    NumJds,         \* jd_files_total
    NumResumes      \* resumes_total

VARIABLES
    phase,      \* where the call of match_all stands
    jds,        \* jd_files_done of the latest jd_parsed event
    parsed,     \* resumes_parsed of the latest resume_parsed event
    scored      \* resumes_scored of the latest resume_scored event

vars == <<phase, jds, parsed, scored>>

Init ==
    /\ phase = "new"
    /\ jds = 0
    /\ parsed = 0
    /\ scored = 0

\* The start event: every parse is scheduled.
Start ==
    /\ phase = "new"
    /\ phase' = "parsing"
    /\ UNCHANGED <<jds, parsed, scored>>

\* A jd_parsed event.
JdParsed ==
    /\ phase = "parsing"
    /\ jds < NumJds
    /\ jds' = jds + 1
    /\ UNCHANGED <<phase, parsed, scored>>

\* The jds_ready event: the job universe is complete.
JdsReady ==
    /\ phase = "parsing"
    /\ jds = NumJds
    /\ phase' = "matching"
    /\ UNCHANGED <<jds, parsed, scored>>

\* Resumes are heard of once the universe is complete, and from then on even
\* if the call has raised.
ResumesUnderWay == jds = NumJds /\ phase \in {"matching", "raised"}

\* A resume_parsed event.
ResumeParsed ==
    /\ ResumesUnderWay
    /\ parsed < NumResumes
    /\ parsed' = parsed + 1
    /\ UNCHANGED <<phase, jds, scored>>

\* A resume_scored event, of a resume that was parsed before.
ResumeScored ==
    /\ ResumesUnderWay
    /\ scored < parsed
    /\ scored' = scored + 1
    /\ UNCHANGED <<phase, jds, parsed>>

\* The report goes to the caller.
Return ==
    /\ phase = "matching"
    /\ scored = NumResumes
    /\ phase' = "returned"
    /\ UNCHANGED <<jds, parsed, scored>>

\* The call raises: a job description's task did, or a resume's.
Raise ==
    /\ \/ phase = "parsing" /\ jds < NumJds
       \/ phase = "matching" /\ scored < NumResumes
    /\ phase' = "raised"
    /\ UNCHANGED <<jds, parsed, scored>>

Next ==
    \/ Start \/ JdParsed \/ JdsReady
    \/ ResumeParsed \/ ResumeScored
    \/ Return \/ Raise

Spec == Init /\ [][Next]_vars
=============================================================================
