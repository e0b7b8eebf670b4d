---------------------------- MODULE ParseToMatch ----------------------------
(***************************************************************************)
(* The way a client goes: job descriptions to POST /v1/job/parse, resumes  *)
(* to POST /v1/resume/parse, and what they parsed straight into            *)
(* POST /v1/resume-matching/match.  It is about the ids that the first two *)
(* endpoints make and the third one checks, and about the limits of the    *)
(* three.  How one request runs is ParseRequest and MatchRouter.           *)
(*                                                                         *)
(* An upload that a parse endpoint refuses changes nothing, so that only   *)
(* accepted ones are actions.                                              *)
(***************************************************************************)
EXTENDS JdText

CONSTANTS
    Names,              \* the file names a client may send, "" for none
    Positional,         \* the name f"resume_{i}" of a resume sent without one
    JdUploads,          \* job description uploads a client may send
    MaxJdFiles,         \* MAX_FILES of job/parse_router
    MaxChunks,          \* MAX_CHUNKS_PER_REQUEST
    MaxListed,          \* bound: jobs found in a file without headers
    MaxResumeFiles,     \* MAX_FILES of resume/parse_router
    MaxResumes,         \* MAX_RESUMES
    MaxJobs,            \* MAX_JOBS
    MaxPairs,           \* MAX_PAIRS
    DefaultConcurrency, \* DEFAULT_CONCURRENCY
    Requested           \* what a client may ask for as options.concurrency

Files == [name : Names, text : Seq(LineKinds)]

ASSUME UploadsAssumption == JdUploads \subseteq Seq(Files)
ASSUME PositionalAssumption == \A i \in 1..MaxResumeFiles : Positional[i] \in Names
ASSUME BoundsAssumption == MaxJdFiles \in Nat /\ MaxResumeFiles \in Nat /\ MaxListed \in Nat
\* As in the code: 20 files and 100 chunks there, 100 resumes and jobs here.
ASSUME LimitsAssumption ==
    /\ MaxChunks \in Nat /\ MaxResumes \in Nat /\ MaxJobs \in Nat /\ MaxPairs \in Nat
    /\ MaxChunks <= MaxJobs
    /\ MaxResumeFiles <= MaxResumes
ASSUME ConcurrencyAssumption ==
    DefaultConcurrency \in Nat \ {0} /\ Requested \subseteq Int

VARIABLES
    stage,          \* how far the client has come
    jds,            \* the job descriptions in flight
    jobs,           \* what was parsed of them: ParseJobResponse.parsed
    resumes,        \* ParseResponse.parsed
    idsGiven,       \* whether the client sent resume_ids
    refusal,        \* why match_sync refused
    concurrency     \* what it passed to score_pairs

vars == <<stage, jds, jobs, resumes, idsGiven, refusal, concurrency>>

Init ==
    /\ stage = "new"
    /\ jds = <<>>
    /\ jobs = {}
    /\ resumes = {}
    /\ idsGiven = FALSE
    /\ refusal = "none"
    /\ concurrency = 0

----------------------------------------------------------------------------
(* POST /v1/job/parse *)

\* upload.filename or "unnamed.txt"
JdName(file) == IF file.name = "" THEN "unnamed.txt" ELSE file.name

\* The units of work: the chunks of each file, or the file if it has none.
Chunks(file) == {ChunkIndex(file.text, h) : h \in Headers(file.text)}
ChunkUnits(files) == UNION {{f} \X Chunks(files[f]) : f \in DOMAIN files}
Unsplit(files) == {f \in DOMAIN files : Headers(files[f].text) = {}}

UploadJds ==
    /\ stage = "new"
    /\ jds' \in JdUploads
    /\ Len(jds') \in 1..MaxJdFiles
    /\ Cardinality(ChunkUnits(jds')) + Cardinality(Unsplit(jds')) <= MaxChunks
    /\ stage' = "parsing_jds"
    /\ UNCHANGED <<jobs, resumes, idsGiven, refusal, concurrency>>

\* The f"{filename}#{i}" of a job tells its name and index apart: the last # is
\* the separator.
JobItem(f, i, listed) ==
    [file |-> f, name |-> JdName(jds[f]), index |-> i, listed |-> listed]
JobId(job) == <<job.name, job.index>>

\* Some chunks parse and some fail; a list call fails or gives any number.
JdsParsed ==
    /\ stage = "parsing_jds"
    /\ \E parsed \in SUBSET ChunkUnits(jds) :
       \E listed \in [Unsplit(jds) -> 0..MaxListed] :
          jobs' = {JobItem(u[1], u[2], FALSE) : u \in parsed}
                  \cup UNION {{JobItem(f, i, TRUE) : i \in 0..(listed[f] - 1)} : f \in Unsplit(jds)}
    /\ stage' = "jds_parsed"
    /\ jds' = <<>>
    /\ UNCHANGED <<resumes, idsGiven, refusal, concurrency>>

----------------------------------------------------------------------------
(* POST /v1/resume/parse *)

\* upload.filename or f"resume_{i}"
ResumeName(names, i) == IF names[i] = "" THEN Positional[i] ELSE names[i]

\* resume_ids, one for each file and no two the same, or the names.
ResumesParsed ==
    /\ stage = "jds_parsed"
    /\ \E size \in 1..MaxResumeFiles :
       \E names \in [1..size -> Names], parsed \in SUBSET (1..size) :
          \/ /\ idsGiven' = FALSE
             /\ resumes' = {[file |-> i, id |-> ResumeName(names, i)] : i \in parsed}
          \/ \E ids \in [1..size -> Names] :
             /\ \A i, k \in 1..size : ids[i] = ids[k] => i = k
             /\ idsGiven' = TRUE
             /\ resumes' = {[file |-> i, id |-> ids[i]] : i \in parsed}
    /\ stage' = "parsed"
    /\ UNCHANGED <<jds, jobs, refusal, concurrency>>

----------------------------------------------------------------------------
(* POST /v1/resume-matching/match *)

\* len(set(...)) != len(...)
ResumeIdsRepeat == Cardinality({r.id : r \in resumes}) # Cardinality(resumes)
JobIdsRepeat == Cardinality({JobId(j) : j \in jobs}) # Cardinality(jobs)

\* _validate; "none" lets the request through.
Validated ==
    IF resumes = {} \/ jobs = {} THEN "empty"
    ELSE IF Cardinality(resumes) > MaxResumes \/ Cardinality(jobs) > MaxJobs THEN "too_many"
    ELSE IF Cardinality(resumes) * Cardinality(jobs) > MaxPairs THEN "too_many_pairs"
    ELSE IF ResumeIdsRepeat \/ JobIdsRepeat THEN "repeated_ids"
    ELSE "none"

Smaller(a, b) == IF a < b THEN a ELSE b
Larger(a, b) == IF a < b THEN b ELSE a

\* _resolve_concurrency: 0 and no request at all mean the default.
ResolvedUnclamped(requested) ==
    Smaller(IF requested = 0 THEN DefaultConcurrency ELSE requested,
            DefaultConcurrency * 2)
Resolved(requested) ==
    Larger(1, Smaller(IF requested = 0 THEN DefaultConcurrency ELSE requested,
                      DefaultConcurrency * 2))

Match ==
    /\ stage = "parsed"
    /\ refusal' = Validated
    /\ IF refusal' = "none"
       THEN /\ stage' = "accepted"
            /\ \E requested \in Requested \cup {0} : concurrency' = Resolved(requested)
       ELSE stage' = "refused" /\ UNCHANGED concurrency
    /\ UNCHANGED <<jds, jobs, resumes, idsGiven>>

Next == UploadJds \/ JdsParsed \/ ResumesParsed \/ Match

Spec == Init /\ [][Next]_vars

----------------------------------------------------------------------------
(* Properties *)

\* The variables keep their types; whatever a client asks for, score_pairs gets
\* a concurrency from one to twice the default.
TypeOK ==
    /\ stage \in {"new", "parsing_jds", "jds_parsed", "parsed", "accepted", "refused"}
    /\ jds \in JdUploads \cup {<<>>}
    /\ jobs \subseteq [file : 1..MaxJdFiles, name : Names \cup {"unnamed.txt"},
                       index : Nat, listed : BOOLEAN]
    /\ resumes \subseteq [file : 1..MaxResumeFiles, id : Names]
    /\ idsGiven \in BOOLEAN
    /\ refusal \in {"none", "empty", "too_many", "too_many_pairs", "repeated_ids"}
    /\ concurrency \in 0..(DefaultConcurrency * 2)
    /\ stage = "accepted" => concurrency >= 1

\* _split_jd_text cuts every file of an upload as it should: see JdText.
SplitPartitions == \A f \in DOMAIN jds : SplitsInto(jds[f].text)

\* /match refuses what the parse endpoints gave for no other reasons than
\* these: nothing parsed; a file without headers held more jobs than one unit
\* of the parse limit stands for; resumes times jobs; two uploads of one name,
\* which is where PUBLIC_API.md's "Pass both straight into .../match" ends.  In
\* particular the chunks of a single file never collide with each other.
RefusalExplained ==
    /\ refusal = "empty" => resumes = {} \/ jobs = {}
    /\ refusal = "too_many" => \E j \in jobs : j.listed /\ j.index > 0
    /\ refusal = "too_many_pairs" => Cardinality(resumes) * Cardinality(jobs) > MaxPairs
    /\ refusal = "repeated_ids" =>
          \/ \E j, k \in jobs : j.file # k.file /\ j.name = k.name
          \/ ~idsGiven /\ \E r, q \in resumes : r.file # q.file /\ r.id = q.id

\* What /match takes it can answer: the two ids of a result name one resume and
\* one job of what the client sent, and there is a result to wait for.
AcceptedTraceable ==
    stage = "accepted" =>
        /\ resumes # {} /\ jobs # {}
        /\ \A p, q \in resumes \X jobs :
              p[1].id = q[1].id /\ JobId(p[2]) = JobId(q[2]) => p = q

MatchGateSound == RefusalExplained /\ AcceptedTraceable
=============================================================================
