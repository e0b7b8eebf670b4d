------------------------------ MODULE MatchAll ------------------------------
(***************************************************************************)
(* One call of pipeline.match_all: a task parses each job description and  *)
(* each resume, all at once; the call takes in the job descriptions as     *)
(* they are done; when it has the last of them, every resume is scored     *)
(* against the whole list as soon as its own parse is done, and gets its   *)
(* best TopK jobs.  The scoring calls go through one semaphore, in the     *)
(* order in which they asked for it, with neither timeout nor retry.       *)
(*                                                                         *)
(* A parse by the model ends because with_timeout_retry ends (see          *)
(* ScorePairs).  on_progress cannot disturb the call: what it raises is    *)
(* swallowed.                                                              *)
(***************************************************************************)
EXTENDS Integers, FiniteSets, Sequences

CONSTANTS
    NumResumes,     \* len(resumes)
    NumJds,         \* len(jobs): job description files
    MaxJobs,        \* bound: jobs found in one file
    Concurrency,    \* the `concurrency` argument: no max(1, ...) here
    TopK,           \* the `top_k` argument
    Scores          \* what the model may score a pair

ASSUME SizesAssumption ==
    NumResumes \in Nat /\ NumJds \in Nat /\ MaxJobs \in Nat
ASSUME ArgumentsAssumption == Concurrency \in Nat /\ TopK \in Nat
ASSUME ScoresAssumption == Scores \subseteq Int

VARIABLES
    stage,      \* where the match_all coroutine stands
    known,      \* whether LLM_PROVIDER names a provider
    jd,         \* where the task of each job description stands
    found,      \* how many jobs it found; none if it ended in an error
    finished,   \* its results that match_all has not taken in yet
    jdDone,     \* the counter jd_done
    jobList,    \* job_list: the source file of each job
    resume,     \* where the parse task of each resume stands
    match,      \* where its _match_one coroutine stands
    waiting,    \* the pairs that wait for the semaphore, in its order
    calling,    \* the pairs inside ScoreMatch
    answered,   \* per resume: its scored jobs
    lost,       \* per resume: the indices of the jobs whose call raised
    parsed,     \* resume_counter["parsed"]
    scored,     \* resume_counter["scored"]
    report      \* per resume: its top_matches

jdVars == <<jd, found, finished, jdDone, jobList>>
pairVars == <<waiting, calling, answered, lost>>
vars == <<stage, known, jdVars, resume, match, pairVars, parsed, scored, report>>

Jds == 1..NumJds
Resumes == 1..NumResumes
JobIndex == DOMAIN jobList
JobSlots == 1..(NumJds * MaxJobs)
Matches == [index : Nat, value : Scores]

Init ==
    /\ stage = "new"
    /\ known \in BOOLEAN
    /\ jd = [j \in Jds |-> "idle"]
    /\ found = [j \in Jds |-> 0]
    /\ finished = <<>>
    /\ jdDone = 0
    /\ jobList = <<>>
    /\ resume = [r \in Resumes |-> "idle"]
    /\ match = [r \in Resumes |-> "none"]
    /\ waiting = <<>>
    /\ calling = {}
    /\ answered = [r \in Resumes |-> {}]
    /\ lost = [r \in Resumes |-> {}]
    /\ parsed = 0
    /\ scored = 0
    /\ report = [r \in Resumes |-> {}]

----------------------------------------------------------------------------
(* The parse tasks *)

\* asyncio.create_task for every file.
Start ==
    /\ stage = "new"
    /\ stage' = "parsing"
    /\ jd' = [j \in Jds |-> "parsing"]
    /\ resume' = [r \in Resumes |-> "extracting"]
    /\ UNCHANGED <<known, found, finished, jdDone, jobList, match, pairVars,
                   parsed, scored, report>>

\* _parse_jobs returns the jobs of the chunks that parsed, or of the list call;
\* an error gives none.  Only an unknown provider, asked for outside of the try
\* block, leaves the task as an exception.
JdEnds(j) ==
    /\ jd[j] = "parsing"
    /\ jd' = [jd EXCEPT ![j] = IF known THEN "done" ELSE "escaped"]
    /\ \E n \in 0..MaxJobs :
          /\ ~known => n = 0
          /\ found' = [found EXCEPT ![j] = n]
    /\ finished' = Append(finished, j)
    /\ UNCHANGED <<stage, known, jdDone, jobList, resume, match, pairVars,
                   parsed, scored, report>>

\* The worker thread ends: the text goes to the model, unless the provider is
\* unknown; PdfExtractionError is the resume's error; anything else escapes.
ExtractionEnds(r) ==
    /\ resume[r] = "extracting"
    /\ \E next \in {IF known THEN "calling" ELSE "escaped", "failed", "escaped"} :
          resume' = [resume EXCEPT ![r] = next]
    /\ UNCHANGED <<stage, known, jdVars, match, pairVars, parsed, scored, report>>

\* ParseResume returned or, after its retries, raised.
ResumeCallEnds(r) ==
    /\ resume[r] = "calling"
    /\ \E next \in {"parsed", "failed"} : resume' = [resume EXCEPT ![r] = next]
    /\ UNCHANGED <<stage, known, jdVars, match, pairVars, parsed, scored, report>>

----------------------------------------------------------------------------
(* The match_all coroutine *)

\* The next result of as_completed: its jobs join the list, or it raises.
TakeJd ==
    /\ stage = "parsing"
    /\ finished # <<>>
    /\ LET j == Head(finished) IN
          IF jd[j] = "escaped"
          THEN stage' = "raised" /\ UNCHANGED <<jdDone, jobList>>
          ELSE /\ jdDone' = jdDone + 1
               /\ jobList' = jobList \o [i \in 1..found[j] |-> j]
               /\ UNCHANGED stage
    /\ finished' = Tail(finished)
    /\ UNCHANGED <<known, jd, found, resume, match, pairVars, parsed, scored, report>>

\* Every job description is in: gather starts a _match_one for every resume.
JdsReadyOnceIdle ==
    /\ stage = "parsing"
    /\ finished = <<>> /\ jdDone > 0
    /\ stage' = "matching"
    /\ match' = [r \in Resumes |-> "awaiting"]
    /\ UNCHANGED <<known, jdVars, resume, pairVars, parsed, scored, report>>
JdsReady ==
    /\ stage = "parsing"
    /\ jdDone = NumJds
    /\ stage' = "matching"
    /\ match' = [r \in Resumes |-> "awaiting"]
    /\ UNCHANGED <<known, jdVars, resume, pairVars, parsed, scored, report>>

Return ==
    /\ stage = "matching"
    /\ \A r \in Resumes : match[r] = "reported"
    /\ stage' = "returned"
    /\ UNCHANGED <<known, jdVars, resume, match, pairVars, parsed, scored, report>>

\* gather passes the first exception on and leaves the other tasks running.
Raise ==
    /\ stage = "matching"
    /\ \E r \in Resumes : match[r] = "raised"
    /\ stage' = "raised"
    /\ UNCHANGED <<known, jdVars, resume, match, pairVars, parsed, scored, report>>

----------------------------------------------------------------------------
(* _match_one, and its scoring calls *)

\* The parse of r is there: it is counted, or its exception goes through.
TakeResumeInOrder(r) ==
    /\ match[r] = "awaiting" /\ \A q \in 1..(r - 1) : match[q] # "awaiting"
    /\ resume[r] \in {"parsed", "failed", "escaped"}
    /\ IF resume[r] = "escaped"
       THEN match' = [match EXCEPT ![r] = "raised"] /\ UNCHANGED parsed
       ELSE match' = [match EXCEPT ![r] = "parsed"] /\ parsed' = parsed + 1
    /\ UNCHANGED <<stage, known, jdVars, resume, pairVars, scored, report>>
TakeResume(r) ==
    /\ match[r] = "awaiting"
    /\ resume[r] \in {"parsed", "failed", "escaped"}
    /\ IF resume[r] = "escaped"
       THEN match' = [match EXCEPT ![r] = "raised"] /\ UNCHANGED parsed
       ELSE match' = [match EXCEPT ![r] = "parsed"] /\ parsed' = parsed + 1
    /\ UNCHANGED <<stage, known, jdVars, resume, pairVars, scored, report>>

\* Nothing to score: the parse failed, or there are no jobs.
SkipUncounted(r) ==
    /\ match[r] = "parsed"
    /\ resume[r] = "failed" \/ jobList = <<>>
    /\ match' = [match EXCEPT ![r] = "reported"]
    /\ scored' = IF resume[r] = "failed" THEN scored + 1 ELSE scored
    /\ UNCHANGED <<stage, known, jdVars, resume, pairVars, parsed, report>>
Skip(r) ==
    /\ match[r] = "parsed"
    /\ resume[r] = "failed" \/ jobList = <<>>
    /\ match' = [match EXCEPT ![r] = "reported"]
    /\ scored' = scored + 1
    /\ UNCHANGED <<stage, known, jdVars, resume, pairVars, parsed, report>>

\* A task for each job, which begins by asking for the semaphore.
FanOut(r) ==
    /\ match[r] = "parsed"
    /\ resume[r] = "parsed" /\ jobList # <<>>
    /\ match' = [match EXCEPT ![r] = "scoring"]
    /\ waiting' = waiting \o [i \in JobIndex |-> <<r, i>>]
    /\ UNCHANGED <<stage, known, jdVars, resume, calling, answered, lost,
                   parsed, scored, report>>

\* The longest waiting pair gets a slot and calls the model.
MayAcquire == waiting # <<>> /\ Cardinality(calling) < Concurrency

AcquireOneMore ==
    /\ waiting # <<>>
    /\ Cardinality(calling) <= Concurrency
    /\ calling' = calling \cup {Head(waiting)}
    /\ waiting' = Tail(waiting)
    /\ UNCHANGED <<stage, known, jdVars, resume, match, answered, lost,
                   parsed, scored, report>>
Acquire ==
    /\ MayAcquire
    /\ calling' = calling \cup {Head(waiting)}
    /\ waiting' = Tail(waiting)
    /\ UNCHANGED <<stage, known, jdVars, resume, match, answered, lost,
                   parsed, scored, report>>

\* ScoreMatch returned.
ScoreReturns(r, i) ==
    /\ <<r, i>> \in calling
    /\ calling' = calling \ {<<r, i>>}
    /\ \E s \in Scores :
          answered' = [answered EXCEPT ![r] = @ \cup {[index |-> i, value |-> s]}]
    /\ UNCHANGED <<stage, known, jdVars, resume, match, waiting, lost,
                   parsed, scored, report>>

\* ScoreMatch raised: gather(return_exceptions=True) keeps it to this pair.
ScoreRaises(r, i) ==
    /\ <<r, i>> \in calling
    /\ calling' = calling \ {<<r, i>>}
    /\ lost' = [lost EXCEPT ![r] = @ \cup {i}]
    /\ UNCHANGED <<stage, known, jdVars, resume, match, waiting, answered,
                   parsed, scored, report>>

\* The order of the stable, descending sort: of equal scores the earlier job.
Better(m, n) == m.value > n.value \/ (m.value = n.value /\ m.index < n.index)

\* matches[:top_k] after the sort.  The list is its members in that order.
TopOf(S) == {m \in S : Cardinality({n \in S : Better(n, m)}) < TopK}

Decided(r) == {m.index : m \in answered[r]} \cup lost[r]

\* Every call of r is over.
Rank(r) ==
    /\ match[r] = "scoring"
    /\ Decided(r) = JobIndex
    /\ match' = [match EXCEPT ![r] = "reported"]
    /\ scored' = scored + 1
    /\ report' = [report EXCEPT ![r] = TopOf(answered[r])]
    /\ UNCHANGED <<stage, known, jdVars, resume, pairVars, parsed>>

Next ==
    \/ Start
    \/ TakeJd
    \/ JdsReady
    \/ Return
    \/ Raise
    \/ Acquire
    \/ \E j \in Jds : JdEnds(j)
    \/ \E r \in Resumes :
          \/ ExtractionEnds(r)
          \/ ResumeCallEnds(r)
          \/ TakeResume(r)
          \/ Skip(r)
          \/ FanOut(r)
          \/ Rank(r)
          \/ \E i \in JobIndex : ScoreReturns(r, i) \/ ScoreRaises(r, i)

Spec == Init /\ [][Next]_vars

\* The event loop runs what is ready, and the parse calls have timeouts.  An
\* extraction may take forever: nothing limits its thread.
LoopRuns ==
    /\ WF_vars(Start)
    /\ WF_vars(TakeJd)
    /\ WF_vars(JdsReady)
    /\ WF_vars(Return)
    /\ WF_vars(Raise)
    /\ WF_vars(Acquire)
    /\ \A j \in Jds : WF_vars(JdEnds(j))
    /\ \A r \in Resumes :
          /\ WF_vars(ResumeCallEnds(r))
          /\ WF_vars(TakeResume(r) \/ Skip(r) \/ FanOut(r) \/ Rank(r))

\* What the code relies on and does not see to: ScoreMatch comes back.
ModelAnswers ==
    \A r \in Resumes, i \in JobSlots :
        WF_vars(i \in JobIndex /\ (ScoreReturns(r, i) \/ ScoreRaises(r, i)))

FairSpec == Spec /\ LoopRuns /\ ModelAnswers

----------------------------------------------------------------------------
(* Properties *)

\* The variables keep their types, and no more than Concurrency scoring calls
\* are in flight over all resumes (the semaphore of match_all).
TypeOK ==
    /\ stage \in {"new", "parsing", "matching", "returned", "raised"}
    /\ known \in BOOLEAN
    /\ jd \in [Jds -> {"idle", "parsing", "done", "escaped"}]
    /\ found \in [Jds -> 0..MaxJobs]
    /\ finished \in Seq(Jds)
    /\ jdDone \in 0..NumJds
    /\ jobList \in Seq(Jds)
    /\ resume \in [Resumes -> {"idle", "extracting", "calling",
                               "parsed", "failed", "escaped"}]
    /\ match \in [Resumes -> {"none", "awaiting", "parsed", "scoring",
                              "reported", "raised"}]
    /\ waiting \in Seq(Resumes \X JobIndex)
    /\ calling \subseteq Resumes \X JobIndex
    /\ Cardinality(calling) <= Concurrency
    /\ answered \in [Resumes -> SUBSET Matches]
    /\ lost \in [Resumes -> SUBSET JobIndex]
    /\ parsed \in 0..NumResumes
    /\ scored \in 0..NumResumes
    /\ report \in [Resumes -> SUBSET Matches]

\* A resume is ranked against the whole job list: no file is still out when
\* its calls have been made, each job of every file has a verdict, and the
\* list does not grow afterwards.
RankedOnAll ==
    \A r \in Resumes :
        match[r] = "reported" /\ resume[r] = "parsed" =>
            /\ \A j \in Jds : jd[j] = "done"
                              /\ Cardinality({i \in JobIndex : jobList[i] = j}) = found[j]
            /\ Decided(r) = JobIndex

\* And its top matches are the right ones: scores the model gave, none worse
\* than a match left out, and as many as asked for or as there are.
TopIsBest ==
    \A r \in Resumes :
        match[r] = "reported" /\ resume[r] = "parsed" =>
            /\ report[r] \subseteq answered[r]
            /\ \A m \in report[r], n \in answered[r] \ report[r] : m.value >= n.value
            /\ Cardinality(report[r]) =
                  IF Cardinality(answered[r]) < TopK THEN Cardinality(answered[r]) ELSE TopK

RankingFaithful == RankedOnAll /\ TopIsBest

\* Whoever listens to on_progress sees what ProgressContract promises, however
\* the parses and calls interleave and whatever of them fails.
Progress == INSTANCE ProgressContract WITH phase <- stage, jds <- jdDone

ImplementsProgress == Progress!Spec

\* "Scoring of a given resume starts the moment that resume's parse completes,
\* independent of other resumes": a parsed resume gets its report even if the
\* extraction of another one never ends, as long as the model answers.
ParsedIsReported ==
    \A r \in Resumes :
        stage = "matching" /\ resume[r] \in {"parsed", "failed"} ~> match[r] = "reported"

\* What of ParsedIsReported needs no fairness.  First, no step is for free: each
\* takes the call, a file, a resume, its coroutine or one of its pairs a stage
\* on and nothing a stage back, so the call makes a bounded number of them.
Members(s) == {s[k] : k \in DOMAIN s}

StagesLeft ==
    IF stage = "new" THEN 3 ELSE IF stage = "parsing" THEN 2 ELSE IF stage = "matching" THEN 1 ELSE 0
FileLeft(j) ==
    IF jd[j] = "idle" THEN 3 ELSE IF jd[j] = "parsing" THEN 2 ELSE IF j \in Members(finished) THEN 1 ELSE 0
ParseLeft(r) ==
    IF resume[r] = "idle" THEN 3 ELSE IF resume[r] = "extracting" THEN 2
    ELSE IF resume[r] = "calling" THEN 1 ELSE 0
MatchLeft(r) ==
    IF match[r] = "none" THEN 4 ELSE IF match[r] = "awaiting" THEN 3
    ELSE IF match[r] = "parsed" THEN 2 ELSE IF match[r] = "scoring" THEN 1 ELSE 0
PairLeft(r, i) ==
    IF i \in Decided(r) THEN 0 ELSE IF <<r, i>> \in calling THEN 1
    ELSE IF <<r, i>> \in Members(waiting) THEN 2 ELSE 3

EveryStepCounts ==
    [][/\ StagesLeft' <= StagesLeft
       /\ \A j \in Jds : FileLeft(j)' <= FileLeft(j)
       /\ \A r \in Resumes :
             /\ ParseLeft(r)' <= ParseLeft(r)
             /\ MatchLeft(r)' <= MatchLeft(r)
             /\ \A i \in JobSlots : PairLeft(r, i)' <= PairLeft(r, i)
       /\ \/ StagesLeft' < StagesLeft
          \/ \E j \in Jds : FileLeft(j)' < FileLeft(j)
          \/ \E r \in Resumes :
                \/ ParseLeft(r)' < ParseLeft(r)
                \/ MatchLeft(r)' < MatchLeft(r)
                \/ \E i \in JobSlots : PairLeft(r, i)' < PairLeft(r, i)]_vars

\* Second, a resume whose parse is over waits for no other resume: its coroutine
\* can go on, or one of the calls that stand in its way is with the model or
\* may go there.  Only a `concurrency` of zero leaves a pair waiting for ever.
NeverHeldUp ==
    Concurrency > 0 =>
        \A r \in Resumes :
            match[r] # "none" /\ resume[r] \in {"parsed", "failed"} =>
                \/ match[r] \in {"awaiting", "parsed", "reported"}
                \/ match[r] = "scoring"
                   /\ (Decided(r) = JobIndex \/ calling # {} \/ MayAcquire)

\* And what was reported stays: no late answer changes a ranking, and the job
\* list that the indices of the ranked jobs point into is fixed by then.
ReportsFinal ==
    [][\A r \in Resumes :
          /\ match[r] # "none" => jobList' = jobList
          /\ match[r] = "reported" =>
                /\ match'[r] = match[r] /\ report'[r] = report[r]
                /\ answered'[r] = answered[r] /\ lost'[r] = lost[r]]_vars
=============================================================================
