---------------------------- MODULE ParseRequest ----------------------------
(***************************************************************************)
(* One request to a parse endpoint: POST /v1/resume/parse, a task for each *)
(* uploaded PDF, or POST /v1/job/parse, a task for each chunk of a file    *)
(* that splits on its headers and one for each file that does not (its     *)
(* bundle is parsed by one call).  A semaphore caps the tasks at work; the *)
(* bundles do not take it.  gather is called without return_exceptions, so *)
(* an exception that leaves a task ends the request at once, and the other *)
(* tasks run on with nobody waiting for them.                              *)
(***************************************************************************)
EXTENDS Integers, FiniteSets, Sequences

CONSTANTS
    NumUnits,       \* PDFs of the request, or chunks and bundles
    Concurrency,    \* PARSE_CONCURRENCY
    MaxRetries,     \* llm_call._max_retries()
    MaxListed       \* bound: jobs one list call finds in a bundle

ASSUME NumUnitsAssumption == NumUnits \in Nat \ {0}
ASSUME ConcurrencyAssumption == Concurrency \in Nat \ {0}
ASSUME MaxRetriesAssumption == MaxRetries \in Nat
ASSUME MaxListedAssumption == MaxListed \in Nat

VARIABLES
    kind,       \* what each unit of work is
    stage,      \* where the handler stands
    at,         \* where the task of each unit stands
    attempt,    \* the loop variable of with_timeout_retry, per unit
    found,      \* how many resumes or jobs the call of each unit gave
    free,       \* the semaphore's value
    row,        \* the usage rows of the request
    answer      \* what the client was answered

vars == <<kind, stage, at, attempt, found, free, row, answer>>

Units == 1..NumUnits        \* in the order gather creates their tasks
Kinds == {"pdf", "chunk", "bundle"}
TakesSlot(u) == kind[u] # "bundle"

Parsed == {u \in Units : at[u] = "parsed"}
Failed == {u \in Units : at[u] = "failed"}
Escaped == {u \in Units : at[u] = "escaped"}
AtWork == {u \in Units : at[u] \in {"extracting", "calling"}}
Settled == Parsed \cup Failed \cup Escaped

NoAnswer == [code |-> "none", parsed |-> {}, errors |-> {}]

Init ==
    /\ \/ kind = [u \in Units |-> "pdf"]
       \/ \E chunks \in 0..NumUnits :
             kind = [u \in Units |-> IF u <= chunks THEN "chunk" ELSE "bundle"]
    /\ stage = "reading"
    /\ at = [u \in Units |-> "idle"]
    /\ attempt = [u \in Units |-> 0]
    /\ found = [u \in Units |-> 0]
    /\ free = Concurrency
    /\ row = <<>>
    /\ answer = NoAnswer

----------------------------------------------------------------------------
(* The handler *)

\* Too many files or chunks, a file too large or not UTF-8, bad resume_ids.
Refuse ==
    /\ stage = "reading"
    /\ stage' = "over"
    /\ answer' = [answer EXCEPT !.code = "4xx"]
    /\ UNCHANGED <<kind, found, at, attempt, free, row>>

\* resolve_llm_provider raises before any task exists.
ProviderUnknown ==
    /\ stage = "reading"
    /\ stage' = "over"
    /\ answer' = [answer EXCEPT !.code = "500"]
    /\ UNCHANGED <<kind, found, at, attempt, free, row>>

\* Where the task of u goes when it may start.
FirstStep(u) == IF kind[u] = "pdf" THEN "extracting" ELSE "calling"

\* gather creates the tasks, and their first steps run one after the other.
FanOut ==
    /\ stage = "reading"
    /\ stage' = "gathering"
    /\ at' = [u \in Units |->
                IF TakesSlot(u) /\ u > Concurrency THEN "waiting" ELSE FirstStep(u)]
    /\ free' = Concurrency - Cardinality({u \in Units : TakesSlot(u) /\ u <= Concurrency})
    /\ UNCHANGED <<kind, found, attempt, row, answer>>

\* Every task returned; what they returned is sorted into parsed and errors.
GatherReturnsWithoutBundles ==
    /\ stage = "gathering"
    /\ Escaped = {}
    /\ \A u \in Units : TakesSlot(u) => u \in Settled
    /\ stage' = "logging"
    /\ UNCHANGED <<kind, found, at, attempt, free, row, answer>>
GatherReturnsSkippingEscaped ==
    /\ stage = "gathering"
    /\ Settled = Units
    /\ stage' = "logging"
    /\ UNCHANGED <<kind, found, at, attempt, free, row, answer>>
MayGather == stage = "gathering" /\ Escaped = {} /\ Settled = Units
GatherReturns ==
    /\ MayGather
    /\ stage' = "logging"
    /\ UNCHANGED <<kind, found, at, attempt, free, row, answer>>

\* gather raises the first exception that left a task, and so does the handler.
GatherRaises ==
    /\ stage = "gathering"
    /\ Escaped # {}
    /\ stage' = "over"
    /\ answer' = [answer EXCEPT !.code = "500"]
    /\ UNCHANGED <<kind, found, at, attempt, free, row>>

\* The list `parsed`, each item by its unit and its index there: a resume or a
\* chunk appends one item, a bundle extends the list by all its call found.
Results(u) == {u} \X (0 .. found[u] - 1)
ItemsOneEach == Parsed \X {0}
Items == UNION {Results(u) : u \in Parsed}

\* UsageStore.log inserts the row, or swallows the failure to; then the answer.
LogReturns ==
    /\ stage = "logging"
    /\ stage' = "over"
    /\ row' \in {row, Append(row, [units |-> NumUnits, failed |-> Cardinality(Failed)])}
    /\ answer' = [code |-> "200", parsed |-> Items, errors |-> Failed]
    /\ UNCHANGED <<kind, found, at, attempt, free>>

----------------------------------------------------------------------------
(* The task of a unit *)

\* The longest waiting task gets a slot and starts.
MayAcquire(u) ==
    /\ at[u] = "waiting"
    /\ \A v \in Units : at[v] = "waiting" => u <= v
    /\ free > 0
Acquire(u) ==
    /\ MayAcquire(u)
    /\ at' = [at EXCEPT ![u] = FirstStep(u)]
    /\ free' = free - 1
    /\ UNCHANGED <<kind, found, stage, attempt, row, answer>>

\* The task ends in v and leaves `async with sem`, if it was inside.
SettleKeepingSlotOnEscape(u, v) ==
    /\ at' = [at EXCEPT ![u] = v]
    /\ free' = IF TakesSlot(u) /\ v # "escaped" THEN free + 1 ELSE free
Settle(u, v) ==
    /\ at' = [at EXCEPT ![u] = v]
    /\ free' = IF TakesSlot(u) THEN free + 1 ELSE free

\* extract_pdf_text gives the text, which goes to the model.
ExtractReturns(u) ==
    /\ at[u] = "extracting"
    /\ at' = [at EXCEPT ![u] = "calling"]
    /\ UNCHANGED <<kind, found, stage, attempt, free, row, answer>>

\* It raises: PdfExtractionError (not a PDF, or no text) is the file's error.
\* Anything else leaves the task: pypdf missing, or an exception of the loop
\* over reader.pages, which stands outside of any try.
ExtractRaises(u) ==
    /\ at[u] = "extracting"
    /\ \E v \in {"failed", "escaped"} : Settle(u, v)
    /\ UNCHANGED <<kind, found, stage, attempt, row, answer>>

\* The model answered and the answer converts to the public schema: one resume,
\* the job of a chunk, or a list of jobs, which may be empty.
CallReturns(u) ==
    /\ at[u] = "calling"
    /\ Settle(u, "parsed")
    /\ \E n \in IF kind[u] = "bundle" THEN 0..MaxListed ELSE {1} :
          found' = [found EXCEPT ![u] = n]
    /\ UNCHANGED <<kind, stage, attempt, row, answer>>

MayRetryOnceMore(u) == attempt[u] <= MaxRetries
MayRetry(u) == attempt[u] < MaxRetries

\* The attempt failed: transiently, and is made again in the same slot while
\* retries are left, or for good.
AttemptEndsEscaping(u, transient) ==
    IF transient /\ MayRetry(u)
    THEN /\ attempt' = [attempt EXCEPT ![u] = attempt[u] + 1]
         /\ UNCHANGED <<at, free>>
    ELSE /\ Settle(u, IF transient THEN "failed" ELSE "escaped")
         /\ UNCHANGED attempt
AttemptEnds(u, transient) ==
    IF transient /\ MayRetry(u)
    THEN /\ attempt' = [attempt EXCEPT ![u] = attempt[u] + 1]
         /\ UNCHANGED <<at, free>>
    ELSE /\ Settle(u, "failed")
         /\ UNCHANGED attempt

\* The provider, BAML's validation or the conversion of the answer raises.
CallRaises(u) ==
    /\ at[u] = "calling"
    /\ \E transient \in BOOLEAN : AttemptEnds(u, transient)
    /\ UNCHANGED <<kind, found, stage, row, answer>>

\* asyncio.wait_for gives up on the attempt.
TimeoutFires(u) ==
    /\ at[u] = "calling"
    /\ AttemptEnds(u, TRUE)
    /\ UNCHANGED <<kind, found, stage, row, answer>>

Next ==
    \/ Refuse
    \/ ProviderUnknown
    \/ FanOut
    \/ GatherReturns
    \/ GatherRaises
    \/ LogReturns
    \/ \E u \in Units :
          \/ Acquire(u)
          \/ ExtractReturns(u)
          \/ ExtractRaises(u)
          \/ CallReturns(u)
          \/ CallRaises(u)
          \/ TimeoutFires(u)

Spec == Init /\ [][Next]_vars

\* The event loop runs what is ready, timers fire, and an extraction, which is
\* local computation, comes to an end.  The model need never answer.
Fairness ==
    /\ WF_vars(GatherReturns)
    /\ WF_vars(GatherRaises)
    /\ WF_vars(LogReturns)
    /\ \A u \in Units :
          /\ WF_vars(Acquire(u))
          /\ WF_vars(ExtractReturns(u) \/ ExtractRaises(u))
          /\ WF_vars(TimeoutFires(u))

FairSpec == Spec /\ Fairness

----------------------------------------------------------------------------
(* Properties *)

\* The variables keep their types; no unit is attempted more than MaxRetries
\* times after the first.
TypeOK ==
    /\ kind \in [Units -> Kinds]
    /\ stage \in {"reading", "gathering", "logging", "over"}
    /\ at \in [Units -> {"idle", "waiting", "extracting", "calling",
                         "parsed", "failed", "escaped"}]
    /\ attempt \in [Units -> 0..MaxRetries]
    /\ found \in [Units -> Nat]
    /\ free \in 0..Concurrency
    /\ Len(row) <= 1
    /\ answer \in [code : {"none", "4xx", "200", "500"},
                   parsed : SUBSET (Units \X Nat), errors : SUBSET Units]

\* The slots of the semaphore are held by the tasks at work that take one, also
\* while they work on after the request is over; so no more than
\* PARSE_CONCURRENCY files or chunks are in flight, beside the bundles.
SlotsConserved ==
    free + Cardinality({u \in AtWork : TakesSlot(u)}) = Concurrency

\* A request answered 200 accounts for every unit.  One that failed is an error
\* and lists nothing; a PDF or chunk that did not is listed once; a bundle that
\* did not, by every job its call found.  So a unit that is in neither list is a
\* bundle without jobs, and nothing else is.  The usage row, if its insert got
\* through, counts the errors.
Listed(u) == {item \in answer.parsed : item[1] = u}
AnswerAccounts ==
    /\ answer.code = "200" =>
          \A u \in Units :
             \/ at[u] = "failed" /\ u \in answer.errors /\ Listed(u) = {}
             \/ /\ at[u] = "parsed" /\ u \notin answer.errors
                /\ IF kind[u] = "bundle" THEN Listed(u) = Results(u)
                                         ELSE Listed(u) = {<<u, 0>>}
    /\ row # <<>> =>
          /\ answer.code = "200"
          /\ row = <<[units |-> NumUnits, failed |-> Cardinality(answer.errors)]>>

\* A server error has one of two causes: the provider was unknown and nothing
\* was started, or the extraction of a PDF raised something else than
\* PdfExtractionError.  No failure of a model call becomes one.
ServerErrorExplained ==
    answer.code = "500" =>
        \/ \A u \in Units : at[u] = "idle"
        \/ \E u \in Escaped : kind[u] = "pdf" /\ attempt[u] = 0

\* Tasks only run on without anybody waiting for them when a server error was
\* answered because one of them raised.
WorkOwned ==
    stage # "gathering" /\ (\E u \in Units : at[u] \in {"waiting", "extracting", "calling"})
        => Escaped # {} /\ answer.code = "500"

\* PUBLIC_API.md and the handler's docstring: a corrupt PDF is that file's error
\* and the status is 200.  A request that got as far as its files would never be
\* answered 500.
FailuresIsolated ==
    answer.code = "500" => \A u \in Units : at[u] = "idle"

\* Every parse request, answered or not, keeps the contract of a batch: one
\* verdict for each unit, and a return only when all are in.
BatchPhase ==
    IF stage = "reading" THEN "new"
    ELSE IF \A u \in Units : at[u] = "idle" THEN "raised"
    ELSE IF stage = "gathering" \/ answer.code = "500" THEN "open"
    ELSE "returned"
Contract == INSTANCE BatchContract WITH
    NumPairs <- NumUnits,
    phase <- BatchPhase,
    scored <- Cardinality(Parsed),
    failed <- Cardinality(Failed \cup Escaped),
    reported <- Cardinality(Settled)

ImplementsContract == Contract!Spec

\* The two halves of EverythingEnds that need no fairness.  First, no step of
\* the handler or of a task, awaited or left behind, is for free: each takes the
\* request a stage on or a unit closer to its end, and none takes anything back.
StagesLeft ==
    IF stage = "reading" THEN 3
    ELSE IF stage = "gathering" THEN 2
    ELSE IF stage = "logging" THEN 1 ELSE 0

WorkLeft(u) ==
    IF at[u] = "idle" THEN MaxRetries + 4
    ELSE IF at[u] = "waiting" THEN MaxRetries + 3
    ELSE IF at[u] = "extracting" THEN MaxRetries + 2
    ELSE IF at[u] = "calling" THEN MaxRetries + 1 - attempt[u] ELSE 0

EveryStepCounts ==
    [][/\ StagesLeft' <= StagesLeft
       /\ \A u \in Units : WorkLeft(u)' <= WorkLeft(u)
       /\ \/ StagesLeft' < StagesLeft
          \/ \E u \in Units : WorkLeft(u)' < WorkLeft(u)]_vars

\* Second, what remains to be done never waits for the model alone: while the
\* request is not over, or tasks of it are left, the event loop has one of them
\* to run, a timer to fire, or the handler to resume (asyncio.gather, the
\* semaphore of PARSE_CONCURRENCY slots that the bundles stand outside of).
NeverStuck ==
    \/ stage = "over" /\ \A u \in Units : at[u] = "idle" \/ u \in Settled
    \/ stage \in {"reading", "logging"}
    \/ MayGather
    \/ stage = "gathering" /\ Escaped # {}
    \/ \E u \in Units : MayAcquire(u) \/ at[u] \in {"extracting", "calling"}

\* What became of a unit and what its call found are final, and so are the
\* answer and the usage row, whatever the tasks left behind still do.
VerdictsFinal ==
    [][/\ \A u \in Settled : at'[u] = at[u] /\ found'[u] = found[u]
       /\ stage = "over" => UNCHANGED <<stage, answer, row>>]_vars

\* Even if the model never answers the request is answered, and the tasks it
\* may leave behind come to an end and give their slots back.
EverythingEnds ==
    stage = "gathering" ~> stage = "over" /\ Settled = Units
=============================================================================
