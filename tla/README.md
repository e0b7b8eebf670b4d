# Talent engine: TLA+ specifications

Talent engine is a FastAPI service that scores resumes against job
descriptions with a large language model. It is one asyncio process: every
handler, worker and model call is a coroutine that runs alone from one `await`
to the next. What makes it hard to get right is what happens *at* the awaits
(timeouts, retries, cancellations, polls, restarts) and what lives only in the
memory of the process (job store, rate-limit buckets).

This directory holds the models of that behaviour, their TLC configurations and
machine-checked proofs. Paths below are relative to the repository root;
`resume_matching/` stands for `api/v1/resume_matching/`.

## 1. Inventory

| component | state | operations | interacts with |
|---|---|---|---|
| scoring batch, `score_pairs` (`resume_matching/pipeline.py`) | one task per pair, a semaphore, a progress counter | spawn, acquire a slot, settle a pair, be cancelled, return | called by both match handlers; calls the LLM wrapper; reports to the async job through `on_progress` |
| LLM call wrapper (`llm_call.py`) | attempt number of each call | call under a timeout, retry transient failures | every model call of the service |
| provider selection (`llm_config.py`) | none (environment) | `resolve_llm_provider`, raises on an unknown name | start of each batch and parse |
| match router and job store (`public_router.py`) | `_AsyncJobStore` (dict behind an `asyncio.Lock`), `_AsyncJob`, worker tasks | `POST /match`, `POST /match/async`, worker, `GET /match/{id}`, lazy TTL sweep | batch, usage log, rate limiter |
| usage log (`storage/usage.py`, `schema.py`) | one table | `UsageStore.log`, swallows a failed insert | all three routers |
| rate limiter (`rate_limit.py`) | one token bucket per key id | `consume`, 429 with Retry-After | dependency of every endpoint, behind authentication |
| API keys (`auth.py`, `storage/api_keys.py`) | one table | create, revoke by id or name, lookup | authentication of every request; the operator's commands |
| operator command line (`scripts/manage_api_keys.py`, `create_api_key.py`) | the progress of a command | create, list, revoke, rotate | the key table, from another process |
| job parse router (`api/v1/job/parse_router.py`) | a request's tasks and semaphore | split the files, fan out, collect | LLM wrapper, usage log |
| resume parse router (`api/v1/resume/parse_router.py`, `pdf_text.py`) | a request's tasks and semaphore | extract, fan out, collect | LLM wrapper, usage log, thread pool |
| resume-by-job pipeline, `match_all` (`pipeline.py`) | tasks, semaphore, two counters | parse all, gate on the JDs, score per resume | demo code |
| JD splitter, `_split_jd_text` (`pipeline.py`) | none | pure function | job parse router, `match_all` |
| database and boot (`api/v1/db/database.py`, `api/main.py`) | engines | `init_db` with retries, `/health`, shutdown | the platform, which restarts the process |
| request/response schema, middleware, prompts, demo clients, deployment files | none | translation, configuration | - |

What makes each component correct:

- **Batch**: a slot of the semaphore is given back exactly once on every path
  out of a call; the progress a poller sees is the number of verdicts; every
  pair gets exactly one verdict, and one pair's failure is only that pair's;
  nothing runs on when the batch is over; it ends even if the model never answers.
- **LLM wrapper**: no more attempts than configured; only transient failures are
  retried; a cancellation is neither lost between attempts nor mistaken for a failure.
- **Match router**: an accepted job can be polled for its whole TTL, where it was
  accepted; 404 there means expired or lost; polls never go back; `completed`
  comes with everything; the usage log agrees with what the client saw; accepted work comes to an end.
- **Rate limiter**: over any window no more than the burst and the refill of the
  window, and one more burst for each restart in it; a client that obeys
  Retry-After is not refused again.
- **API keys**: when the new key of a rotation exists, or a revocation by name has
  ended, the old ones are out, even with other commands at work or dying half-way;
  no key is revoked that no command was told to; the table is a history.
- **Parse routers**: a file's failure is only that file's; bounded concurrency;
  ids that `/match` then accepts; a usage row for each request.
- **`match_all`**: no score before every JD is parsed; rankings over all jobs;
  a listener never sees a resume scored before it was parsed; a slow resume holds
  up no other.
- **JD splitter**: every line ends up in one chunk, that of its header.
- **Boot**: survives a database that comes up late, gives up on one that never
  does; who serves has the whole schema, whoever created it.

The hazards behind these, each at its line, are listed in `PROJECT.json`
with the properties that would catch them.

## 2. Modules

```
BatchContract        what a batch promises                         (abstract)
   ^ implemented by       ^ implemented by       ^ kept by every batch of
ScorePairs             ParseRequest           MatchRouter
ScorePairs_proofs      ParseRequest_proofs    MatchRouter_proofs

ProgressContract     what on_progress promises                     (abstract)
   ^ implemented by
MatchAll, MatchAll_proofs

JdText  <- EXTENDS -  ParseToMatch, MCParseToMatch, ParseToMatch_proofs

RateLimit, RateLimit_proofs     ApiKeys, MCApiKeys, ApiKeys_proofs
Boot, Boot_proofs
```

`BatchContract` is the joint between the two layers: `ScorePairs` is shown (by
TLC and by proof) to implement it, and `MatchRouter`, which treats each call of
`score_pairs` as the contract describes it, is checked and proved to use it that way. The
parse endpoints, which have a fan-out of their own, implement the same contract.
`ParseToMatch` composes the three endpoints the way a client does, one request of
each. Rate limiter, key table and boot meet the router only as gates before the
handler and share no state with it, so they stand alone.

### BatchContract and ScorePairs

`ScorePairs` is one call of `score_pairs`.

| TLA+ | code |
|---|---|
| `phase` | where the coroutine stands: before `resolve_llm_provider`, tasks created, running, being cancelled, over |
| `pc[p]` | the task of a pair: waiting at `async with sem`, inside the model call, done with a score or an error string, or dropped before it ever ran |
| `attempt`, `lastErr` | the loop of `with_timeout_retry` |
| `free`, `done`, `reported` | semaphore value, `counter["done"]`, `job.pairs_done` |
| `cancelPending` | tasks with a `CancelledError` on its way |

An action is what a task does between two suspension points. The slots are
handed out first come first served, in the order in which gather created the
tasks. An attempt ends by an answer, by any exception (class, and whether its
text contains one of the substrings `_looks_transient` searches for) or by the
timeout. On Python 3.11, which the Dockerfile pins, `wait_for` prefers a
finished call to a simultaneous cancellation; so `AttemptReturns` and
`AttemptRaises` may consume a pending cancellation, while `TimeoutFires` cannot
happen to a task with one.

Left out: texts, scores, token counts. They change no control flow.

### ParseRequest

One request to either parse endpoint. The two handlers have one shape (check the
upload, resolve the provider, gather a task per unit, sort what they returned,
log, answer), so they are one module whose units differ: the PDFs of
`/v1/resume/parse`; the chunks and the unsplit files (bundles) of `/v1/job/parse`.

| TLA+ | code |
|---|---|
| `kind[u]` | PDF, chunk or bundle; in the order in which gather creates the tasks, bundles last |
| `stage`, `answer`, `row` | where the handler stands, its answer, its usage rows |
| `at[u]`, `attempt[u]` | the task of a unit: waiting for the semaphore, in `asyncio.to_thread(extract_pdf_text)`, inside the model call; and the retry loop |
| `found[u]` | what its call gave: one resume, the one job of a chunk, or a bundle's list of jobs, which may be empty |
| `free` | the semaphore, which bundles do not take |

`escaped` is the task that ended in an exception it does not catch: an
extraction that raises anything but `PdfExtractionError`. `gather` then raises at
once and leaves the other tasks running, and so does the model. `Items` is the
list `parsed` of the answer, each item by its unit and its index in what the unit's
call gave. Left out: tokens; ids, and what the 4xx checks are (they all come before
the fan-out and leave no trace), which are `ParseToMatch`'s.

### MatchRouter

| TLA+ | code |
|---|---|
| `store[w]`, `job[r]` | `_AsyncJobStore._jobs` of a process; the `_AsyncJob` object |
| `req[r]` | the handler or worker: scheduled, inside `score_pairs`, awaiting `UsageStore.log`, ended, or lost with its process |
| `batch[r]` | its `score_pairs`, as `BatchContract` sees it |
| `rows[r]`, `view[r][w]` | its usage rows; what the latest poll that reached process `w` returned |
| `server`, `provider`, `epoch` | process state, whether its environment names a known provider, and how often its memory was lost (history) |

`Submit*`, `Poll`, `WorkerStart`, `PairDecided`, `BatchReturns` and `LogDone`
are the code between two awaits; the store's lock is never held across an
await of anything else, so an operation on it is part of its caller's step. The
TTL sweep is part of `SubmitAsync` and `Poll`, as in `put` and `get`. The
checks of `_validate` are one refusal, which leaves no trace.

The process may be killed (`Crash`) or stopped: `Drain` is uvicorn's graceful
shutdown, which waits for requests but knows nothing of worker tasks; then
`Stop` closes the loop and cancels the workers. The repository does not pin the
uvicorn version and platforms kill a process that drains too long, so a
draining process can also just crash. A worker cancelled while scoring runs its
`finally` clause, whose insert may or may not get through.

Disconnecting clients do not cancel a handler in this stack and are not modelled.

### RateLimit

Buckets in whole drops and time in ticks, so that fractions of a token and of a
second exist; where the code computes with floats the model is exact. `Allow`
and `Deny` are one call of `_Registry.consume`, bucket creation included. The
history variables `grants` and `promised` record when requests were let through,
in which life of the process, and the earliest moment a 429 named; `grants` is
kept across a restart, which forgets the buckets, so that a window can span one.
`RATE_LIMIT_DISABLE` switches the whole component off and is not a state of it.

### ApiKeys

Each statement of `ApiKeyStore` is one transaction and one action; a command is
the sequence of them, with death possible in between, as many commands running
at a time as the instance has. A key stands for its plaintext and hash. Names
that `int()` accepts are a constant of their own, because `revoke` takes them
for row ids. `old` records, for the properties, what a command's partner had
when it began.

### MatchAll

One call of `match_all`.

| TLA+ | code |
|---|---|
| `stage` | where the coroutine stands: before `create_task`, in the `as_completed` loop, in the last `gather`, over |
| `jd[j]`, `found[j]`, `finished` | the task of a file, how many jobs it gave, the results `as_completed` has not handed out yet, in their order |
| `jdDone`, `jobList` | `jd_done`; `job_list`, as the source file of each job |
| `resume[r]`, `match[r]` | the parse task of a resume, and its `_match_one` |
| `waiting`, `calling` | the semaphore: pairs in the order in which they asked for it, pairs inside `ScoreMatch` |
| `answered[r]`, `lost[r]` | the results of the inner `gather`: scores, exceptions |
| `parsed`, `scored`, `report[r]` | `resume_counter`, and `top_matches` |

`_parse_jobs` and `_parse_resume` are a step each per outcome (with their
retries they end, as `ScorePairs` shows for the wrapper they use). `ScoreMatch`
is called bare: no timeout and no retry. An exception that escapes
(an unknown provider, an unexpected one of the extraction) ends the call and no
task: the others go on. `top_matches` is the set of its members; their order is
that of `Better`, the stable descending sort.

### JdText and ParseToMatch

`JdText` has `_split_jd_text` on a text as a sequence of lines of five kinds,
which are those that `^\s*【?\s*招聘单位` can tell apart. `Lead` is where a
match may begin: `\s` matches line ends, so a match can begin lines above its
header. `Slice` and `Stripped` are the slices between matches and `strip()`. The
second half of the module says the same line by line (`BelongsTo`); that the two
agree is the property. `Stripped` of a slice with a header is never empty, so the
last line of the function filters nothing.

`ParseToMatch` is a client that passes job descriptions and resumes through the
parse endpoints straight into `/match`. `UploadJds` has the limits of
`/v1/job/parse` and the split; `JdsParsed` the ids of the jobs (`filename#index`,
also for those of a list call); `ResumesParsed` the ids of the resumes (given and
distinct, or file names, or `resume_i`); `Match` all of `_validate` and
`_resolve_concurrency`. A job id is the pair of name and index, since the last
`#` of an id separates them.

### Boot

Processes of the service over one database.

| TLA+ | code |
|---|---|
| `pc[p]`, `attempt[p]`, `slept[p]` | `lifespan` and `init_db`: looking at the schema, creating, asleep, serving, gone |
| `table[t]`, `todo[p]` | the two tables; those that `create_all` found missing |
| `db`, `urlOk` | whether MySQL can be reached, whether `DATABASE_URL` is one `_normalize` takes |
| `refused`, `lost`, `cut` | history: when the database failed a process last, which races it lost, which tables were left half-made |

`create_all` looks at the schema once and then creates tables and indexes
statement by statement; MySQL commits each, so two processes can both find a
table missing, and an attempt that is cut off leaves what it has done. The
indexes of a table are one statement in the model. `HealthFails` is the platform
acting on a 503; `StartUp` is `restart: unless-stopped`.

## 3. What TLC checks

| run | instance | shows |
|---|---|---|
| `score_pairs` | 3 pairs, 2 slots, 1 retry | `SlotsConserved`, `NoOrphans`, `ImplementsContract`, `BatchEnds` |
| `parse_request` | 3 PDFs, or chunks and bundles in any mix; a bundle has up to 2 jobs; 2 slots, 1 retry | `SlotsConserved`, `AnswerAccounts`, `ServerErrorExplained`, `WorkOwned`, `ImplementsContract`, `EverythingEnds` |
| `match_router` | 1 request, 2 processes, 2 pairs, TTL 1, clock to 2, 1 outage | `StoredWhileFresh`, `NotFoundMeansGone`, `PolledResultComplete`, `UsageAgreesWithAnswer`, `PollsNeverRegress`, `EachBatchKeepsContract` |
| `match_router_live` | 2 requests, 1 pair, TTL 0, clock to 1, 1 outage | `AcceptedSettles`, `ClientLearnsOutcome` |
| `match_all` | 2 resumes, 2 files of up to 2 jobs, 2 slots, top 2, 2 scores | `RankingFaithful`, `ImplementsProgress`, `ParsedIsReported` |
| `parse_to_match` | a text of up to 5 lines or two of up to 2, 2 resumes, 4 names; limits of 3 chunks, 4 jobs, 2 resumes, 7 pairs | `SplitPartitions`, `MatchGateSound` |
| `rate_limit` | 2 keys, burst 2, a third of a token per tick, 2 ticks per second, 6 ticks, 1 restart | `WindowBound`, `RetryAfterHonest` |
| `api_keys` | 3 commands, 2 partners, one with a numeric name, 3 rows, 1 request | `OldKeysRetired`, `OldKeyLockedOut`, `HistoryKept`, `UnseenKeyExplained` |
| `boot` | 2 processes, 2 outages, 1 kill | `SchemaSound`, `GivesUpOnlyOnOutage`, `ServesEventually` |

Each also checks its module's `TypeOK`. Three more runs each reproduce one
disagreement between the code and what the repository says of it (section 5).

Why the bounds are enough to be interesting:

- With 3 pairs and 2 slots somebody always waits, a slot freed by any path is
  taken again, and a pair can retry in its slot while another waits for it.
  The boundary that `max(1, ...)` guards, a concurrency of 0 or less, is covered
  by the proofs alone, which take any integer. The 3 units of a parse request
  wait and retry likewise; their mixes have from no bundle to only bundles, and a
  bundle that found no job, one or two shows as often in the answer's `parsed`.
- Clock 2 with TTL 1 has every relation of age and TTL: younger, exactly TTL
  old (kept) and older (swept); a later poll, at either process, triggers the
  sweep. One outage separates two generations of a process, while the other
  goes on. One request is enough for these properties, each of which is about one:
  requests meet only in the sweep, which looks at every job by itself, and the
  proofs take any number of them. `match_router_live` has two.
- Two pairs give a partial progress, and a result with both kinds of verdict.
- A refill of a third of a token per tick makes fractions; six ticks fill a
  bucket from empty. One restart is what a second bucket needs.
- Four jobs at most over two slots make resumes wait for each other's calls; more
  jobs than `top_k` make a cut, and two scores make ties at it; a file that failed
  or is empty leaves the list short or empty. TLC has each of these.
- Five lines hold two headers, a bracket of its own and blank lines around it. The
  limits of `/match` are scaled down so that each can be reached and passed:
  2 resumes times 4 jobs exceed 7 pairs, a list call gives 3 jobs beside 2 chunks.
  That chunks alone never exceed the job limit, and files never the resume limit,
  is `LimitsAssumption`, which the code's numbers (100 and 100, 20 and 100) satisfy.
- Two outages and a kill at any moment of two racing boots reach every mix of lost
  races and failed attempts; `table` persists through all of them.
- Two commands race and the third is the one that interferes with both; three
  rows let each of them mint.

Deadlock is not checked: a batch that is over, a stopped clock and a finished
command are ends of these systems.

### Fairness

- `ScorePairs`, `ParseRequest`: weak fairness of what the event loop runs once it is ready and of
  its timers. **None** on the model's answers: a batch ends because timeouts do.
  PDF extraction is local computation and comes to an end.
- `MatchRouter`, server: weak fairness of the worker, the batch (which ends by
  `ScorePairs!BatchEnds`), the log call (whose failure is an outcome too), of
  ending a drained process and of the platform starting the next. None on
  crashes, stops, submissions or the clock.
- `MatchRouter`, client: strong fairness of polls, as of a client (such as
  `scripts/test_public_api.py`) that polls until it has an outcome, over a
  server that is only up again and again. `AcceptedSettles` does not use it.
- `MatchAll`: weak fairness of the event loop and of the parse calls, which have
  timeouts. None on extraction, whose thread nothing limits: `ParsedIsReported`
  holds for the others all the same. And `ModelAnswers`: weak fairness of every
  scoring call. Nothing in the code sees to that. It is stated apart because the
  property fails without it: one call that never returns keeps its slot. So the
  property says nothing against such a call; it says that nothing else holds a
  parsed resume up.
- `Boot`: weak fairness of the processes, of the platform's restarts and of the
  database coming back, whose own container restarts. None on kills, outages or
  the health check.

`ParseToMatch`, `RateLimit` and `ApiKeys` have no liveness property.

## 4. What is proved

For every value of the constants, by TLAPS:

| module | theorem | statement |
|---|---|---|
| `ScorePairs_proofs` | `TypeCorrect`, `SlotsSafe`, `NoOrphansSafe` | the invariants of the run |
| | `ProgressSafe`, `CoherentSafe` | the invariants that carry them |
| | `CapSafe` | at most `max(1, concurrency)` calls in flight |
| | `VerdictsSafe` | `VerdictsFinal`: no verdict is revised |
| | `EveryStepCountsSafe`, `NeverStuckSafe` | the halves of `BatchEnds` that need no fairness |
| | `ContractKept` | `Spec => ImplementsContract` |
| `ParseRequest_proofs` | `TypeCorrect`, `SlotsSafe`, `AnswerSafe`, `ServerErrorSafe`, `OwnedSafe` | the invariants of the run |
| | `VerdictsSafe` | `VerdictsFinal`: no unit's end, answer or usage row is revised |
| | `EveryStepCountsSafe`, `NeverStuckSafe` | the halves of `EverythingEnds` that need no fairness |
| | `ContractKept` | `Spec => ImplementsContract` |
| `MatchRouter_proofs` | `TypeCorrect`, `StoredSafe`, `CompleteSafe`, `UsageSafe` | `TypeOK`, `StoredWhileFresh`, `PolledResultComplete`, `UsageAgreesWithAnswer`, on any number of replicas |
| | `NotFoundSafe`, `PollsSafe` | `NotFoundMeansGone`, `PollsNeverRegress`, likewise |
| | `AdvanceSafe` | `RequestsOnlyAdvance`: whatever touches a request takes it forward |
| | `ContractKept` | `Spec => EachBatchKeepsContract` |
| `MatchAll_proofs` | `TypeCorrect`, `RankingSafe` | the invariants of the run |
| | `ReportsSafe` | `ReportsFinal`: no ranking changes after it was reported |
| | `EveryStepCountsSafe`, `NeverHeldUpSafe` | what of `ParsedIsReported` needs no fairness |
| | `ProgressKept` | `Spec => ImplementsProgress` |
| `ParseToMatch_proofs` | `SplitCorrect` | `SplitsInto(text)` for every text |
| | `TypeCorrect`, `SplitSafe`, `MatchGateSafe` | the invariants of the run |
| `Boot_proofs` | `TypeCorrect`, `SchemaSafe`, `GivesUpSafe` | the invariants of the run |
| `RateLimit_proofs` | `TypeCorrect`, `AccountedSafe`, `PromiseSafe` | the invariants that carry the two below |
| | `WindowSafe`, `RetryAfterSafe` | `WindowBound`, `RetryAfterHonest` |
| `ApiKeys_proofs` | `TypeCorrect`, `RotationSafe`, `LockOutSafe`, `HistorySafe`, `UnseenKeySafe` | the properties of the run |

The assumptions are those the modules name: at least one pair or unit, an
integer concurrency (for parsing a positive one), a natural number of retries and
of jobs in a list; at least one process, natural TTL and bounds; positive token size, burst, refill and second; names that read as
numbers have a number; any natural `concurrency` and `top_k` of `match_all`, integer
scores; the limits of the endpoints as `LimitsAssumption` relates them.

**ScorePairs.** None of the properties is inductive. `SlotsConserved` needs to
know that a task that settles from `queued` held no slot and one from `calling`
did; `NoOrphans` that only a cancelled batch has pending cancellations and that
they belong to unsettled tasks. `Coherent` says how phase, tasks and
cancellations fit together, and `Inv`, the conjunction of types, the two counts
and `Coherent`, is inductive. The counts are cardinalities of sets of pairs;
lemmas say what settling a pair does to each. The refinement maps `spawned`,
`running` and `cancelling` to the contract's `open`: `Settle` is `Decide`,
`Finish` is `Return` or `Abandon`, and a retry or a launch stutters.

**ParseRequest.** `StageCoherent` says what the handler's stage knows of all tasks
and what was answered, `TaskCoherent` what a task of each kind can be (only PDFs
are extracted, only an extraction escapes, only a bundle's call gives anything but
one item, so that only a bundle can be in neither list of a 200). They go together: that a task
which still runs is either awaited or was left behind by a 500 is what makes the
stage hold while tasks go on after the end of the request. In the refinement such
a request is a batch that stays open: its orphans go on deciding, it never returns.

**MatchRouter.** The invariant `Inv` looks at one request at a time. `Life` ties
the things that belong to a request to each other: its stage to the phase of its
batch, its job's status, progress and result to the batch's verdicts, its usage
rows to the batch, and its client's latest view to what the job shows now (the
same, or of lower rank). It takes all of them: `PolledResultComplete` is about
a view, which is a copy of an earlier job, which is a copy of an earlier batch.
`Memory` ties the request to the stores: a store has the job of a request only if
its process accepted it and has not lost its memory since, and has it as long as
it is fresh. A step touches one request, or all those of a process that ends,
so the proof goes action by action for that request (`WorkerStartLife`,
`PairDecidedLife`, ...), with a lemma each for the others. A view is one of a
process, since what a poll shows depends on where it arrives: a process other than
the one that accepted the job knows nothing of it and never will, which is all
that `NotFoundMeansGone` and `PollsNeverRegress` have to exempt, and why they
hold on any number of replicas.

**RateLimit.** `WindowBound` speaks of two grants and not of the bucket, so it
is not inductive. `Accounted` puts in the bucket, as the level it would have if the
key came now (`Level`, a full one if there is none): what was let through since
any grant *and* that level were there, have been refilled, or are the full bucket
that each restart hands out anew. A grant closes the windows that end in it with
what `Accounted` says of the moment before (`WindowGrows`). `PromiseBacked` does
the same for promises. The non-linear steps are lemmas of arithmetic, apart
from the state.

**ApiKeys.** `OldKeysRetired` says nothing of the moment between the two
transactions of a rotation. `CommandsCoherent` extends it there, for all commands
that revoke by name (`TakesName`: rotations, and revocations of a name that is no
number): once past their first step the old keys are inactive, and every key in
`old` has the target's name, so that the revoke by name reaches it. A revocation
of a name that reads as a number is held to no more than `HistoryKept`: it revokes
the row with that id, and no key of the partner.

**MatchAll.** The invariant has a part for each half of the call and one between
them. `JdInv` counts: `jd_done` is the number of files taken in, and each of those
has all of its jobs on the list. `GateInv` says that no resume gets anywhere before
`jd_done` is the number of files, so that when a job list is ranked against it no
longer grows. `PairInv` says that a pair waits, is called or has its verdict, and
never two of these; that is why the set of scores of a resume has each job once,
which `TopIsRight` needs: the places of such a set count up without a gap, so
that cutting at `top_k` takes the best, as many as there are. `CountInv`
makes the two counters cardinalities, from which the refinement gets
`scored < parsed` where `ProgressContract` wants it. `LoadInv` is for the theorems
about progress: a resume that is being scored has every pair decided, called or
waiting, and the list never has more than `MaxJobs` jobs of each file taken in.

**ParseToMatch.** `SplitCorrect` is about a text and no state: where a match
begins (`LeadOpens`, `LeadAbove`), and that stripping blanks off a slice keeps every
other line. That chunk indices are distinct (`ChunkIndexDistinct`) is why two jobs
of one file never share an id, which is what `MatchGateSafe` rests on.

**Boot.** `GivesUpOnlyOnOutage` speaks of a process that has given up. On the way
there each failed attempt was a lost race or a failure of the database, and after
how much sleep the latter happened bounds how many races came after it
(`Accounted`). That there are at most two races to lose is `RacesBounded`: a
table that exists is not on anybody's next list.

### The safe half of the liveness properties

`BatchEnds`, `EverythingEnds`, `ParsedIsReported` and `AcceptedSettles` stay with
TLC, because the prover handles neither `ENABLED` nor fairness. But most of what
makes them true is safety, and that is proved. `EveryStepCounts` gives each part
of the state a measure that no step
raises and that every step lowers somewhere: one batch, parse request or call of
`match_all` makes a bounded number of steps whatever the environment does, and no
loop of retries, cancellations or hand-overs goes round. (`RequestsOnlyAdvance`
says it of a request in the router, where the clock, polls and outages go on
around it.) `NeverStuck` and `NeverHeldUp` say that before the end some step that
fairness covers has its guard true: a timer, a slot to hand out, a task to
run, and so never only an answer of the model; in `match_all`, whose scoring
calls have no timeout, that answer is one of the steps. What remains for fairness is
that an enabled step is taken. Guards of more than one condition are operators that
action and invariant share (`MayAcquire`, `MayGather`), so that the two cannot come apart.

That a waiting task has a first among them is the least number principle
(`SmallestOf`), which the library offers only with an operator as a parameter; it
is derived from the well-foundedness of strict subsets of a finite set.

These theorems state properties of their modules that are in no run of section 3.
TLC finds them true on the instances of those runs, and they say more than the
instances could.

### Only model-checked

Liveness (`BatchEnds`, `EverythingEnds`, `AcceptedSettles`, `ClientLearnsOutcome`,
`ParsedIsReported`, `ServesEventually`), as said above. Every safety property of a
passing run is also a theorem.

## 5. Disagreements found

Each is a run that TLC must find violated; `PROJECT.json` has the quotations.

| run | what the code does |
|---|---|
| `score_pairs_validation` | `_looks_transient` searches the text of every exception, so a validation error that quotes "timeout" or "503" is retried; the docstring says validation errors are not |
| `parse_failures_isolated` | a PDF whose extraction raises something unexpected makes the whole request a 500, without a usage row and with tasks left running; `PUBLIC_API.md` says per-file failures appear in `errors[]` |
| `match_router_cancelled` | a worker cancelled at shutdown logs `ok` with no failed pairs: `except Exception` does not see `CancelledError`, `finally` logs all the same |

More were met and have no run of their own:

- With two replicas a poll gets 404 for a live job; `match_poll`'s docstring names
  three causes and this is none of them, and a deployment guide sets up to three
  replicas. `NotFoundMeansGone` has to exempt it, and says that it is the only case.
- A rotation is two transactions; dying in between leaves the partner with no key,
  where `README.md` says "in one shot".
- `revoke` with a partner name that reads as a number revokes the row of that id
  and leaves the partner's keys active, against its docstring (`HistoryKept`).
- A file without headers in which the list call finds no job is in neither `parsed[]`
  nor `errors[]`: it is one of `chunks_detected` and of none of the other counts.
  `PUBLIC_API.md`, which describes the list call, does not say so; `AnswerAccounts`
  says that it is the only unit this can happen to.
- `docker-compose.yml` gives the database the collation `utf8mb4_unicode_ci`, whose
  equality ignores case, so `revoke_by_name` also reaches the keys of a partner whose
  name differs only in that. A name in `ApiKeys` is a class of names the database
  takes for equal; two labels of one class are one partner there.
- `PUBLIC_API.md` says to pass what the parse endpoints give straight into
  `/match`. Two uploads of one name, or two without a name, give ids that `/match`
  refuses as duplicates; `RefusalExplained` says this is the only such case.
- A request that `_validate` refuses leaves no usage row, where the docstring of
  `public_router.py` says every request does.
- `PUBLIC_API.md` says there is no rate limit, which any 429 contradicts.
- `llm_call.py` is there to wrap any model call, and `match_all` scores without it;
  it also passes no provider to `ScoreMatch`, where every other call site does.
- `match_all(concurrency=0)` never scores anything; `score_pairs` guards against it.
- A table whose creation was cut off before its indexes never gets them:
  `create_all` finds the table and is content. `SchemaSound` says when that happens.
- An unknown `LLM_PROVIDER` is to fail at boot according to `llm_config.py`, and
  fails the first request.

## 6. Not modelled

- **Request and response schema** (`public_schema.py`): field-by-field translation
  between JSON and the generated types, no state and no branch the properties could
  tell apart. What `/match` checks of it (sizes, ids, concurrency) is in `ParseToMatch`.
- **Middleware, prompts, demo scripts, deployment files**: no state of the system
  depends on them. The restart policy and the health probe appear in `Boot`, the
  replica count in `MatchRouter`, the polling client as its fairness.
- **Connection pools** (`db/database.py`): sizes are left to SQLAlchemy; a request
  that waits for a connection is a log call that takes long or fails.
- **Hashing and random keys**: a key stands for its plaintext, prefix and hash.
- **Inside of an extraction**: pypdf; its three outcomes are in `ParseRequest` and
  `MatchAll`. **Token counts and elapsed times** change no control flow.

What could follow: the database pool shared by authentication and usage log under
load; an upgrade of `MatchRouter` to a shared job store, should the service get one,
for which `MatchRouter` with several replicas is the starting point.
