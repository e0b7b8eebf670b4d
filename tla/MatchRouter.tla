---------------------------- MODULE MatchRouter ----------------------------
(***************************************************************************)
(* The public matching API: POST /match, POST /match/async and             *)
(* GET /match/{job_id}, with the process-local store of asynchronous jobs, *)
(* the worker task of each job and the usage log, on servers that crash or *)
(* are stopped and come back.                                              *)
(*                                                                         *)
(* What score_pairs does inside is ScorePairs; here a batch is what        *)
(* BatchContract says of it.  A handler runs alone between two awaits, and *)
(* the store's asyncio.Lock is never held across one, so submitting and    *)
(* polling are single steps.                                               *)
(***************************************************************************)
EXTENDS Naturals, Sequences

CONSTANTS
    Requests,       \* match requests, each handled at most once
    Replicas,       \* server processes behind the load balancer
    NumPairs,       \* resumes x jobs of every request
    TTL,            \* ASYNC_JOB_TTL_SEC, in ticks of the clock
    MaxClock,       \* bound: the clock stops here
    MaxOutages      \* bound: crashes and stops in a behaviour

ASSUME NumPairsAssumption == NumPairs \in Nat \ {0}
ASSUME ReplicasAssumption == Replicas # {}
ASSUME TimeAssumption == TTL \in Nat /\ MaxClock \in Nat
ASSUME OutageAssumption == MaxOutages \in Nat

VARIABLES
    clock,      \* time.time()
    server,     \* "serving", "draining" after a stop signal, or "down"
    provider,   \* does the process' LLM_PROVIDER name a known client?
    epoch,      \* how often a replica's memory was lost
    store,      \* _jobs._jobs of each replica: the ids it holds
    req,        \* the handler or worker of each request
    batch,      \* its call of score_pairs
    job,        \* the _AsyncJob object
    rows,       \* usage rows inserted for the request, oldest first
    view        \* what the latest poll of a job that reached a replica returned

vars == <<clock, server, provider, epoch, store, req, batch, job, rows, view>>

\* Where a handler or worker stands.  "lost": its process ended under it.
Stages == {"idle", "refused", "scheduled", "scoring", "logging", "ended", "lost"}
Active(r) == req[r].at \in {"scheduled", "scoring", "logging"}

Decided(r) == batch[r].scored + batch[r].failed

Accepted(r) == req[r].answer = "202"

\* The memory that held the request's job is gone.
Forgotten(r) == epoch[req[r].on] > req[r].born

----------------------------------------------------------------------------
AnyReplica == CHOOSE w \in Replicas : TRUE

NoView == [status |-> "none", done |-> 0, matches |-> 0, errors |-> 0]

Init ==
    /\ clock = 0
    /\ server = [w \in Replicas |-> "serving"]
    /\ provider \in [Replicas -> BOOLEAN]
    /\ epoch = [w \in Replicas |-> 0]
    /\ store = [w \in Replicas |-> {}]
    /\ req = [r \in Requests |-> [kind |-> "none", at |-> "idle", on |-> AnyReplica,
                                  born |-> 0, answer |-> "none"]]
    /\ batch = [r \in Requests |-> [phase |-> "new", scored |-> 0, failed |-> 0]]
    /\ job = [r \in Requests |-> [status |-> "none", done |-> 0, created |-> 0,
                                  result |-> <<>>]]
    /\ rows = [r \in Requests |-> <<>>]
    /\ view = [r \in Requests |-> [w \in Replicas |-> NoView]]

\* _sweep_locked: the ids whose job is older than TTL are dropped, whatever
\* the job's status; it runs at each put and get, and only then.
Expired(r) == job[r].created + TTL < clock

SweptAtTTL(w) == {r \in store[w] : clock < job[r].created + TTL}
Swept(w) == {r \in store[w] : ~Expired(r)}

\* The request fails _validate (or, before it, the schema): 4xx and no more.
Refuse(r, w) ==
    /\ server[w] = "serving"
    /\ req[r].at = "idle"
    /\ req' = [req EXCEPT ![r].at = "refused", ![r].on = w,
                          ![r].born = epoch[w], ![r].answer = "4xx"]
    /\ UNCHANGED <<clock, server, provider, epoch, store, batch, job, rows, view>>

\* score_pairs up to its first suspension: the tasks exist, or the provider
\* is unknown and the error path goes on to the usage log.
StartBatch(r, w) ==
    batch' = [batch EXCEPT ![r].phase = IF provider[w] THEN "open" ELSE "raised"]

StageAfterStart(w) == IF provider[w] THEN "scoring" ELSE "logging"

\* POST /match.
SubmitSync(r, w) ==
    /\ server[w] = "serving"
    /\ req[r].at = "idle"
    /\ StartBatch(r, w)
    /\ req' = [req EXCEPT ![r] = [kind |-> "match", at |-> StageAfterStart(w), on |-> w,
                                  born |-> epoch[w], answer |-> "none"]]
    /\ UNCHANGED <<clock, server, provider, epoch, store, job, rows, view>>

\* POST /match/async: sweep and insert, schedule the worker, answer 202.
SubmitAsync(r, w) ==
    /\ server[w] = "serving"
    /\ req[r].at = "idle"
    /\ store' = [store EXCEPT ![w] = Swept(w) \cup {r}]
    /\ job' = [job EXCEPT ![r].status = "queued", ![r].created = clock]
    /\ req' = [req EXCEPT ![r] = [kind |-> "match_async", at |-> "scheduled", on |-> w,
                                  born |-> epoch[w], answer |-> "202"]]
    /\ UNCHANGED <<clock, server, provider, epoch, batch, rows, view>>

\* The worker's first step.
WorkerStart(r) ==
    /\ req[r].at = "scheduled"
    /\ StartBatch(r, req[r].on)
    /\ job' = [job EXCEPT ![r].status = IF provider[req[r].on] THEN "running" ELSE "failed"]
    /\ req' = [req EXCEPT ![r].at = StageAfterStart(req[r].on)]
    /\ UNCHANGED <<clock, server, provider, epoch, store, rows, view>>

\* A pair gets its verdict; in a worker, on_progress stores the new count.
PairDecidedMiscounting(r, v) ==
    /\ req[r].at = "scoring"
    /\ Decided(r) < NumPairs
    /\ batch' = [batch EXCEPT ![r][v] = @ + 1]
    /\ job' = IF req[r].kind = "match_async"
              THEN [job EXCEPT ![r].done = batch'[r].scored]
              ELSE job
    /\ UNCHANGED <<clock, server, provider, epoch, store, req, rows, view>>
PairDecidedTwice(r, v) ==
    /\ req[r].at = "scoring"
    /\ batch' = [batch EXCEPT ![r][v] = @ + 1]
    /\ UNCHANGED <<clock, server, provider, epoch, store, req, job, rows, view>>
PairDecidedReportingLeft(r, v) ==
    /\ req[r].at = "scoring"
    /\ Decided(r) < NumPairs
    /\ batch' = [batch EXCEPT ![r][v] = @ + 1]
    /\ job' = IF req[r].kind = "match_async"
              THEN [job EXCEPT ![r].done = NumPairs - Decided(r)]
              ELSE job
    /\ UNCHANGED <<clock, server, provider, epoch, store, req, rows, view>>
PairDecided(r, v) ==
    /\ req[r].at = "scoring"
    /\ Decided(r) < NumPairs
    /\ batch' = [batch EXCEPT ![r][v] = @ + 1]
    /\ job' = IF req[r].kind = "match_async"
              THEN [job EXCEPT ![r].done = Decided(r) + 1]
              ELSE job
    /\ UNCHANGED <<clock, server, provider, epoch, store, req, rows, view>>

\* What _format_response gives: every scored pair in matches, every failed
\* one in errors.
Response(r) == <<batch[r].scored, batch[r].failed>>

\* score_pairs returned.  The worker stores result, count and status without
\* a suspension between them; both handlers go on to the usage log.
BatchReturnsIfAllScored(r) ==
    /\ req[r].at = "scoring"
    /\ batch[r].scored = NumPairs
    /\ batch' = [batch EXCEPT ![r].phase = "returned"]
    /\ job' = [job EXCEPT ![r].result = Response(r), ![r].done = NumPairs,
                          ![r].status = "completed"]
    /\ req' = [req EXCEPT ![r].at = "logging"]
    /\ UNCHANGED <<clock, server, provider, epoch, store, rows, view>>
BatchReturns(r) ==
    /\ req[r].at = "scoring"
    /\ Decided(r) = NumPairs
    /\ batch' = [batch EXCEPT ![r].phase = "returned"]
    /\ job' = IF req[r].kind = "match_async"
              THEN [job EXCEPT ![r].result = Response(r), ![r].done = NumPairs,
                               ![r].status = "completed"]
              ELSE job
    /\ req' = [req EXCEPT ![r].at = "logging"]
    /\ UNCHANGED <<clock, server, provider, epoch, store, rows, view>>

\* The UsageRecord of the `finally` clause: "error" when an Exception was
\* caught; pair_results is empty unless score_pairs returned.
UsageRowAlwaysOk(r) ==
    [status |-> "ok",
     pairsFailed |-> IF batch[r].phase = "returned" THEN batch[r].failed ELSE 0]
UsageRow(r) ==
    [status |-> IF batch[r].phase = "raised" THEN "error" ELSE "ok",
     pairsFailed |-> IF batch[r].phase = "returned" THEN batch[r].failed ELSE 0]

\* UsageStore.log is over: the row is there, or the insert failed and that was
\* swallowed.  Only now does the synchronous client get its answer.
LogDoneWhenServing(r) ==
    /\ req[r].at = "logging"
    /\ server[req[r].on] = "serving"
    /\ \/ rows' = [rows EXCEPT ![r] = Append(@, UsageRow(r))]
       \/ UNCHANGED rows
    /\ req' = [req EXCEPT ![r].at = "ended",
                          ![r].answer = IF req[r].kind = "match_async" THEN @
                                        ELSE IF batch[r].phase = "raised" THEN "500"
                                        ELSE "200"]
    /\ UNCHANGED <<clock, server, provider, epoch, store, batch, job, view>>
LogDone(r) ==
    /\ req[r].at = "logging"
    /\ \/ rows' = [rows EXCEPT ![r] = Append(@, UsageRow(r))]
       \/ UNCHANGED rows
    /\ req' = [req EXCEPT ![r].at = "ended",
                          ![r].answer = IF req[r].kind = "match_async" THEN @
                                        ELSE IF batch[r].phase = "raised" THEN "500"
                                        ELSE "200"]
    /\ UNCHANGED <<clock, server, provider, epoch, store, batch, job, view>>

\* The AsyncPollResponse of a job, or the 404.
SnapshotOfMatchesOnly(r, held) ==
    IF ~held THEN [NoView EXCEPT !.status = "404"]
    ELSE IF job[r].status = "completed" /\ job[r].result[1] > 0
    THEN [status |-> "completed", done |-> job[r].done,
          matches |-> job[r].result[1], errors |-> job[r].result[2]]
    ELSE [NoView EXCEPT !.status = job[r].status, !.done = job[r].done]
Snapshot(r, held) ==
    IF ~held THEN [NoView EXCEPT !.status = "404"]
    ELSE IF job[r].status = "completed"
    THEN [status |-> "completed", done |-> job[r].done,
          matches |-> job[r].result[1], errors |-> job[r].result[2]]
    ELSE [NoView EXCEPT !.status = job[r].status, !.done = job[r].done]

\* GET /match/{job_id} reaches replica w: sweep, look up, answer.
Poll(r, w) ==
    /\ server[w] = "serving"
    /\ Accepted(r)
    /\ store' = [store EXCEPT ![w] = Swept(w)]
    /\ view' = [view EXCEPT ![r][w] = Snapshot(r, r \in Swept(w))]
    /\ UNCHANGED <<clock, server, provider, epoch, req, batch, job, rows>>

Tick ==
    /\ clock < MaxClock
    /\ clock' = clock + 1
    /\ UNCHANGED <<server, provider, epoch, store, req, batch, job, rows, view>>

----------------------------------------------------------------------------
(* Processes that end and start *)

\* Everything the process held in memory is gone.
MemoryLost(w) ==
    /\ server' = [server EXCEPT ![w] = "down"]
    /\ epoch' = [epoch EXCEPT ![w] = @ + 1]
    /\ store' = [store EXCEPT ![w] = {}]

ActiveOn(w) == {r \in Requests : Active(r) /\ req[r].on = w}

\* The process is killed.  An insert under way may or may not have committed.
Crash(w) ==
    /\ server[w] # "down"
    /\ epoch[w] < MaxOutages
    /\ MemoryLost(w)
    /\ \E committed \in SUBSET {r \in ActiveOn(w) : req[r].at = "logging"} :
          rows' = [r \in Requests |-> IF r \in committed
                                      THEN Append(rows[r], UsageRow(r)) ELSE rows[r]]
    /\ req' = [r \in Requests |-> IF r \in ActiveOn(w)
                                  THEN [req[r] EXCEPT !.at = "lost"] ELSE req[r]]
    /\ UNCHANGED <<clock, provider, batch, job, view>>

\* uvicorn got its stop signal: no new request, the running ones finish.
Drain(w) ==
    /\ server[w] = "serving"
    /\ epoch[w] < MaxOutages
    /\ server' = [server EXCEPT ![w] = "draining"]
    /\ UNCHANGED <<clock, provider, epoch, store, req, batch, job, rows, view>>

\* No request is left, lifespan has ended, and the loop is closed by cancelling
\* the workers that remain.  One that never ran leaves nothing; one that was
\* scoring gets CancelledError out of gather, which `except Exception` does not
\* catch, and its `finally` still logs; one that was logging may lose its row.
Stop(w) ==
    /\ server[w] = "draining"
    /\ \A r \in ActiveOn(w) : req[r].kind = "match_async"
    /\ MemoryLost(w)
    /\ batch' = [r \in Requests |-> IF r \in ActiveOn(w) /\ req[r].at = "scoring"
                                    THEN [batch[r] EXCEPT !.phase = "cancelled"]
                                    ELSE batch[r]]
    /\ \E inserted \in SUBSET {r \in ActiveOn(w) : req[r].at # "scheduled"} :
          rows' = [r \in Requests |-> IF r \in inserted
                                      THEN Append(rows[r], UsageRow(r)') ELSE rows[r]]
    /\ req' = [r \in Requests |-> IF r \in ActiveOn(w)
                                  THEN [req[r] EXCEPT !.at = "lost"] ELSE req[r]]
    /\ UNCHANGED <<clock, provider, job, view>>

\* A new process takes the replica's place, with the environment it finds.
Boot(w) ==
    /\ server[w] = "down"
    /\ server' = [server EXCEPT ![w] = "serving"]
    /\ \E known \in BOOLEAN : provider' = [provider EXCEPT ![w] = known]
    /\ UNCHANGED <<clock, epoch, store, req, batch, job, rows, view>>

----------------------------------------------------------------------------
Next ==
    \/ Tick
    \/ \E w \in Replicas :
          \/ Crash(w)
          \/ Drain(w)
          \/ Stop(w)
          \/ Boot(w)
    \/ \E r \in Requests :
          \/ WorkerStart(r)
          \/ \E v \in {"scored", "failed"} : PairDecided(r, v)
          \/ BatchReturns(r)
          \/ LogDone(r)
          \/ \E w \in Replicas :
                \/ Refuse(r, w)
                \/ SubmitSync(r, w)
                \/ SubmitAsync(r, w)
                \/ Poll(r, w)

Spec == Init /\ [][Next]_vars

\* The event loop runs every ready task; score_pairs itself ends because its
\* timeouts do (ScorePairs!BatchEnds); a drained process stops and the platform
\* starts another.
ServerFairness ==
    /\ \A w \in Replicas : WF_vars(Stop(w)) /\ WF_vars(Boot(w))
    /\ \A r \in Requests :
          /\ WF_vars(WorkerStart(r))
          /\ WF_vars(\E v \in {"scored", "failed"} : PairDecided(r, v))
          /\ WF_vars(BatchReturns(r))
          /\ WF_vars(LogDone(r))

\* A client that was given a job id polls until it has an outcome.
ClientFairness == \A r \in Requests, w \in Replicas : SF_vars(Poll(r, w))

FairSpec == Spec /\ ServerFairness /\ ClientFairness

----------------------------------------------------------------------------
(* Properties *)

Statuses == {"none", "queued", "running", "completed", "failed"}

\* The variables keep their types (match_sync, match_async, match_poll).
TypeOK ==
    /\ clock \in 0..MaxClock
    /\ server \in [Replicas -> {"serving", "draining", "down"}]
    /\ provider \in [Replicas -> BOOLEAN]
    /\ epoch \in [Replicas -> 0..MaxOutages]
    /\ store \in [Replicas -> SUBSET Requests]
    /\ req \in [Requests -> [kind : {"none", "match", "match_async"}, at : Stages,
                             on : Replicas, born : 0..MaxOutages,
                             answer : {"none", "4xx", "200", "202", "500"}]]
    /\ batch \in [Requests -> [phase : {"new", "open", "returned", "raised", "cancelled"},
                               scored : 0..NumPairs, failed : 0..NumPairs]]
    /\ job \in [Requests -> [status : Statuses, done : 0..NumPairs, created : 0..MaxClock,
                             result : {<<>>} \cup ((0..NumPairs) \X (0..NumPairs))]]
    /\ \A r \in Requests : \A i \in 1..Len(rows[r]) :
          rows[r][i] \in [status : {"ok", "error"}, pairsFailed : 0..NumPairs]
    /\ view \in [Requests -> [Replicas -> [status : Statuses \cup {"404"},
                                           done : 0..NumPairs, matches : 0..NumPairs,
                                           errors : 0..NumPairs]]]

\* An accepted job can be polled for the whole TTL as long as its process
\* lives, however long it runs and whatever else is submitted or polled.
StoredWhileFresh ==
    \A r \in Requests :
        Accepted(r) /\ ~Forgotten(r) /\ ~Expired(r) => r \in store[req[r].on]

\* Docstring of match_poll: a 404 for a job that was accepted means that it
\* expired or was lost to a restart; beside these, only that the poll reached a
\* process other than the one that accepted it, which can answer nothing else
\* (main.py: with several replicas polls "land on the wrong replica").
NotFoundMeansGone ==
    \A r \in Requests, w \in Replicas :
        /\ view[r][w].status = "404" => w # req[r].on \/ Expired(r) \/ Forgotten(r)
        /\ view[r][w].status \notin {"none", "404"} => w = req[r].on

\* A poll that says "completed" carries a verdict for every pair and a full
\* progress bar: result, count and status are never seen half written.
PolledResultComplete ==
    \A r \in Requests, w \in Replicas : view[r][w].status = "completed" =>
        /\ view[r][w].matches + view[r][w].errors = NumPairs
        /\ view[r][w].done = NumPairs

Rank(v) == CASE v.status = "none"      -> 0
             [] v.status = "queued"    -> 1
             [] v.status = "running"   -> 2 + v.done
             [] v.status = "completed" -> 3 + NumPairs
             [] v.status = "failed"    -> 3 + NumPairs
             [] v.status = "404"       -> 4 + NumPairs

\* Successive polls of a job, as one process answers them, never go back:
\* queued, running with growing progress, one final outcome that does not
\* change, and 404 for good.
PollsNeverRegress ==
    [][\A r \in Requests, w \in Replicas :
          \/ view'[r][w] = view[r][w]
          \/ Rank(view'[r][w]) > Rank(view[r][w])]_view

\* The usage log agrees with what the client was told: at most one row for a
\* request, "error" for the failures it saw, and its count of failed pairs.  An
\* "ok" nobody was answered is the row of a worker that was cancelled with its
\* process, and only that.
UsageAgreesWithAnswer ==
    \A r \in Requests :
        /\ Len(rows[r]) <= 1
        /\ \A i \in 1..Len(rows[r]), w \in Replicas :
              /\ view[r][w].status = "completed" =>
                    rows[r][i] = [status |-> "ok", pairsFailed |-> view[r][w].errors]
              /\ view[r][w].status = "failed" => rows[r][i].status = "error"
              /\ req[r].answer = "200" =>
                    rows[r][i] = [status |-> "ok", pairsFailed |-> batch[r].failed]
              /\ req[r].answer = "500" => rows[r][i].status = "error"
              /\ rows[r][i].status = "ok" =>
                    \/ batch[r].phase = "returned"
                    \/ batch[r].phase = "cancelled" /\ req[r].at = "lost"

\* Each batch, as the router runs it, keeps the contract of score_pairs, with
\* job.pairs_done as the progress that is reported.
Batch(r) == INSTANCE BatchContract WITH
    phase <- batch[r].phase,
    scored <- batch[r].scored,
    failed <- batch[r].failed,
    reported <- IF req[r].kind = "match_async" THEN job[r].done ELSE Decided(r)

EachBatchKeepsContract ==
    /\ \A r \in Requests : Batch(r)!Init
    /\ [][\A r \in Requests : Batch(r)!Next \/ UNCHANGED Batch(r)!vars]_vars

\* Claim of schema.py about the usage log, "Captures both successes and
\* failures": a row says "ok" only of a batch that gave its caller a result.
OkMeansReturned ==
    \A r \in Requests : \A i \in 1..Len(rows[r]) :
        rows[r][i].status = "ok" => batch[r].phase = "returned"

\* What of AcceptedSettles needs no fairness: whatever changes a request or its
\* batch takes it forward, process ends included, so each makes a bounded number
\* of steps; and an answer given or a row inserted stays as it is.
WorkLeft(r) ==
    IF req[r].at = "idle" THEN NumPairs + 4
    ELSE IF req[r].at = "scheduled" THEN NumPairs + 3
    ELSE IF req[r].at = "scoring" THEN NumPairs + 2 - Decided(r)
    ELSE IF req[r].at = "logging" THEN 1 ELSE 0

RequestsOnlyAdvance ==
    [][\A r \in Requests :
          /\ WorkLeft(r)' <= WorkLeft(r)
          /\ req'[r] # req[r] \/ batch'[r] # batch[r] \/ rows'[r] # rows[r]
                => WorkLeft(r)' < WorkLeft(r)
          /\ req[r].answer # "none" => req'[r].answer = req[r].answer
          /\ rows[r] # <<>> => rows'[r] = rows[r]]_vars

\* Work that was accepted comes to its end and to the usage log, unless its
\* process ends under it; a stop signal does not leave a request hanging.
AcceptedSettles ==
    \A r \in Requests : Active(r) ~> req[r].at \in {"ended", "lost"}

\* A client that keeps polling a job it was given learns its outcome, or that
\* it is gone, from the process that accepted it.
ClientLearnsOutcome ==
    \A r \in Requests :
        Accepted(r) ~> view[r][req[r].on].status \in {"completed", "failed", "404"}
=============================================================================
