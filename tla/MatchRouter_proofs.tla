------------------------- MODULE MatchRouter_proofs -------------------------
(***************************************************************************)
(* Proofs about MatchRouter for any requests, replicas, number of pairs,   *)
(* TTL and bounds.  The inductive invariant is Inv: the types, what can be *)
(* said of the life of each request by itself (Life), and how the stores   *)
(* agree with it (Memory).                                                 *)
(***************************************************************************)
EXTENDS MatchRouter, TLAPS

USE NumPairsAssumption, ReplicasAssumption, TimeAssumption, OutageAssumption

ReqType == [kind : {"none", "match", "match_async"}, at : Stages, on : Replicas,
            born : 0..MaxOutages, answer : {"none", "4xx", "200", "202", "500"}]
BatchType == [phase : {"new", "open", "returned", "raised", "cancelled"},
              scored : 0..NumPairs, failed : 0..NumPairs]
JobType == [status : Statuses, done : 0..NumPairs, created : 0..MaxClock,
            result : {<<>>} \cup ((0..NumPairs) \X (0..NumPairs))]
RowType == [status : {"ok", "error"}, pairsFailed : 0..NumPairs]
ViewType == [status : Statuses \cup {"404"}, done : 0..NumPairs,
             matches : 0..NumPairs, errors : 0..NumPairs]

ServerTypes ==
    /\ clock \in 0..MaxClock
    /\ server \in [Replicas -> {"serving", "draining", "down"}]
    /\ provider \in [Replicas -> BOOLEAN]
    /\ epoch \in [Replicas -> 0..MaxOutages]
    /\ \A w \in Replicas : server[w] = "draining" => epoch[w] < MaxOutages
    /\ store \in [Replicas -> SUBSET Requests]

RequestTypes ==
    /\ req \in [Requests -> ReqType]
    /\ batch \in [Requests -> BatchType]
    /\ job \in [Requests -> JobType]
    /\ rows \in [Requests -> Seq(RowType)]
    /\ view \in [Requests -> [Replicas -> ViewType]]

Types == ServerTypes /\ RequestTypes

\* The stages of a request against its batch.
BatchInStep(r) ==
    /\ Decided(r) <= NumPairs
    /\ batch[r].phase \in {"new", "raised"} => Decided(r) = 0
    /\ batch[r].phase = "returned" => Decided(r) = NumPairs
    /\ req[r].at \in {"idle", "refused", "scheduled"} => batch[r].phase = "new"
    /\ req[r].at = "scoring" => batch[r].phase = "open"
    /\ req[r].at \in {"logging", "ended"} => batch[r].phase \in {"returned", "raised"}

\* The job object of an asynchronous request against its batch.
JobInStep(r) ==
    /\ req[r].at = "idle" => req[r].kind = "none" /\ req[r].answer = "none"
    /\ job[r].done = IF req[r].kind = "match_async" THEN Decided(r) ELSE 0
    /\ Accepted(r) <=> req[r].kind = "match_async"
    /\ req[r].at \in {"scheduled", "scoring", "logging"} => req[r].answer \in {"none", "202"}
    /\ req[r].at = "scheduled" => Accepted(r) /\ job[r].status = "queued"
    /\ req[r].at = "scoring" /\ Accepted(r) => job[r].status = "running"
    /\ Accepted(r) => job[r].status # "none"
    /\ job[r].status = "completed" =>
          batch[r].phase = "returned" /\ job[r].result = Response(r)
    /\ job[r].status = "failed" => batch[r].phase = "raised"

\* The usage rows of a request, and its synchronous answer.
RowsInStep(r) ==
    /\ rows[r] # <<>> =>
          /\ req[r].at \in {"ended", "lost"} /\ rows[r] = <<UsageRow(r)>>
          /\ batch[r].phase \in {"returned", "raised", "cancelled"}
    /\ req[r].answer = "200" => batch[r].phase = "returned"
    /\ req[r].answer = "500" => batch[r].phase = "raised"

\* What a poll answers: Shown(r) if the store holds the job, else Gone.
Seen(s, d, m, e) == [status |-> s, done |-> d, matches |-> m, errors |-> e]
Shown(r) == Snapshot(r, TRUE)
Gone == Seen("404", 0, 0, 0)

\* What the client last saw of a job at some process is what the job shows
\* now, or showed earlier.
SeenInStep(r, v) ==
    /\ v.status # "none" => Accepted(r)
    /\ v.status = "404" => v = Gone
    /\ v.status \notin {"none", "404"} => v = Shown(r) \/ Rank(v) < Rank(Shown(r))

ViewInStep(r) == \A w \in Replicas : SeenInStep(r, view[r][w])

Life(r) == BatchInStep(r) /\ JobInStep(r) /\ RowsInStep(r) /\ ViewInStep(r)

\* A store holds the accepted jobs of its process, and all the fresh ones.
Memory(r) ==
    /\ req[r].at # "idle" => req[r].born <= epoch[req[r].on]
    /\ \A w \in Replicas : r \in store[w] =>
          Accepted(r) /\ req[r].on = w /\ ~Forgotten(r)
    /\ Accepted(r) /\ ~Forgotten(r) /\ ~Expired(r) => r \in store[req[r].on]

Inv == Types /\ \A r \in Requests : Life(r) /\ Memory(r)

----------------------------------------------------------------------------
(* Types *)

\* Every step keeps the types of the clock, the processes and their stores.
LEMMA ServerTypesStep == Types /\ [Next]_vars => ServerTypes'
<1> SUFFICES ASSUME ServerTypes, [Next]_vars PROVE ServerTypes'
  BY DEF Types
<1>1. CASE Tick
  BY <1>1 DEF ServerTypes, Tick
<1>2. ASSUME NEW w \in Replicas, Crash(w) \/ Stop(w) PROVE ServerTypes'
  <2>1. epoch[w] < MaxOutages /\ MemoryLost(w) /\ clock' = clock /\ provider' = provider
    BY <1>2 DEF ServerTypes, Crash, Stop
  <2>2. QED
    BY <2>1 DEF ServerTypes, MemoryLost
<1>3. ASSUME NEW w \in Replicas, Drain(w) PROVE ServerTypes'
  BY <1>3 DEF ServerTypes, Drain
<1>4. ASSUME NEW w \in Replicas, Boot(w) PROVE ServerTypes'
  BY <1>4 DEF ServerTypes, Boot
<1>5. ASSUME NEW r \in Requests, NEW w \in Replicas, SubmitAsync(r, w) \/ Poll(r, w)
      PROVE  ServerTypes'
  BY <1>5 DEF ServerTypes, SubmitAsync, Poll, Swept
<1>6. CASE UNCHANGED <<clock, server, provider, epoch, store>>
  BY <1>6 DEF ServerTypes
<1>7. QED
  BY <1>1, <1>2, <1>3, <1>4, <1>5, <1>6
     DEF Next, vars, Refuse, SubmitSync, WorkerStart, PairDecided, BatchReturns, LogDone

\* What _log_usage_safely inserts is a row of the usage table.
LEMMA UsageRowType ==
    ASSUME RequestTypes, NEW r \in Requests
    PROVE  UsageRow(r) \in RowType
  BY DEF RequestTypes, BatchType, UsageRow, RowType

\* A record stays in its type when a field gets a value of the field's type.
LEMMA RequestUpdates ==
    ASSUME NEW q \in ReqType
    PROVE  /\ \A s \in Stages : [q EXCEPT !.at = s] \in ReqType
           /\ \A w \in Replicas : [q EXCEPT !.on = w] \in ReqType
           /\ \A n \in 0..MaxOutages : [q EXCEPT !.born = n] \in ReqType
           /\ \A a \in {"none", "4xx", "200", "202", "500"} : [q EXCEPT !.answer = a] \in ReqType
  BY DEF ReqType

\* The same for the fields of an _AsyncJob.
LEMMA JobUpdates ==
    ASSUME NEW j \in JobType
    PROVE  /\ \A s \in Statuses : [j EXCEPT !.status = s] \in JobType
           /\ \A d \in 0..NumPairs : [j EXCEPT !.done = d] \in JobType
           /\ \A t \in 0..MaxClock : [j EXCEPT !.created = t] \in JobType
           /\ \A p \in (0..NumPairs) \X (0..NumPairs) : [j EXCEPT !.result = p] \in JobType
  BY DEF JobType

\* Every step keeps the types of the requests, jobs, rows and views.
LEMMA RequestTypesStep ==
    /\ Types
    /\ \A r \in Requests : BatchInStep(r) /\ JobInStep(r)
    /\ [Next]_vars
    => RequestTypes'
<1> SUFFICES ASSUME RequestTypes, ServerTypes, [Next]_vars,
                    \A r \in Requests : BatchInStep(r) /\ JobInStep(r)
             PROVE  RequestTypes'
  BY DEF Types
<1> USE DEF RequestTypes
<1>1. ASSUME NEW r \in Requests, NEW w \in Replicas, Refuse(r, w) PROVE RequestTypes'
  <2>1. "refused" \in Stages /\ epoch[w] \in 0..MaxOutages
    BY DEF Stages, ServerTypes
  <2>2. [[[[req[r] EXCEPT !.at = "refused"] EXCEPT !.on = w] EXCEPT !.born = epoch[w]]
             EXCEPT !.answer = "4xx"] \in ReqType
    BY <2>1, RequestUpdates
  <2>3. QED
    BY <1>1, <2>2 DEF Refuse
<1>2. ASSUME NEW r \in Requests, NEW w \in Replicas, SubmitSync(r, w) PROVE RequestTypes'
  <2>1. req' \in [Requests -> ReqType]
    BY <1>2 DEF SubmitSync, StageAfterStart, ReqType, Stages, ServerTypes
  <2>2. batch' \in [Requests -> BatchType]
    BY <1>2 DEF SubmitSync, StartBatch, BatchType
  <2>3. QED
    BY <1>2, <2>1, <2>2 DEF SubmitSync
<1>3. ASSUME NEW r \in Requests, NEW w \in Replicas, SubmitAsync(r, w) PROVE RequestTypes'
  <2>1. req' \in [Requests -> ReqType]
    BY <1>3 DEF SubmitAsync, ReqType, Stages, ServerTypes
  <2>2. job' \in [Requests -> JobType]
    <3>1. "queued" \in Statuses /\ clock \in 0..MaxClock
      BY DEF Statuses, ServerTypes
    <3>2. [[job[r] EXCEPT !.status = "queued"] EXCEPT !.created = clock] \in JobType
      BY <3>1, JobUpdates
    <3>3. QED
      BY <1>3, <3>2 DEF SubmitAsync
  <2>3. QED
    BY <1>3, <2>1, <2>2 DEF SubmitAsync
<1>4. ASSUME NEW r \in Requests, WorkerStart(r) PROVE RequestTypes'
  <2>1. req' \in [Requests -> ReqType]
    <3>1. StageAfterStart(req[r].on) \in Stages
      BY DEF StageAfterStart, Stages
    <3>2. [req[r] EXCEPT !.at = StageAfterStart(req[r].on)] \in ReqType
      BY <3>1, RequestUpdates
    <3>3. QED
      BY <1>4, <3>2 DEF WorkerStart
  <2>2. batch' \in [Requests -> BatchType]
    BY <1>4 DEF WorkerStart, StartBatch, BatchType
  <2>3. job' \in [Requests -> JobType]
    <3>1. "running" \in Statuses /\ "failed" \in Statuses
      BY DEF Statuses
    <3>2. QED
      BY <1>4, <3>1, JobUpdates DEF WorkerStart
  <2>4. QED
    BY <1>4, <2>1, <2>2, <2>3 DEF WorkerStart
<1>5. ASSUME NEW r \in Requests, NEW v \in {"scored", "failed"}, PairDecided(r, v)
      PROVE  RequestTypes'
  <2>1. /\ batch[r].scored \in Nat /\ batch[r].failed \in Nat
        /\ batch[r].scored + batch[r].failed < NumPairs
    BY <1>5 DEF PairDecided, Decided, BatchType
  <2>2. batch[r] \in BatchType /\ batch[r].scored + 1 \in 0..NumPairs
        /\ batch[r].failed + 1 \in 0..NumPairs
    BY <2>1
  <2>3. batch' \in [Requests -> BatchType]
    <3>1. [batch[r] EXCEPT ![v] = @ + 1] \in BatchType
      <4>1. CASE v = "scored"
        <5>1. [batch[r] EXCEPT !.scored = batch[r].scored + 1] \in BatchType
          BY <2>2 DEF BatchType
        <5>2. QED
          BY <4>1, <5>1 DEF BatchType
      <4>2. CASE v = "failed"
        <5>1. [batch[r] EXCEPT !.failed = batch[r].failed + 1] \in BatchType
          BY <2>2 DEF BatchType
        <5>2. QED
          BY <4>2, <5>1 DEF BatchType
      <4>3. QED
        BY <4>1, <4>2
    <3>2. QED
      BY <1>5, <3>1 DEF PairDecided
  <2>4. job' \in [Requests -> JobType]
    <3>1. Decided(r) + 1 \in 0..NumPairs
      BY <2>1 DEF Decided
    <3>2. QED
      BY <1>5, <3>1, JobUpdates DEF PairDecided
  <2>5. QED
    BY <1>5, <2>3, <2>4 DEF PairDecided
<1>6. ASSUME NEW r \in Requests, BatchReturns(r) PROVE RequestTypes'
  <2>1. req' \in [Requests -> ReqType]
    <3>1. "logging" \in Stages
      BY DEF Stages
    <3>2. QED
      BY <1>6, <3>1, RequestUpdates DEF BatchReturns
  <2>2. batch' \in [Requests -> BatchType]
    BY <1>6 DEF BatchReturns, BatchType
  <2>3. Response(r) \in (0..NumPairs) \X (0..NumPairs)
    BY DEF Response, BatchType
  <2>4. job' \in [Requests -> JobType]
    <3>1. "completed" \in Statuses /\ NumPairs \in 0..NumPairs
      BY DEF Statuses
    <3>2. [[[job[r] EXCEPT !.result = Response(r)] EXCEPT !.done = NumPairs]
              EXCEPT !.status = "completed"] \in JobType
      BY <2>3, <3>1, JobUpdates
    <3>3. QED
      BY <1>6, <3>2 DEF BatchReturns
  <2>5. QED
    BY <1>6, <2>1, <2>2, <2>4 DEF BatchReturns
<1>7. ASSUME NEW r \in Requests, LogDone(r) PROVE RequestTypes'
  <2>1. rows' \in [Requests -> Seq(RowType)]
    <3>1. UsageRow(r) \in RowType /\ rows[r] \in Seq(RowType)
      BY UsageRowType
    <3>2. Append(rows[r], UsageRow(r)) \in Seq(RowType)
      BY <3>1
    <3>3. QED
      BY <1>7, <3>2 DEF LogDone
  <2>2. req' \in [Requests -> ReqType]
    <3>. DEFINE a == IF req[r].kind = "match_async" THEN req[r].answer
                     ELSE IF batch[r].phase = "raised" THEN "500" ELSE "200"
    <3>1. "ended" \in Stages /\ a \in {"none", "4xx", "200", "202", "500"}
      BY DEF Stages, ReqType
    <3>2. [[req[r] EXCEPT !.at = "ended"] EXCEPT !.answer = a] \in ReqType
      <4>. HIDE DEF a
      <4>1. QED
        BY <3>1, RequestUpdates
    <3>3. req' = [req EXCEPT ![r] = [[req[r] EXCEPT !.at = "ended"] EXCEPT !.answer = a]]
      BY <1>7 DEF LogDone
    <3>4. QED
      BY <3>2, <3>3
  <2>3. QED
    BY <1>7, <2>1, <2>2 DEF LogDone
<1>8. ASSUME NEW r \in Requests, NEW w \in Replicas, Poll(r, w) PROVE RequestTypes'
  <2>1. ASSUME job[r].status = "completed"
        PROVE  job[r].result[1] \in 0..NumPairs /\ job[r].result[2] \in 0..NumPairs
    BY <2>1 DEF JobInStep, Response, BatchType
  <2>2. Snapshot(r, r \in Swept(w)) \in ViewType
    <3>1. job[r].status \in Statuses /\ job[r].done \in 0..NumPairs
      BY DEF JobType
    <3>2. CASE r \notin Swept(w)
      <4>1. Snapshot(r, r \in Swept(w)) =
                [status |-> "404", done |-> 0, matches |-> 0, errors |-> 0]
        BY <3>2 DEF Snapshot, NoView
      <4>2. QED
        BY <4>1 DEF ViewType
    <3>3. CASE r \in Swept(w) /\ job[r].status = "completed"
      BY <2>1, <3>1, <3>3 DEF Snapshot, ViewType
    <3>4. CASE r \in Swept(w) /\ job[r].status # "completed"
      <4>1. Snapshot(r, r \in Swept(w)) =
                [status |-> job[r].status, done |-> job[r].done, matches |-> 0, errors |-> 0]
        BY <3>4 DEF Snapshot, NoView
      <4>2. QED
        BY <3>1, <4>1 DEF ViewType
    <3>5. QED
      BY <3>2, <3>3, <3>4
  <2>3. QED
    BY <1>8, <2>2 DEF Poll
<1>9. ASSUME NEW w \in Replicas, Crash(w) PROVE RequestTypes'
  <2>1. rows' \in [Requests -> Seq(RowType)]
    <3>1. PICK committed \in SUBSET {r \in ActiveOn(w) : req[r].at = "logging"} :
              rows' = [r \in Requests |-> IF r \in committed
                                          THEN Append(rows[r], UsageRow(r)) ELSE rows[r]]
      BY <1>9 DEF Crash
    <3>2. QED
      BY <3>1, UsageRowType
  <2>2. req' \in [Requests -> ReqType]
    BY <1>9, RequestUpdates DEF Crash, Stages
  <2>3. QED
    BY <1>9, <2>1, <2>2 DEF Crash
<1>10. ASSUME NEW w \in Replicas, Stop(w) PROVE RequestTypes'
  <2>1. batch' \in [Requests -> BatchType]
    BY <1>10 DEF Stop, BatchType
  <2>2. ASSUME NEW r \in Requests PROVE UsageRow(r)' \in RowType
    BY <2>1 DEF UsageRow, RowType, BatchType
  <2>3. rows' \in [Requests -> Seq(RowType)]
    <3>1. PICK inserted \in SUBSET {r \in ActiveOn(w) : req[r].at # "scheduled"} :
              rows' = [r \in Requests |-> IF r \in inserted
                                          THEN Append(rows[r], UsageRow(r)') ELSE rows[r]]
      BY <1>10 DEF Stop
    <3>2. QED
      BY <3>1, <2>2
  <2>4. req' \in [Requests -> ReqType]
    BY <1>10, RequestUpdates DEF Stop, Stages
  <2>5. QED
    BY <1>10, <2>1, <2>3, <2>4 DEF Stop
<1>11. CASE UNCHANGED <<req, batch, job, rows, view>>
  BY <1>11
<1>12. QED
  BY <1>1, <1>2, <1>3, <1>4, <1>5, <1>6, <1>7, <1>8, <1>9, <1>10, <1>11
     DEF Next, vars, Tick, Drain, Boot

----------------------------------------------------------------------------
(* The life of a request *)

\* A request that a step leaves alone keeps its life in step.
LEMMA LifeSame ==
    ASSUME NEW r \in Requests, Life(r),
           req'[r] = req[r], batch'[r] = batch[r], job'[r] = job[r],
           rows'[r] = rows[r], view'[r] = view[r]
    PROVE  Life(r)'
  BY DEF Life, BatchInStep, JobInStep, RowsInStep, ViewInStep, SeenInStep, Decided, Accepted,
         Response, UsageRow, Shown, Snapshot

\* The rank of each answer of a poll: queued, running by its progress, final.
LEMMA Ranks ==
    ASSUME NEW d, NEW m, NEW e
    PROVE  /\ Rank(Seen("queued", d, m, e)) = 1
           /\ Rank(Seen("running", d, m, e)) = 2 + d
           /\ Rank(Seen("completed", d, m, e)) = 3 + NumPairs
           /\ Rank(Seen("failed", d, m, e)) = 3 + NumPairs
  BY DEF Rank, Seen

\* The rank of any view is a number.
LEMMA RankType == \A v \in ViewType : Rank(v) \in Nat
  BY DEF Rank, ViewType, Statuses

\* The client's view stays in step when what the job shows moves ahead.
LEMMA ViewFallsBehind ==
    ASSUME Types, NEW r \in Requests, ViewInStep(r), view'[r] = view[r],
           Accepted(r) => Accepted(r)',
           Rank(Shown(r)) \in Nat, Rank(Shown(r)') \in Nat,
           Rank(Shown(r)) < Rank(Shown(r)')
    PROVE  ViewInStep(r)'
<1> SUFFICES ASSUME NEW w \in Replicas PROVE SeenInStep(r, view[r][w])'
  BY DEF ViewInStep
<1>1. Rank(view[r][w]) \in Nat /\ SeenInStep(r, view[r][w])
  BY RankType DEF Types, RequestTypes, ViewInStep
<1>2. view[r][w].status \notin {"none", "404"} => Rank(view'[r][w]) < Rank(Shown(r)')
  BY <1>1 DEF SeenInStep
<1>3. QED
  BY <1>1, <1>2 DEF SeenInStep

\* The worker starts: the job goes from queued to running, or fails at once
\* when resolve_llm_provider raises.
LEMMA WorkerStartLife ==
    ASSUME Types, NEW r \in Requests, Life(r), WorkerStart(r)
    PROVE  Life(r)'
<1>1. /\ req[r].at = "scheduled"
      /\ req'[r].at = StageAfterStart(req[r].on)
      /\ req'[r].kind = req[r].kind /\ req'[r].answer = req[r].answer
  BY DEF WorkerStart, Types, RequestTypes, ReqType
<1>2. /\ batch'[r].phase = IF provider[req[r].on] THEN "open" ELSE "raised"
      /\ batch'[r].scored = batch[r].scored /\ batch'[r].failed = batch[r].failed
  BY DEF WorkerStart, StartBatch, Types, RequestTypes, BatchType
<1>3. /\ job'[r].status = IF provider[req[r].on] THEN "running" ELSE "failed"
      /\ job'[r].done = job[r].done /\ job'[r].result = job[r].result
  BY DEF WorkerStart, Types, RequestTypes, JobType
<1>4. rows' = rows /\ view' = view
  BY DEF WorkerStart
<1>5. BatchInStep(r) /\ JobInStep(r) /\ RowsInStep(r) /\ ViewInStep(r)
  BY DEF Life
<1>6. BatchInStep(r)'
  BY <1>1, <1>2, <1>5 DEF BatchInStep, Decided, StageAfterStart
<1>7. JobInStep(r)'
  BY <1>1, <1>2, <1>3, <1>5 DEF JobInStep, BatchInStep, Decided, Accepted, StageAfterStart
<1>8. RowsInStep(r)'
  BY <1>1, <1>2, <1>4, <1>5 DEF RowsInStep, JobInStep, BatchInStep, Accepted
<1>9. ViewInStep(r)'
  <2>1. Shown(r) = Seen("queued", 0, 0, 0)
    BY <1>1, <1>5 DEF JobInStep, BatchInStep, Shown, Snapshot, NoView, Seen
  <2>2. Shown(r)' = Seen(job'[r].status, 0, 0, 0)
    BY <1>1, <1>3, <1>5 DEF JobInStep, BatchInStep, Shown, Snapshot, NoView, Seen
  <2>3. QED
    BY <1>1, <1>3, <1>4, <1>5, <2>1, <2>2, Ranks, ViewFallsBehind DEF Accepted
<1>10. QED
  BY <1>6, <1>7, <1>8, <1>9 DEF Life

\* A verdict is counted once, on one side.
LEMMA PairCounts ==
    ASSUME Types, NEW r \in Requests, NEW v \in {"scored", "failed"}, PairDecided(r, v)
    PROVE  batch'[r].phase = batch[r].phase /\ Decided(r)' = Decided(r) + 1
<1>1. batch[r].scored \in Nat /\ batch[r].failed \in Nat
  BY DEF Types, RequestTypes, BatchType
<1>2. batch'[r] = [batch[r] EXCEPT ![v] = batch[r][v] + 1]
  BY DEF PairDecided, Types, RequestTypes
<1>3. CASE v = "scored"
  BY <1>1, <1>2, <1>3 DEF Decided, Types, RequestTypes, BatchType
<1>4. CASE v = "failed"
  BY <1>1, <1>2, <1>4 DEF Decided, Types, RequestTypes, BatchType
<1>5. QED
  BY <1>3, <1>4

\* One more pair is decided, and on_progress raises the job's pairs_done with it.
LEMMA PairDecidedLife ==
    ASSUME Types, NEW r \in Requests, Life(r),
           NEW v \in {"scored", "failed"}, PairDecided(r, v)
    PROVE  Life(r)'
<1>1. /\ req[r].at = "scoring" /\ Decided(r) < NumPairs
      /\ req' = req /\ rows' = rows /\ view' = view
  BY DEF PairDecided
<1>2. Decided(r) \in Nat
  BY DEF Decided, Types, RequestTypes, BatchType
<1>3. batch'[r].phase = batch[r].phase /\ Decided(r)' = Decided(r) + 1
  BY PairCounts
<1>4. /\ job'[r].status = job[r].status
      /\ job'[r].done = IF req[r].kind = "match_async" THEN Decided(r) + 1 ELSE job[r].done
      /\ job'[r].result = job[r].result
  BY DEF PairDecided, Types, RequestTypes, JobType
<1>5. BatchInStep(r) /\ JobInStep(r) /\ RowsInStep(r) /\ ViewInStep(r)
      /\ Decided(r) \in Nat
  BY <1>2 DEF Life
<1>6. BatchInStep(r)'
  BY <1>1, <1>3, <1>5 DEF BatchInStep
<1>7. JobInStep(r)'
  BY <1>1, <1>3, <1>4, <1>5 DEF JobInStep, BatchInStep, Accepted
<1>8. RowsInStep(r)'
  BY <1>1, <1>3, <1>5 DEF RowsInStep
<1>9. ViewInStep(r)'
  <2>1. CASE Accepted(r)
    <3>1. job[r].status = "running" /\ job[r].done = Decided(r)
          /\ job'[r].status = "running" /\ job'[r].done = Decided(r) + 1
      BY <1>1, <1>4, <1>5, <2>1 DEF JobInStep
    <3>2. Shown(r) = Seen("running", Decided(r), 0, 0)
          /\ Shown(r)' = Seen("running", Decided(r) + 1, 0, 0)
      BY <3>1 DEF Shown, Snapshot, NoView, Seen
    <3>3. Rank(Shown(r)) = 2 + Decided(r) /\ Rank(Shown(r)') = 2 + (Decided(r) + 1)
      BY <3>2, Ranks
    <3>4. QED
      BY <1>1, <1>5, <3>3, ViewFallsBehind DEF Accepted
  <2>2. CASE ~Accepted(r)
    BY <1>1, <1>5, <2>2 DEF ViewInStep, SeenInStep, Accepted
  <2>3. QED
    BY <2>1, <2>2
<1>10. QED
  BY <1>6, <1>7, <1>8, <1>9 DEF Life

\* score_pairs returns: result, progress and status of the job change at once.
LEMMA BatchReturnsLife ==
    ASSUME Types, NEW r \in Requests, Life(r), BatchReturns(r)
    PROVE  Life(r)'
<1>1. /\ req[r].at = "scoring" /\ Decided(r) = NumPairs
      /\ req'[r].at = "logging"
      /\ req'[r].kind = req[r].kind /\ req'[r].answer = req[r].answer
      /\ rows' = rows /\ view' = view
  BY DEF BatchReturns, Types, RequestTypes, ReqType
<1>2. /\ batch'[r].phase = "returned"
      /\ batch'[r].scored = batch[r].scored /\ batch'[r].failed = batch[r].failed
  BY DEF BatchReturns, Types, RequestTypes, BatchType
<1>3. IF req[r].kind = "match_async"
      THEN /\ job'[r].status = "completed" /\ job'[r].done = NumPairs
           /\ job'[r].result = Response(r)
      ELSE job'[r] = job[r]
  BY DEF BatchReturns, Types, RequestTypes, JobType
<1>4. BatchInStep(r) /\ JobInStep(r) /\ RowsInStep(r) /\ ViewInStep(r)
  BY DEF Life
<1>5. Response(r)' = Response(r) /\ Decided(r)' = NumPairs
  BY <1>1, <1>2 DEF Response, Decided
<1>6. BatchInStep(r)'
  BY <1>1, <1>2, <1>5 DEF BatchInStep
<1>7. JobInStep(r)'
  BY <1>1, <1>2, <1>3, <1>4, <1>5 DEF JobInStep, BatchInStep, Accepted
<1>8. RowsInStep(r)'
  BY <1>1, <1>2, <1>4 DEF RowsInStep, BatchInStep
<1>9. ViewInStep(r)'
  <2>1. CASE Accepted(r)
    <3>1. job[r].status = "running" /\ job[r].done = NumPairs
          /\ job'[r].status = "completed" /\ job'[r].done = NumPairs
      BY <1>1, <1>3, <1>4, <2>1 DEF JobInStep
    <3>2. Shown(r) = Seen("running", NumPairs, 0, 0)
          /\ Shown(r)' = Seen("completed", NumPairs, job'[r].result[1], job'[r].result[2])
      BY <3>1 DEF Shown, Snapshot, NoView, Seen
    <3>3. Rank(Shown(r)) = 2 + NumPairs /\ Rank(Shown(r)') = 3 + NumPairs
      BY <3>2, Ranks
    <3>4. QED
      BY <1>1, <1>4, <3>3, ViewFallsBehind DEF Accepted
  <2>2. CASE ~Accepted(r)
    BY <1>1, <1>4, <2>2 DEF ViewInStep, SeenInStep, Accepted
  <2>3. QED
    BY <2>1, <2>2
<1>10. QED
  BY <1>6, <1>7, <1>8, <1>9 DEF Life

\* The first row of an empty list of rows.
LEMMA FirstRow == \A row : Append(<<>>, row) = <<row>>
  OBVIOUS

\* The log call of a request ends: its usage row is the one its batch deserves.
LEMMA LogDoneLife ==
    ASSUME Types, NEW r \in Requests, Life(r), LogDone(r)
    PROVE  Life(r)'
<1>1. /\ req[r].at = "logging" /\ req'[r].at = "ended" /\ req'[r].kind = req[r].kind
      /\ req'[r].answer = IF req[r].kind = "match_async" THEN req[r].answer
                          ELSE IF batch[r].phase = "raised" THEN "500" ELSE "200"
      /\ batch' = batch /\ job' = job /\ view' = view
      /\ rows'[r] = rows[r] \/ rows'[r] = Append(rows[r], UsageRow(r))
  BY DEF LogDone, Types, RequestTypes, ReqType
<1>2. BatchInStep(r) /\ JobInStep(r) /\ RowsInStep(r) /\ ViewInStep(r)
  BY DEF Life
<1>3. rows[r] = <<>>
  BY <1>1, <1>2 DEF RowsInStep
<1>4. UsageRow(r)' = UsageRow(r) /\ Shown(r)' = Shown(r) /\ Accepted(r)' = Accepted(r)
  BY <1>1, <1>2 DEF UsageRow, Shown, Snapshot, Accepted, JobInStep
<1>5. rows'[r] \in {<<>>, <<UsageRow(r)>>}
  BY <1>1, <1>3, FirstRow
<1>6. BatchInStep(r)'
  BY <1>1, <1>2 DEF BatchInStep, Decided
<1>7. JobInStep(r)'
  BY <1>1, <1>2, <1>4 DEF JobInStep, Decided, Response
<1>8. RowsInStep(r)'
  BY <1>1, <1>2, <1>4, <1>5 DEF RowsInStep, BatchInStep
<1>9. ViewInStep(r)'
  BY <1>1, <1>2, <1>4 DEF ViewInStep, SeenInStep
<1>10. QED
  BY <1>6, <1>7, <1>8, <1>9 DEF Life

\* A refused request leaves no trace but its answer.
LEMMA RefuseLife ==
    ASSUME Types, NEW r \in Requests, Life(r), NEW w \in Replicas, Refuse(r, w)
    PROVE  Life(r)'
<1>1. /\ req[r].at = "idle" /\ req'[r].at = "refused" /\ req'[r].kind = req[r].kind
      /\ req'[r].answer = "4xx"
      /\ batch' = batch /\ job' = job /\ view' = view /\ rows' = rows
  BY DEF Refuse, Types, RequestTypes, ReqType
<1>2. QED
  BY <1>1 DEF Life, BatchInStep, JobInStep, RowsInStep, ViewInStep, SeenInStep, Decided, Accepted,
              Response, UsageRow, Shown, Snapshot

\* POST /match starts its batch without a job.
LEMMA SubmitSyncLife ==
    ASSUME Types, NEW r \in Requests, Life(r), NEW w \in Replicas, SubmitSync(r, w)
    PROVE  Life(r)'
<1>1. /\ req[r].at = "idle" /\ req'[r].at = StageAfterStart(w)
      /\ req'[r].kind = "match" /\ req'[r].answer = "none"
      /\ job' = job /\ view' = view /\ rows' = rows
  BY DEF SubmitSync, Types, RequestTypes, ReqType
<1>2. /\ batch'[r].phase = IF provider[w] THEN "open" ELSE "raised"
      /\ batch'[r].scored = batch[r].scored /\ batch'[r].failed = batch[r].failed
  BY DEF SubmitSync, StartBatch, Types, RequestTypes, BatchType
<1>3. BatchInStep(r) /\ JobInStep(r) /\ RowsInStep(r) /\ ViewInStep(r)
  BY DEF Life
<1>4. BatchInStep(r)'
  BY <1>1, <1>2, <1>3 DEF BatchInStep, Decided, StageAfterStart
<1>5. ~Accepted(r) /\ ~Accepted(r)' /\ batch[r].phase = "new"
  BY <1>1, <1>3 DEF Accepted, JobInStep, BatchInStep
<1>6. JobInStep(r)'
  BY <1>1, <1>2, <1>3, <1>5 DEF JobInStep, StageAfterStart, Accepted
<1>7. RowsInStep(r)'
  BY <1>1, <1>2, <1>3 DEF RowsInStep
<1>8. ViewInStep(r)'
  BY <1>1, <1>3, <1>5 DEF ViewInStep, SeenInStep
<1>9. QED
  BY <1>4, <1>6, <1>7, <1>8 DEF Life

\* POST /match/async stores a queued job and answers 202.
LEMMA SubmitAsyncLife ==
    ASSUME Types, NEW r \in Requests, Life(r), NEW w \in Replicas, SubmitAsync(r, w)
    PROVE  Life(r)'
<1>1. /\ req[r].at = "idle" /\ req'[r].at = "scheduled"
      /\ req'[r].kind = "match_async" /\ req'[r].answer = "202"
      /\ batch' = batch /\ view' = view /\ rows' = rows
  BY DEF SubmitAsync, Types, RequestTypes, ReqType
<1>2. /\ job'[r].status = "queued" /\ job'[r].done = job[r].done
      /\ job'[r].result = job[r].result
  BY DEF SubmitAsync, Types, RequestTypes, JobType
<1>3. BatchInStep(r) /\ JobInStep(r) /\ RowsInStep(r) /\ ViewInStep(r)
  BY DEF Life
<1>4. ~Accepted(r) /\ Accepted(r)'
  BY <1>1, <1>3 DEF Accepted, JobInStep
<1>5. QED
  BY <1>1, <1>2, <1>3, <1>4 DEF Life, BatchInStep, JobInStep, RowsInStep, ViewInStep, SeenInStep, Decided

\* GET /match/{id} shows the job as it is, or 404.
LEMMA PollLife ==
    ASSUME Types, NEW r \in Requests, Life(r), NEW w \in Replicas, Poll(r, w)
    PROVE  Life(r)'
<1>1. /\ Accepted(r) /\ req' = req /\ batch' = batch /\ job' = job /\ rows' = rows
      /\ view'[r][w] = Snapshot(r, r \in Swept(w))
      /\ \A v \in Replicas : v # w => view'[r][v] = view[r][v]
  BY DEF Poll, Types, RequestTypes
<1>2. view'[r][w] = IF r \in Swept(w) THEN Shown(r) ELSE Gone
  BY <1>1 DEF Shown, Snapshot, Gone, Seen, NoView
<1>3. Shown(r)' = Shown(r) /\ Accepted(r)'
  BY <1>1 DEF Shown, Snapshot, Accepted
<1>4. Gone.status = "404" /\ Shown(r).status # "404"
  BY DEF Gone, Seen, Shown, Snapshot, NoView, Types, RequestTypes, JobType, Statuses
<1>5. BatchInStep(r) /\ JobInStep(r) /\ RowsInStep(r)
  BY DEF Life
<1>6. BatchInStep(r)' /\ JobInStep(r)' /\ RowsInStep(r)'
  BY <1>1, <1>3, <1>5 DEF BatchInStep, JobInStep, RowsInStep, Decided, Accepted, Response, UsageRow
<1>7. ViewInStep(r)'
  <2>1. SeenInStep(r, view[r][w])'
    BY <1>2, <1>3, <1>4 DEF SeenInStep
  <2>2. ASSUME NEW v \in Replicas, v # w PROVE SeenInStep(r, view[r][v])'
    BY <1>1, <1>3, <2>2 DEF Life, ViewInStep, SeenInStep
  <2>3. QED
    BY <2>1, <2>2 DEF ViewInStep
<1>8. QED
  BY <1>6, <1>7 DEF Life

\* The process of r ends: r is lost if it was under way, and a row it was
\* writing is there or not.
LEMMA CrashLife ==
    ASSUME Types, NEW r \in Requests, Life(r), NEW w \in Replicas, Crash(w)
    PROVE  Life(r)'
<1>1. CASE r \notin ActiveOn(w)
  <2>1. req'[r] = req[r] /\ rows'[r] = rows[r]
    BY <1>1 DEF Crash
  <2>2. QED
    BY <2>1, LifeSame DEF Crash
<1>2. CASE r \in ActiveOn(w)
  <2>1. /\ req'[r].at = "lost" /\ req'[r].kind = req[r].kind /\ req'[r].answer = req[r].answer
        /\ batch' = batch /\ job' = job /\ view' = view
    BY <1>2 DEF Crash, Types, RequestTypes, ReqType
  <2>2. rows'[r] = rows[r] \/ (rows'[r] = Append(rows[r], UsageRow(r)) /\ req[r].at = "logging")
    BY DEF Crash
  <2>3. BatchInStep(r) /\ JobInStep(r) /\ RowsInStep(r) /\ ViewInStep(r)
        /\ req[r].at \in {"scheduled", "scoring", "logging"}
    BY <1>2 DEF Life, ActiveOn, Active
  <2>4. rows'[r] = <<>> \/ (rows'[r] = <<UsageRow(r)>> /\ req[r].at = "logging")
    <3>1. rows[r] = <<>>
      BY <2>3 DEF RowsInStep
    <3>2. QED
      BY <2>2, <3>1, FirstRow
  <2>5. UsageRow(r)' = UsageRow(r) /\ Shown(r)' = Shown(r) /\ Accepted(r)' = Accepted(r)
    BY <2>1 DEF UsageRow, Shown, Snapshot, Accepted
  <2>6. BatchInStep(r)' /\ JobInStep(r)'
    BY <2>1, <2>3, <2>5 DEF BatchInStep, JobInStep, Decided, Response
  <2>7. RowsInStep(r)'
    BY <2>1, <2>3, <2>4, <2>5 DEF RowsInStep, BatchInStep
  <2>8. ViewInStep(r)'
    BY <2>1, <2>3, <2>5 DEF ViewInStep, SeenInStep
  <2>9. QED
    BY <2>6, <2>7, <2>8 DEF Life
<1>3. QED
  BY <1>1, <1>2

\* A stopped process cancels its workers; an interrupted one may log its row.
LEMMA StopLife ==
    ASSUME Types, NEW r \in Requests, Life(r), NEW w \in Replicas, Stop(w)
    PROVE  Life(r)'
<1>1. CASE r \notin ActiveOn(w)
  <2>1. req'[r] = req[r] /\ rows'[r] = rows[r] /\ batch'[r] = batch[r]
    BY <1>1 DEF Stop
  <2>2. QED
    BY <2>1, LifeSame DEF Stop
<1>2. CASE r \in ActiveOn(w)
  <2>1. /\ req'[r].at = "lost" /\ req'[r].kind = req[r].kind /\ req'[r].answer = req[r].answer
        /\ job' = job /\ view' = view
    BY <1>2 DEF Stop, Types, RequestTypes, ReqType
  <2>2. /\ batch'[r].phase = IF req[r].at = "scoring" THEN "cancelled" ELSE batch[r].phase
        /\ batch'[r].scored = batch[r].scored /\ batch'[r].failed = batch[r].failed
    BY <1>2 DEF Stop, Types, RequestTypes, BatchType
  <2>3. rows'[r] = rows[r] \/ (rows'[r] = Append(rows[r], UsageRow(r)') /\ req[r].at # "scheduled")
    BY DEF Stop
  <2>4. BatchInStep(r) /\ JobInStep(r) /\ RowsInStep(r) /\ ViewInStep(r)
        /\ req[r].at \in {"scheduled", "scoring", "logging"} /\ req[r].kind = "match_async"
    BY <1>2 DEF Life, ActiveOn, Active, Stop
  <2>5. rows'[r] = <<>> \/ (rows'[r] = <<UsageRow(r)'>> /\ req[r].at # "scheduled")
    <3>1. rows[r] = <<>>
      BY <2>4 DEF RowsInStep
    <3>2. QED
      BY <2>3, <3>1, FirstRow
  <2>6. Shown(r)' = Shown(r) /\ Accepted(r)' = Accepted(r) /\ Response(r)' = Response(r)
        /\ Decided(r)' = Decided(r)
    BY <2>1, <2>2 DEF Shown, Snapshot, Accepted, Response, Decided
  <2>7. BatchInStep(r)'
    BY <2>1, <2>2, <2>4, <2>6 DEF BatchInStep
  <2>8. JobInStep(r)'
    BY <2>1, <2>2, <2>4, <2>6 DEF JobInStep
  <2>9. RowsInStep(r)'
    BY <2>1, <2>2, <2>4, <2>5 DEF RowsInStep, JobInStep, BatchInStep, Accepted
  <2>10. ViewInStep(r)'
    BY <2>1, <2>4, <2>6 DEF ViewInStep, SeenInStep
  <2>11. QED
    BY <2>7, <2>8, <2>9, <2>10 DEF Life
<1>3. QED
  BY <1>1, <1>2

\* Every step of the system keeps the life of every request in step.
LEMMA LifeStep ==
    ASSUME Types, \A r \in Requests : Life(r), [Next]_vars
    PROVE  \A r \in Requests : Life(r)'
<1> SUFFICES ASSUME NEW r \in Requests PROVE Life(r)'
  OBVIOUS
<1>1. CASE UNCHANGED <<req[r], batch[r], job[r], rows[r], view[r]>>
  BY <1>1, LifeSame
<1>2. ASSUME NEW q \in Requests, q # r,
             \/ WorkerStart(q) \/ BatchReturns(q) \/ LogDone(q)
             \/ \E v \in {"scored", "failed"} : PairDecided(q, v)
             \/ \E w \in Replicas : Refuse(q, w) \/ SubmitSync(q, w) \/ SubmitAsync(q, w)
                                       \/ Poll(q, w)
      PROVE  UNCHANGED <<req[r], batch[r], job[r], rows[r], view[r]>>
  BY <1>2 DEF WorkerStart, StartBatch, BatchReturns, LogDone, PairDecided, Refuse,
              SubmitSync, SubmitAsync, Poll, Types, RequestTypes
<1>3. CASE UNCHANGED <<req, batch, job, rows, view>>
  BY <1>1, <1>3
<1>4. QED
  BY <1>1, <1>2, <1>3, WorkerStartLife, PairDecidedLife, BatchReturnsLife, LogDoneLife,
     RefuseLife, SubmitSyncLife, SubmitAsyncLife, PollLife, CrashLife, StopLife
     DEF Next, vars, Tick, Drain, Boot

----------------------------------------------------------------------------
(* What the stores hold *)

\* What the lazy sweep leaves in a store: what is stored and not expired.
LEMMA SweptMembers ==
    ASSUME NEW r \in Requests, NEW w \in Replicas
    PROVE  r \in Swept(w) <=> r \in store[w] /\ ~Expired(r)
  BY DEF Swept

\* A step that changes no store, keeps where, when and as what r was accepted
\* and ends no process keeps the stores in step with r.
LEMMA MemorySame ==
    ASSUME Types, NEW r \in Requests, Memory(r), epoch' = epoch, clock' = clock,
           req'[r].at = "idle" <=> req[r].at = "idle",
           Accepted(r)' <=> Accepted(r),
           req'[r].on = req[r].on, req'[r].born = req[r].born,
           job'[r].created = job[r].created,
           \A w \in Replicas : /\ r \in store'[w] => r \in store[w]
                               /\ r \in store[w] /\ ~Expired(r) => r \in store'[w]
    PROVE  Memory(r)'
<1>1. req[r].on \in Replicas
  BY DEF Types, RequestTypes, ReqType
<1>2. Forgotten(r)' = Forgotten(r) /\ Expired(r)' = Expired(r)
  BY DEF Forgotten, Expired
<1>3. QED
  BY <1>1, <1>2 DEF Memory

\* Every step of the system keeps the stores in step with the requests.
LEMMA MemoryStep ==
    ASSUME Types, \A r \in Requests : Life(r) /\ Memory(r), [Next]_vars
    PROVE  \A r \in Requests : Memory(r)'
<1> SUFFICES ASSUME NEW r \in Requests PROVE Memory(r)'
  OBVIOUS
<1>0. /\ Memory(r) /\ JobInStep(r)
      /\ req[r].on \in Replicas /\ req[r].born \in Nat
      /\ epoch \in [Replicas -> 0..MaxOutages] /\ store \in [Replicas -> SUBSET Requests]
      /\ req[r].at = "idle" => ~Accepted(r) /\ \A w \in Replicas : r \notin store[w]
  BY DEF Life, Memory, JobInStep, Accepted, Types, RequestTypes, ServerTypes, ReqType
<1>1. CASE Tick
  <2>1. Expired(r) => Expired(r)'
    BY <1>1 DEF Tick, Expired, Types, RequestTypes, ServerTypes, JobType
  <2>2. Forgotten(r)' = Forgotten(r) /\ Accepted(r)' = Accepted(r)
    BY <1>1 DEF Tick, Forgotten, Accepted
  <2>3. QED
    BY <1>0, <1>1, <2>1, <2>2 DEF Tick, Memory
<1>2. ASSUME NEW w \in Replicas, Crash(w) \/ Stop(w) PROVE Memory(r)'
  <2>1. /\ epoch'[w] = epoch[w] + 1 /\ store'[w] = {} /\ clock' = clock /\ job' = job
        /\ \A v \in Replicas \ {w} : epoch'[v] = epoch[v] /\ store'[v] = store[v]
    BY <1>0, <1>2 DEF Crash, Stop, MemoryLost
  <2>2. /\ req'[r].on = req[r].on /\ req'[r].born = req[r].born
        /\ Accepted(r)' = Accepted(r)
        /\ req'[r].at # "idle" => req[r].at # "idle"
    <3>1. req'[r] = IF r \in ActiveOn(w) THEN [req[r] EXCEPT !.at = "lost"] ELSE req[r]
      BY <1>2 DEF Crash, Stop
    <3>2. r \in ActiveOn(w) => req[r].at # "idle"
      BY DEF ActiveOn, Active
    <3>3. req[r] \in ReqType
      BY DEF Types, RequestTypes
    <3>4. QED
      BY <3>1, <3>2, <3>3 DEF Accepted, ReqType
  <2>3. epoch[w] \in Nat /\ epoch[req[r].on] \in Nat
    BY <1>0
  <2>4. CASE req[r].on = w
    <3>1. req[r].at # "idle" => Forgotten(r)' /\ req'[r].born <= epoch'[req'[r].on]
      BY <1>0, <2>1, <2>2, <2>3, <2>4 DEF Memory, Forgotten
    <3>2. \A v \in Replicas : r \notin store'[v]
      BY <1>0, <2>1, <2>4 DEF Memory
    <3>3. QED
      BY <1>0, <2>2, <3>1, <3>2 DEF Memory
  <2>5. CASE req[r].on # w
    <3>1. Forgotten(r)' = Forgotten(r) /\ Expired(r)' = Expired(r)
      BY <1>0, <2>1, <2>2, <2>5 DEF Forgotten, Expired
    <3>2. \A v \in Replicas : r \in store'[v] => r \in store[v]
      BY <2>1
    <3>3. QED
      BY <1>0, <2>1, <2>2, <2>5, <3>1, <3>2 DEF Memory
  <2>6. QED
    BY <2>4, <2>5
<1>3. ASSUME NEW w \in Replicas, Refuse(r, w) \/ SubmitSync(r, w) PROVE Memory(r)'
  <2>1. /\ req'[r].on = w /\ req'[r].born = epoch[w] /\ ~Accepted(r)'
        /\ epoch' = epoch /\ store' = store /\ req[r].at = "idle"
    BY <1>3 DEF Refuse, SubmitSync, Accepted, Types, RequestTypes, ReqType
  <2>2. QED
    BY <1>0, <2>1 DEF Memory
<1>4. ASSUME NEW w \in Replicas, SubmitAsync(r, w) PROVE Memory(r)'
  <2>1. /\ req'[r].on = w /\ req'[r].born = epoch[w] /\ Accepted(r)'
        /\ epoch' = epoch /\ req[r].at = "idle" /\ r \in store'[w]
        /\ \A v \in Replicas \ {w} : store'[v] = store[v]
    BY <1>0, <1>4 DEF SubmitAsync, Accepted, Types, RequestTypes, ReqType
  <2>2. ~Forgotten(r)'
    BY <1>0, <2>1 DEF Forgotten
  <2>3. QED
    BY <1>0, <2>1, <2>2 DEF Memory
<1>5. ASSUME NEW w \in Replicas, NEW q \in Requests \ {r}, SubmitAsync(q, w) PROVE Memory(r)'
  <2>1. \A v \in Replicas : /\ r \in store'[v] => r \in store[v]
                            /\ r \in store[v] /\ ~Expired(r) => r \in store'[v]
    BY <1>0, <1>5, SweptMembers DEF SubmitAsync
  <2>2. req'[r] = req[r] /\ job'[r] = job[r] /\ epoch' = epoch /\ clock' = clock
    BY <1>5 DEF SubmitAsync, Types, RequestTypes
  <2>3. QED
    BY <1>0, <2>1, <2>2, MemorySame DEF Accepted
<1>6. ASSUME NEW w \in Replicas, NEW q \in Requests, Poll(q, w) PROVE Memory(r)'
  <2>1. \A v \in Replicas : /\ r \in store'[v] => r \in store[v]
                            /\ r \in store[v] /\ ~Expired(r) => r \in store'[v]
    BY <1>0, <1>6, SweptMembers DEF Poll
  <2>2. req' = req /\ job' = job /\ epoch' = epoch /\ clock' = clock
    BY <1>6 DEF Poll
  <2>3. QED
    BY <1>0, <2>1, <2>2, MemorySame DEF Accepted
<1>7. ASSUME \/ WorkerStart(r) \/ BatchReturns(r) \/ LogDone(r)
             \/ \E v \in {"scored", "failed"} : PairDecided(r, v)
      PROVE  Memory(r)'
  <2>1. /\ epoch' = epoch /\ clock' = clock /\ store' = store
        /\ req[r].at # "idle" /\ req'[r].at # "idle"
        /\ req'[r].on = req[r].on /\ req'[r].born = req[r].born
        /\ job'[r].created = job[r].created
    BY <1>7 DEF WorkerStart, StageAfterStart, BatchReturns, LogDone, PairDecided,
                Types, RequestTypes, ReqType, JobType
  <2>2. Accepted(r)' <=> Accepted(r)
    BY <1>0, <1>7 DEF WorkerStart, BatchReturns, LogDone, PairDecided, Accepted, JobInStep,
                Types, RequestTypes, ReqType
  <2>3. QED
    BY <1>0, <2>1, <2>2, MemorySame
<1>8. ASSUME UNCHANGED <<epoch, clock, store, req[r], job[r]>> PROVE Memory(r)'
  BY <1>0, <1>8, MemorySame DEF Accepted
<1>9. ASSUME NEW q \in Requests \ {r},
             \/ WorkerStart(q) \/ BatchReturns(q) \/ LogDone(q)
             \/ \E v \in {"scored", "failed"} : PairDecided(q, v)
             \/ \E w \in Replicas : Refuse(q, w) \/ SubmitSync(q, w)
      PROVE  UNCHANGED <<epoch, clock, store, req[r], job[r]>>
  BY <1>9 DEF WorkerStart, BatchReturns, LogDone, PairDecided, Refuse, SubmitSync,
              Types, RequestTypes
<1>10. QED
  BY <1>1, <1>2, <1>3, <1>4, <1>5, <1>6, <1>7, <1>8, <1>9 DEF Next, vars, Drain, Boot

----------------------------------------------------------------------------
(* The invariant *)

\* No request is submitted and no store has a job at first.
LEMMA InvInit == Init => Inv
<1> SUFFICES ASSUME Init PROVE Inv
  OBVIOUS
<1>1. AnyReplica \in Replicas
  BY DEF AnyReplica
<1>2. ServerTypes
  BY DEF Init, ServerTypes
<1>3. RequestTypes
  BY <1>1 DEF Init, RequestTypes, ReqType, BatchType, JobType, RowType, ViewType,
              Stages, Statuses, NoView
<1>4. ASSUME NEW r \in Requests PROVE Life(r) /\ Memory(r)
  BY <1>1 DEF Init, Life, BatchInStep, JobInStep, RowsInStep, ViewInStep, SeenInStep, Memory,
              Decided, Accepted, NoView
<1>5. QED
  BY <1>2, <1>3, <1>4 DEF Inv, Types

\* Inv is kept by every step.
LEMMA InvStep == Inv /\ [Next]_vars => Inv'
<1> SUFFICES ASSUME Inv, [Next]_vars PROVE Inv'
  OBVIOUS
<1>1. Types'
  BY ServerTypesStep, RequestTypesStep DEF Inv, Types, Life
<1>2. \A r \in Requests : Life(r)' /\ Memory(r)'
  BY LifeStep, MemoryStep DEF Inv
<1>3. QED
  BY <1>1, <1>2 DEF Inv

\* Inv is inductive, so it always holds.
LEMMA InvHolds == Spec => []Inv
  BY InvInit, InvStep, PTL DEF Spec

\* The types hold for any requests, replicas, TTL and bounds.
THEOREM TypeCorrect == Spec => []TypeOK
<1>1. Inv => TypeOK
  <2> SUFFICES ASSUME Types PROVE TypeOK
    BY DEF Inv
  <2>1. ASSUME NEW r \in Requests, NEW i \in 1..Len(rows[r])
        PROVE  rows[r][i] \in RowType
    BY DEF Types, RequestTypes
  <2>2. QED
    BY <2>1 DEF Types, ServerTypes, RequestTypes, TypeOK, ReqType, BatchType, JobType,
                RowType, ViewType
<1>2. QED
  BY InvHolds, <1>1, PTL

----------------------------------------------------------------------------
(* Safety *)

\* On any number of replicas, the process that accepted a job holds it for the
\* whole TTL while it lives.
THEOREM StoredSafe == Spec => []StoredWhileFresh
<1>1. Inv => StoredWhileFresh
  BY DEF Inv, Memory, StoredWhileFresh
<1>2. QED
  BY InvHolds, <1>1, PTL

\* What an accepted job shows ranks between queued and final, and only a final
\* answer ranks highest.
LEMMA ShownRank ==
    ASSUME Inv, NEW r \in Requests, Accepted(r)
    PROVE  /\ Rank(Shown(r)) \in 1..(3 + NumPairs)
           /\ job[r].status = "completed" =>
                 Shown(r) = Seen("completed", NumPairs, batch[r].scored, batch[r].failed)
           /\ job[r].status = "failed" => Shown(r) = Seen("failed", 0, 0, 0)
           /\ job[r].status \in {"queued", "running"} => Rank(Shown(r)) < 3 + NumPairs
<1>1. BatchInStep(r) /\ JobInStep(r) /\ job[r].status \in Statuses /\ job[r].done \in 0..NumPairs
  BY DEF Inv, Life, Types, RequestTypes, JobType
<1>2. job[r].status \in {"queued", "running", "completed", "failed"}
  BY <1>1 DEF JobInStep, Statuses
<1>3. CASE job[r].status = "completed"
  <2>1. Shown(r) = Seen("completed", NumPairs, batch[r].scored, batch[r].failed)
    BY <1>1, <1>3 DEF JobInStep, BatchInStep, Accepted, Response, Shown, Snapshot, Seen
  <2>2. QED
    BY <1>3, <2>1, Ranks
<1>4. CASE job[r].status = "failed"
  <2>1. job[r].done = 0
    BY <1>1, <1>4 DEF JobInStep, BatchInStep, Accepted
  <2>2. Shown(r) = Seen("failed", 0, 0, 0)
    BY <1>4, <2>1 DEF Shown, Snapshot, NoView, Seen
  <2>3. QED
    BY <1>4, <2>2, Ranks
<1>5. CASE job[r].status \in {"queued", "running"}
  <2>1. Shown(r) = Seen(job[r].status, job[r].done, 0, 0)
    BY <1>5 DEF Shown, Snapshot, NoView, Seen
  <2>2. QED
    BY <1>1, <1>5, <2>1, Ranks
<1>6. QED
  BY <1>2, <1>3, <1>4, <1>5

\* What a client saw as the final outcome of a job is what the job still shows.
LEMMA FinalView ==
    ASSUME Inv, NEW r \in Requests, NEW w \in Replicas,
           view[r][w].status \in {"completed", "failed"}
    PROVE  Accepted(r) /\ view[r][w] = Shown(r) /\ job[r].status = view[r][w].status
<1>1. Accepted(r) /\ SeenInStep(r, view[r][w])
  BY DEF Inv, Life, ViewInStep, SeenInStep
<1>2. Rank(view[r][w]) = 3 + NumPairs
  BY DEF Rank
<1>3. view[r][w] = Shown(r)
  BY <1>1, <1>2, ShownRank DEF SeenInStep
<1>4. QED
  BY <1>1, <1>3 DEF Shown, Snapshot, NoView

\* A poll that said "completed" carried a verdict for every pair.
THEOREM CompleteSafe == Spec => []PolledResultComplete
<1>1. Inv => PolledResultComplete
  <2> SUFFICES ASSUME Inv, NEW r \in Requests, NEW w \in Replicas,
                      view[r][w].status = "completed"
               PROVE  /\ view[r][w].matches + view[r][w].errors = NumPairs
                      /\ view[r][w].done = NumPairs
    BY DEF PolledResultComplete
  <2>1. JobInStep(r) /\ BatchInStep(r)
    BY DEF Inv, Life
  <2>2. view[r][w] = Seen("completed", NumPairs, batch[r].scored, batch[r].failed)
        /\ job[r].status = "completed"
    BY FinalView, ShownRank
  <2>3. batch[r].scored + batch[r].failed = NumPairs
    BY <2>1, <2>2 DEF JobInStep, BatchInStep, Decided
  <2>4. QED
    BY <2>2, <2>3 DEF Seen
<1>2. QED
  BY InvHolds, <1>1, PTL

\* The usage log has one row at most for a request, and it says what the client
\* was told, at whichever process; or what befell a worker nobody heard of again.
THEOREM UsageSafe == Spec => []UsageAgreesWithAnswer
<1>1. Inv => UsageAgreesWithAnswer
  <2> SUFFICES ASSUME Inv, NEW r \in Requests
               PROVE  /\ Len(rows[r]) <= 1
                      /\ \A i \in 1..Len(rows[r]), w \in Replicas :
                            /\ view[r][w].status = "completed" =>
                                  rows[r][i] = [status |-> "ok", pairsFailed |-> view[r][w].errors]
                            /\ view[r][w].status = "failed" => rows[r][i].status = "error"
                            /\ req[r].answer = "200" =>
                                  rows[r][i] = [status |-> "ok", pairsFailed |-> batch[r].failed]
                            /\ req[r].answer = "500" => rows[r][i].status = "error"
                            /\ rows[r][i].status = "ok" =>
                                  \/ batch[r].phase = "returned"
                                  \/ batch[r].phase = "cancelled" /\ req[r].at = "lost"
    BY DEF UsageAgreesWithAnswer
  <2>1. RowsInStep(r) /\ JobInStep(r) /\ BatchInStep(r)
    BY DEF Inv, Life
  <2>2. Len(rows[r]) <= 1
        /\ \A i \in 1..Len(rows[r]) :
              /\ rows[r][i] = UsageRow(r) /\ req[r].at \in {"ended", "lost"}
              /\ batch[r].phase \in {"returned", "raised", "cancelled"}
    <3>1. CASE rows[r] = <<>>
      BY <3>1
    <3>2. CASE rows[r] # <<>>
      <4>1. /\ rows[r] = <<UsageRow(r)>> /\ req[r].at \in {"ended", "lost"}
            /\ batch[r].phase \in {"returned", "raised", "cancelled"}
        BY <2>1, <3>2 DEF RowsInStep
      <4>2. QED
        BY <4>1
    <3>3. QED
      BY <3>1, <3>2
  <2>3. ASSUME NEW w \in Replicas, view[r][w].status = "completed"
        PROVE  UsageRow(r) = [status |-> "ok", pairsFailed |-> view[r][w].errors]
    <3>1. Accepted(r) /\ job[r].status = "completed" /\ view[r][w] = Shown(r)
      BY <2>3, FinalView
    <3>2. view[r][w] = Seen("completed", NumPairs, batch[r].scored, batch[r].failed)
      BY <3>1, ShownRank
    <3>3. QED
      BY <2>1, <3>1, <3>2 DEF JobInStep, UsageRow, Seen
  <2>4. ASSUME NEW w \in Replicas, view[r][w].status = "failed"
        PROVE  UsageRow(r).status = "error"
    BY <2>1, <2>4, FinalView DEF JobInStep, UsageRow
  <2>5. /\ req[r].answer = "200" =>
              UsageRow(r) = [status |-> "ok", pairsFailed |-> batch[r].failed]
        /\ req[r].answer = "500" => UsageRow(r).status = "error"
    BY <2>1 DEF RowsInStep, UsageRow
  <2>6. ASSUME UsageRow(r).status = "ok", batch[r].phase \in {"returned", "raised", "cancelled"},
               req[r].at \in {"ended", "lost"}
        PROVE  \/ batch[r].phase = "returned"
               \/ batch[r].phase = "cancelled" /\ req[r].at = "lost"
    BY <2>1, <2>6 DEF UsageRow, BatchInStep
  <2>7. QED
    BY <2>2, <2>3, <2>4, <2>5, <2>6
<1>2. QED
  BY InvHolds, <1>1, PTL

----------------------------------------------------------------------------
(* 404 means gone or elsewhere, and polls never go back *)

\* Time and process generations only grow.
LEMMA TimePasses ==
    ASSUME Inv, [Next]_vars
    PROVE  /\ clock \in Nat /\ clock' \in Nat /\ clock <= clock'
           /\ \A w \in Replicas : epoch[w] \in Nat /\ epoch'[w] \in Nat /\ epoch[w] <= epoch'[w]
<1>1. ServerTypes /\ ServerTypes'
  BY ServerTypesStep DEF Inv, Types
<1>2. ASSUME NEW w \in Replicas, MemoryLost(w), NEW v \in Replicas
      PROVE  epoch'[v] \in {epoch[v], epoch[v] + 1}
  BY <1>1, <1>2 DEF ServerTypes, MemoryLost
<1>3. /\ clock' \in {clock, clock + 1}
      /\ epoch' = epoch \/ \E w \in Replicas : MemoryLost(w)
  BY DEF Next, vars, Tick, Crash, Drain, Stop, Boot, WorkerStart, PairDecided, BatchReturns,
         LogDone, Refuse, SubmitSync, SubmitAsync, Poll
<1>4. QED
  BY <1>1, <1>2, <1>3 DEF ServerTypes

\* What a client saw at a process changes only when it polls there.
LEMMA OnlyPollsShow ==
    ASSUME Types, [Next]_vars, NEW r \in Requests, NEW w \in Replicas,
           view'[r][w] # view[r][w]
    PROVE  Poll(r, w)
<1>1. view' # view
  OBVIOUS
<1>2. PICK q \in Requests, v \in Replicas : Poll(q, v)
  BY <1>1 DEF Next, vars, Tick, Crash, Drain, Stop, Boot, WorkerStart, PairDecided,
              BatchReturns, LogDone, Refuse, SubmitSync, SubmitAsync
<1>3. q = r /\ v = w
  BY <1>2 DEF Poll, Types, RequestTypes
<1>4. QED
  BY <1>2, <1>3

\* An accepted request keeps its process, its generation and its age.
LEMMA OnceAccepted ==
    ASSUME Types, [Next]_vars, NEW r \in Requests, req[r].at # "idle"
    PROVE  /\ req'[r].on = req[r].on /\ req'[r].born = req[r].born
           /\ req'[r].at # "idle" /\ job'[r].created = job[r].created
<1>0. req[r] \in ReqType /\ job[r] \in JobType
  BY DEF Types, RequestTypes
<1>1. ASSUME NEW w \in Replicas, Crash(w) \/ Stop(w)
      PROVE  req'[r] \in {req[r], [req[r] EXCEPT !.at = "lost"]} /\ job' = job
  BY <1>1 DEF Crash, Stop
<1>2. ASSUME NEW q \in Requests,
             \/ WorkerStart(q) \/ BatchReturns(q) \/ LogDone(q)
             \/ \E v \in {"scored", "failed"} : PairDecided(q, v)
      PROVE  /\ req'[r].on = req[r].on /\ req'[r].born = req[r].born
             /\ req'[r].at # "idle" /\ job'[r].created = job[r].created
  <2>1. CASE q = r
    BY <1>0, <1>2, <2>1 DEF WorkerStart, StageAfterStart, BatchReturns, LogDone,
                            PairDecided, Types, RequestTypes, ReqType, JobType
  <2>2. CASE q # r
    <3>1. req'[r] = req[r] /\ job'[r] = job[r]
      BY <1>2, <2>2 DEF WorkerStart, BatchReturns, LogDone, PairDecided, Types, RequestTypes
    <3>2. QED
      BY <3>1
  <2>3. QED
    BY <2>1, <2>2
<1>3. ASSUME NEW q \in Requests, NEW w \in Replicas,
             Refuse(q, w) \/ SubmitSync(q, w) \/ SubmitAsync(q, w) \/ Poll(q, w)
      PROVE  req'[r] = req[r] /\ job'[r] = job[r]
  BY <1>3 DEF Refuse, SubmitSync, SubmitAsync, Poll, Types, RequestTypes
<1>4. CASE UNCHANGED <<req, job>>
  BY <1>4
<1>5. QED
  BY <1>0, <1>1, <1>2, <1>3, <1>4 DEF Next, vars, Tick, Drain, Boot, ReqType

\* At the process that accepted it a job that is rightly gone stays gone, a poll
\* that finds nothing there is right, and elsewhere it finds nothing.
LEMMA GoneStays ==
    ASSUME Inv, [Next]_vars, NotFoundMeansGone
    PROVE  NotFoundMeansGone'
<1> SUFFICES ASSUME NEW r \in Requests, NEW w \in Replicas
             PROVE  /\ view'[r][w].status = "404" => w # req'[r].on \/ Expired(r)' \/ Forgotten(r)'
                    /\ view'[r][w].status \notin {"none", "404"} => w = req'[r].on
  BY DEF NotFoundMeansGone
<1>0. /\ Types /\ Memory(r) /\ Life(r) /\ Inv'
      /\ req[r] \in ReqType /\ req[r].on \in Replicas /\ req[r].born \in Nat
      /\ job[r].created \in Nat /\ TTL \in Nat
  BY InvStep DEF Inv, Types, RequestTypes, ReqType, JobType
<1>1. CASE view'[r][w] = view[r][w]
  <2> SUFFICES ASSUME view[r][w].status # "none"
               PROVE  /\ view[r][w].status = "404" =>
                            w # req'[r].on \/ Expired(r)' \/ Forgotten(r)'
                      /\ view[r][w].status \notin {"none", "404"} => w = req'[r].on
    BY <1>1
  <2>1. /\ view[r][w].status = "404" => w # req[r].on \/ Expired(r) \/ Forgotten(r)
        /\ view[r][w].status \notin {"none", "404"} => w = req[r].on
    BY DEF NotFoundMeansGone
  <2>2. Accepted(r) /\ req[r].at # "idle"
    BY <1>0 DEF Life, ViewInStep, SeenInStep, JobInStep, Accepted
  <2>3. req'[r].on = req[r].on /\ req'[r].born = req[r].born /\ job'[r].created = job[r].created
    BY <1>0, <2>2, OnceAccepted
  <2>4. Expired(r) => Expired(r)'
    BY <1>0, <2>3, TimePasses DEF Expired
  <2>5. Forgotten(r) => Forgotten(r)'
    BY <1>0, <2>3, TimePasses DEF Forgotten
  <2>6. QED
    BY <2>1, <2>3, <2>4, <2>5
<1>2. CASE view'[r][w] # view[r][w]
  <2>1. Poll(r, w)
    BY <1>0, <1>2, OnlyPollsShow
  <2>2. /\ view'[r][w] = Snapshot(r, r \in Swept(w)) /\ req' = req
        /\ Expired(r)' = Expired(r) /\ Forgotten(r)' = Forgotten(r)
    BY <1>0, <2>1 DEF Poll, Expired, Forgotten, Types, RequestTypes
  <2>3. CASE r \in Swept(w)
    <3>1. w = req[r].on
      BY <1>0, <2>3, SweptMembers DEF Memory
    <3>2. view'[r][w].status # "404"
      <4>1. job[r].status \in Statuses
        BY <1>0 DEF Types, RequestTypes, JobType
      <4>2. view'[r][w].status = job[r].status
        BY <2>2, <2>3 DEF Snapshot, NoView
      <4>3. QED
        BY <4>1, <4>2 DEF Statuses
    <3>3. QED
      BY <2>2, <3>1, <3>2
  <2>4. CASE r \notin Swept(w)
    <3>1. view'[r][w].status = "404"
      BY <2>2, <2>4 DEF Snapshot, NoView
    <3>2. w # req[r].on \/ Expired(r) \/ Forgotten(r)
      BY <1>0, <2>1, <2>4, SweptMembers DEF Memory, Poll
    <3>3. QED
      BY <2>2, <3>1, <3>2
  <2>5. QED
    BY <2>3, <2>4
<1>3. QED
  BY <1>1, <1>2

\* On any number of replicas, a 404 for an accepted job means expired, lost, or
\* asked at the wrong process, which never answers anything else.
THEOREM NotFoundSafe == Spec => []NotFoundMeansGone
<1>1. Init => NotFoundMeansGone
  BY DEF Init, NotFoundMeansGone, NoView
<1>2. Inv /\ NotFoundMeansGone /\ [Next]_vars => NotFoundMeansGone'
  BY GoneStays
<1>3. QED
  BY InvHolds, <1>1, <1>2, PTL DEF Spec

\* The polls of a job that one process answers never go back.
THEOREM PollsSafe == Spec => PollsNeverRegress
<1> DEFINE Step == \A r \in Requests, w \in Replicas :
                      \/ view'[r][w] = view[r][w]
                      \/ Rank(view'[r][w]) > Rank(view[r][w])
<1>1. Inv /\ NotFoundMeansGone /\ [Next]_vars => [Step]_view
  <2> SUFFICES ASSUME Inv, NotFoundMeansGone, [Next]_vars,
                      NEW r \in Requests, NEW w \in Replicas, view'[r][w] # view[r][w]
               PROVE  Rank(view'[r][w]) > Rank(view[r][w])
    OBVIOUS
  <2>0. Types /\ Memory(r) /\ SeenInStep(r, view[r][w]) /\ view[r][w] \in ViewType
    BY DEF Inv, Life, ViewInStep, Types, RequestTypes
  <2>1. Poll(r, w)
    BY <2>0, OnlyPollsShow
  <2>2. Accepted(r) /\ view'[r][w] = Snapshot(r, r \in Swept(w))
    BY <2>0, <2>1 DEF Poll, Types, RequestTypes
  <2>3. Rank(Shown(r)) \in 1..(3 + NumPairs) /\ Rank(view[r][w]) \in Nat
    BY <2>0, <2>2, ShownRank, RankType
  <2>4. view[r][w].status = "none" => Rank(view[r][w]) = 0
    BY DEF Rank
  <2>5. CASE r \in Swept(w)
    <3>1. view'[r][w] = Shown(r)
      BY <2>2, <2>5 DEF Shown, Snapshot
    <3>2. view[r][w].status # "404"
      BY <2>0, <2>5, SweptMembers DEF NotFoundMeansGone, Memory
    <3>3. view[r][w].status # "none" => Rank(view[r][w]) < Rank(Shown(r))
      BY <2>0, <3>1, <3>2 DEF SeenInStep
    <3>4. QED
      BY <2>3, <2>4, <3>1, <3>3
  <2>6. CASE r \notin Swept(w)
    <3>1. view'[r][w] = Gone /\ Rank(Gone) = 4 + NumPairs
      BY <2>2, <2>6 DEF Snapshot, NoView, Gone, Seen, Rank
    <3>2. view[r][w].status # "404"
      BY <2>0, <3>1 DEF SeenInStep
    <3>3. view[r][w].status # "none" => Rank(view[r][w]) <= Rank(Shown(r))
      BY <2>0, <2>3, <3>2 DEF SeenInStep
    <3>4. QED
      BY <2>3, <2>4, <3>1, <3>3
  <2>7. QED
    BY <2>5, <2>6
<1>2. QED
  BY InvHolds, NotFoundSafe, <1>1, PTL DEF Spec, PollsNeverRegress

----------------------------------------------------------------------------
(* The router keeps the contract of each batch *)

\* What BatchContract calls reported is the number of verdicts.
LEMMA ReportedIsDecided ==
    ASSUME Inv, NEW r \in Requests
    PROVE  (IF req[r].kind = "match_async" THEN job[r].done ELSE Decided(r)) = Decided(r)
  BY DEF Inv, Life, JobInStep

\* Whatever a step of the router does to the batch of r is a step, or a stutter,
\* of BatchContract.
LEMMA BatchStep ==
    ASSUME Inv, [Next]_vars, NEW r \in Requests
    PROVE  \/ batch'[r] = batch[r]
           \/ /\ batch[r].phase = "new" /\ batch'[r].phase \in {"open", "raised"}
              /\ batch'[r].scored = batch[r].scored /\ batch'[r].failed = batch[r].failed
           \/ /\ batch[r].phase = "open" /\ batch'[r].phase = "open"
              /\ Decided(r) < NumPairs
              /\ \/ /\ batch'[r].scored = batch[r].scored + 1
                    /\ batch'[r].failed = batch[r].failed
                 \/ /\ batch'[r].scored = batch[r].scored
                    /\ batch'[r].failed = batch[r].failed + 1
           \/ /\ batch[r].phase = "open"
              /\ \/ batch'[r].phase = "returned" /\ Decided(r) = NumPairs
                 \/ batch'[r].phase = "cancelled"
              /\ batch'[r].scored = batch[r].scored /\ batch'[r].failed = batch[r].failed
<1>0. /\ BatchInStep(r) /\ batch[r] \in BatchType
      /\ batch \in [Requests -> BatchType]
  BY DEF Inv, Life, Types, RequestTypes
<1> DEFINE Starts == /\ batch[r].phase = "new" /\ batch'[r].phase \in {"open", "raised"}
                     /\ batch'[r].scored = batch[r].scored /\ batch'[r].failed = batch[r].failed
<1>1. ASSUME NEW q \in Requests,
             WorkerStart(q) \/ \E w \in Replicas : SubmitSync(q, w)
      PROVE  batch'[r] = batch[r] \/ Starts
  <2>1. CASE q = r
    <3>1. batch[r].phase = "new"
      BY <1>0, <1>1, <2>1 DEF WorkerStart, SubmitSync, BatchInStep
    <3>2. PICK p \in {"open", "raised"} : batch' = [batch EXCEPT ![r].phase = p]
      BY <1>1, <2>1 DEF WorkerStart, SubmitSync, StartBatch
    <3>3. QED
      BY <1>0, <3>1, <3>2 DEF BatchType
  <2>2. CASE q # r
    BY <1>0, <1>1, <2>2 DEF WorkerStart, SubmitSync, StartBatch
  <2>3. QED
    BY <2>1, <2>2
<1>2. ASSUME NEW q \in Requests, q # r,
             BatchReturns(q) \/ \E v \in {"scored", "failed"} : PairDecided(q, v)
      PROVE  batch'[r] = batch[r]
  BY <1>0, <1>2 DEF BatchReturns, PairDecided
<1>3. ASSUME BatchReturns(r)
      PROVE  /\ batch[r].phase = "open" /\ Decided(r) = NumPairs /\ batch'[r].phase = "returned"
             /\ batch'[r].scored = batch[r].scored /\ batch'[r].failed = batch[r].failed
  BY <1>0, <1>3 DEF BatchReturns, BatchInStep, BatchType
<1>4. ASSUME NEW v \in {"scored", "failed"}, PairDecided(r, v)
      PROVE  /\ batch[r].phase = "open" /\ batch'[r].phase = "open" /\ Decided(r) < NumPairs
             /\ \/ batch'[r].scored = batch[r].scored + 1 /\ batch'[r].failed = batch[r].failed
                \/ batch'[r].scored = batch[r].scored /\ batch'[r].failed = batch[r].failed + 1
  <2>1. batch[r].phase = "open" /\ Decided(r) < NumPairs
        /\ batch'[r] = [batch[r] EXCEPT ![v] = batch[r][v] + 1]
    BY <1>0, <1>4 DEF PairDecided, BatchInStep
  <2>2. CASE v = "scored"
    BY <1>0, <2>1, <2>2 DEF BatchType
  <2>3. CASE v = "failed"
    BY <1>0, <2>1, <2>3 DEF BatchType
  <2>4. QED
    BY <2>1, <2>2, <2>3
<1>5. ASSUME NEW w \in Replicas, Stop(w)
      PROVE  \/ batch'[r] = batch[r]
             \/ /\ batch[r].phase = "open" /\ batch'[r].phase = "cancelled"
                /\ batch'[r].scored = batch[r].scored /\ batch'[r].failed = batch[r].failed
  <2>1. batch'[r] = IF r \in ActiveOn(w) /\ req[r].at = "scoring"
                    THEN [batch[r] EXCEPT !.phase = "cancelled"] ELSE batch[r]
    BY <1>5 DEF Stop
  <2>2. QED
    BY <1>0, <2>1 DEF BatchInStep, BatchType
<1>6. CASE batch' = batch
  BY <1>6
<1>7. QED
  BY <1>1, <1>2, <1>3, <1>4, <1>5, <1>6
     DEF Next, vars, Tick, Crash, Drain, Boot, LogDone, Refuse, SubmitAsync, Poll

\* Every call of score_pairs, as the router makes it and reports its progress,
\* behaves as BatchContract says.
THEOREM ContractKept == Spec => EachBatchKeepsContract
<1> DEFINE Step == \A r \in Requests : Batch(r)!Next \/ UNCHANGED Batch(r)!vars
<1>1. Init => \A r \in Requests : Batch(r)!Init
  <2> SUFFICES ASSUME Init, NEW r \in Requests PROVE Batch(r)!Init
    OBVIOUS
  <2>1. /\ batch[r].phase = "new" /\ batch[r].scored = 0 /\ batch[r].failed = 0
        /\ job[r].done = 0
    BY DEF Init
  <2>2. QED
    BY <2>1 DEF Batch!Init, Decided
<1>2. Inv /\ Inv' /\ [Next]_vars => [Step]_vars
  <2> SUFFICES ASSUME Inv, Inv', [Next]_vars, NEW r \in Requests
               PROVE  Batch(r)!Next \/ UNCHANGED Batch(r)!vars
    OBVIOUS
  <2>1. /\ (IF req[r].kind = "match_async" THEN job[r].done ELSE Decided(r)) = Decided(r)
        /\ (IF req'[r].kind = "match_async" THEN job'[r].done ELSE Decided(r)')
              = batch'[r].scored + batch'[r].failed
    BY DEF Inv, Life, JobInStep, Decided
  <2>2. QED
    BY <2>1, BatchStep
       DEF Decided, Batch!Next, Batch!vars, Batch!Open, Batch!Refuse, Batch!Decide,
           Batch!Return, Batch!Abandon, Batch!Decided
<1>3. QED
  BY InvHolds, <1>1, <1>2, PTL DEF Spec, EachBatchKeepsContract
----------------------------------------------------------------------------
(* Requests only advance *)

\* What may become of a request in a step: nothing, or something that takes it
\* forward, keeps the answer it has, and writes no second row.
Advances(r) ==
    \/ UNCHANGED <<req[r], batch[r], rows[r]>>
    \/ /\ WorkLeft(r)' < WorkLeft(r) /\ WorkLeft(r)' <= WorkLeft(r)
       /\ req[r].answer # "none" => req'[r].answer = req[r].answer
       /\ rows[r] = <<>>

\* The work left of a request is a natural number, and some is left while a
\* step of its own, or the end of its process, may still change it.
LEMMA WorkLeftNat ==
    ASSUME Inv, NEW r \in Requests
    PROVE  /\ WorkLeft(r) \in Nat
           /\ Active(r) \/ req[r].at = "idle" => WorkLeft(r) > 0 /\ rows[r] = <<>>
<1>1. /\ BatchInStep(r) /\ RowsInStep(r) /\ Decided(r) \in Nat
      /\ req[r].at \in Stages
  BY DEF Inv, Life, Types, RequestTypes, ReqType, BatchType, Decided
<1>2. QED
  BY <1>1 DEF WorkLeft, BatchInStep, RowsInStep, Active, Stages

\* A request under way has had no answer yet, unless it is asynchronous.
LEMMA AnswerWaits ==
    ASSUME Inv, NEW r \in Requests, Active(r), req[r].answer # "none"
    PROVE  req[r].kind = "match_async"
  BY DEF Inv, Life, JobInStep, Active, Accepted

\* The request's own steps take it forward.
LEMMA OwnStepAdvances ==
    ASSUME Inv, NEW r \in Requests,
           \/ WorkerStart(r) \/ BatchReturns(r) \/ LogDone(r)
           \/ \E v \in {"scored", "failed"} : PairDecided(r, v)
           \/ \E w \in Replicas : Refuse(r, w) \/ SubmitSync(r, w) \/ SubmitAsync(r, w)
    PROVE  Advances(r)
<1>0. /\ req[r] \in ReqType /\ req \in [Requests -> ReqType]
      /\ batch[r] \in BatchType /\ batch \in [Requests -> BatchType]
      /\ BatchInStep(r) /\ JobInStep(r) /\ Decided(r) \in Nat /\ WorkLeft(r) \in Nat
      /\ NumPairs \in Nat
  BY WorkLeftNat DEF Inv, Life, Types, RequestTypes, BatchType, Decided
<1>1. CASE WorkerStart(r)
  <2>1. /\ req[r].at = "scheduled" /\ req'[r].at \in {"scoring", "logging"}
        /\ req'[r].answer = req[r].answer /\ Decided(r)' = Decided(r)
    BY <1>0, <1>1 DEF WorkerStart, StageAfterStart, StartBatch, ReqType, BatchType, Decided
  <2>2. WorkLeft(r) = NumPairs + 3 /\ WorkLeft(r)' \in {NumPairs + 2 - Decided(r), 1}
    BY <2>1 DEF WorkLeft
  <2>3. QED
    BY <1>0, <2>1, <2>2, WorkLeftNat DEF Advances, Active
<1>2. CASE BatchReturns(r)
  <2>1. /\ req[r].at = "scoring" /\ Decided(r) = NumPairs /\ req'[r].at = "logging"
        /\ req'[r].answer = req[r].answer
    BY <1>0, <1>2 DEF BatchReturns, ReqType
  <2>2. WorkLeft(r) = 2 /\ WorkLeft(r)' = 1
    BY <1>0, <2>1 DEF WorkLeft
  <2>3. QED
    BY <2>1, <2>2, WorkLeftNat DEF Advances, Active
<1>3. CASE LogDone(r)
  <2>1. /\ req[r].at = "logging" /\ req'[r].at = "ended"
        /\ req'[r].answer = IF req[r].kind = "match_async" THEN req[r].answer
                            ELSE IF batch[r].phase = "raised" THEN "500" ELSE "200"
    BY <1>0, <1>3 DEF LogDone, ReqType
  <2>2. req[r].answer # "none" => req[r].kind = "match_async"
    BY <2>1, AnswerWaits DEF Active
  <2>3. WorkLeft(r) = 1 /\ WorkLeft(r)' = 0
    BY <2>1 DEF WorkLeft
  <2>4. QED
    BY <2>1, <2>2, <2>3, WorkLeftNat DEF Advances, Active
<1>4. ASSUME NEW v \in {"scored", "failed"}, PairDecided(r, v) PROVE Advances(r)
  <2>1. req' = req /\ req[r].at = "scoring" /\ Decided(r) < NumPairs
    BY <1>4 DEF PairDecided
  <2>2. Decided(r)' = Decided(r) + 1
    BY <1>4, PairCounts DEF Inv
  <2>3. WorkLeft(r) = NumPairs + 2 - Decided(r) /\ WorkLeft(r)' = NumPairs + 2 - (Decided(r) + 1)
    BY <2>1, <2>2 DEF WorkLeft
  <2>4. QED
    BY <1>0, <2>1, <2>3, WorkLeftNat DEF Advances, Active
<1>5. ASSUME NEW w \in Replicas, Refuse(r, w) \/ SubmitSync(r, w) \/ SubmitAsync(r, w)
      PROVE  Advances(r)
  <2>1. /\ req[r].at = "idle" /\ req'[r].at \in {"refused", "scoring", "logging", "scheduled"}
        /\ Decided(r)' = Decided(r)
    <3>1. CASE Refuse(r, w)
      <4>1. batch' = batch /\ req[r].at = "idle" /\ req'[r].at = "refused"
        BY <3>1 DEF Refuse, Inv, Types, RequestTypes, ReqType
      <4>2. QED
        BY <4>1 DEF Decided
    <3>2. CASE SubmitAsync(r, w)
      <4>1. batch' = batch /\ req[r].at = "idle" /\ req'[r].at = "scheduled"
        BY <3>2 DEF SubmitAsync, Inv, Types, RequestTypes, ReqType
      <4>2. QED
        BY <4>1 DEF Decided
    <3>3. CASE SubmitSync(r, w)
      BY <1>0, <3>3 DEF SubmitSync, StageAfterStart, StartBatch, BatchType, Decided
    <3>4. QED
      BY <1>5, <3>1, <3>2, <3>3
  <2>2. req[r].answer = "none" /\ Decided(r) = 0
    BY <1>0, <2>1 DEF JobInStep, BatchInStep
  <2>3. WorkLeft(r) = NumPairs + 4
        /\ WorkLeft(r)' \in {0, 1, NumPairs + 2, NumPairs + 3}
    BY <1>0, <2>1, <2>2 DEF WorkLeft
  <2>4. QED
    BY <1>0, <2>1, <2>2, <2>3, WorkLeftNat DEF Advances
<1>6. QED
  BY <1>1, <1>2, <1>3, <1>4, <1>5

\* A request that is lost with its process has no work left.
LEMMA LostAdvances ==
    ASSUME Inv, NEW r \in Requests, NEW w \in Replicas, Crash(w) \/ Stop(w)
    PROVE  Advances(r)
<1>1. CASE r \notin ActiveOn(w)
  BY <1>1 DEF Crash, Stop, Advances
<1>2. CASE r \in ActiveOn(w)
  <2>1. req'[r].at = "lost" /\ req'[r].answer = req[r].answer /\ Active(r)
    BY <1>2 DEF Crash, Stop, ActiveOn, Inv, Types, RequestTypes, ReqType
  <2>2. WorkLeft(r)' = 0
    BY <2>1 DEF WorkLeft
  <2>3. QED
    BY <2>1, <2>2, WorkLeftNat DEF Advances
<1>3. QED
  BY <1>1, <1>2

\* Whatever befalls a request takes it forward, and no answer or row is revised.
THEOREM AdvanceSafe == Spec => RequestsOnlyAdvance
<1> DEFINE Step == \A r \in Requests :
                      /\ WorkLeft(r)' <= WorkLeft(r)
                      /\ req'[r] # req[r] \/ batch'[r] # batch[r] \/ rows'[r] # rows[r]
                            => WorkLeft(r)' < WorkLeft(r)
                      /\ req[r].answer # "none" => req'[r].answer = req[r].answer
                      /\ rows[r] # <<>> => rows'[r] = rows[r]
<1>1. ASSUME Inv, Next, NEW r \in Requests PROVE Advances(r)
  <2>1. ASSUME NEW q \in Requests, q # r,
               \/ WorkerStart(q) \/ BatchReturns(q) \/ LogDone(q)
               \/ \E v \in {"scored", "failed"} : PairDecided(q, v)
               \/ \E w \in Replicas : Refuse(q, w) \/ SubmitSync(q, w) \/ SubmitAsync(q, w)
        PROVE  UNCHANGED <<req[r], batch[r], rows[r]>>
    BY <1>1, <2>1 DEF WorkerStart, StartBatch, BatchReturns, LogDone, PairDecided, Refuse,
                      SubmitSync, SubmitAsync, Inv, Types, RequestTypes
  <2>2. ASSUME UNCHANGED <<req, batch, rows>> PROVE Advances(r)
    BY <2>2 DEF Advances
  <2>3. QED
    BY <1>1, <2>1, <2>2, OwnStepAdvances, LostAdvances
       DEF Next, Tick, Drain, Boot, Poll, Advances
<1>2. ASSUME Inv, Next PROVE Step
  <2> SUFFICES ASSUME NEW r \in Requests
               PROVE  /\ WorkLeft(r)' <= WorkLeft(r)
                      /\ req'[r] # req[r] \/ batch'[r] # batch[r] \/ rows'[r] # rows[r]
                            => WorkLeft(r)' < WorkLeft(r)
                      /\ req[r].answer # "none" => req'[r].answer = req[r].answer
                      /\ rows[r] # <<>> => rows'[r] = rows[r]
    OBVIOUS
  <2>1. Advances(r) /\ WorkLeft(r) \in Nat
    BY <1>1, <1>2, WorkLeftNat
  <2>2. UNCHANGED <<req[r], batch[r], rows[r]>> => WorkLeft(r)' = WorkLeft(r)
    BY DEF WorkLeft, Decided
  <2>3. QED
    BY <2>1, <2>2 DEF Advances
<1>3. Inv /\ [Next]_vars => [Step]_vars
  BY <1>2
<1>4. QED
  BY <1>3, InvHolds, PTL DEF Spec, RequestsOnlyAdvance
=============================================================================
