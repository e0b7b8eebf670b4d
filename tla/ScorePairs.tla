---------------------------- MODULE ScorePairs ----------------------------
(***************************************************************************)
(* One call of pipeline.score_pairs: a task per (resume, job) pair, an     *)
(* asyncio.Semaphore that caps the calls to the model, and around each     *)
(* call the timeout and retry loop of llm_call.with_timeout_retry.         *)
(*                                                                         *)
(* asyncio runs one task at a time, so an action is what a task does       *)
(* between two suspension points.  The semaphore hands its slots out in    *)
(* the order the tasks asked for them, and gather creates the tasks in the *)
(* order of the pairs.                                                     *)
(***************************************************************************)
EXTENDS Integers, FiniteSets

CONSTANTS
    NumPairs,       \* len(pairs)
    Concurrency,    \* the `concurrency` argument, before max(1, ...)
    MaxRetries      \* llm_call._max_retries()

ASSUME NumPairsAssumption == NumPairs \in Nat \ {0}
ASSUME ConcurrencyAssumption == Concurrency \in Int
ASSUME MaxRetriesAssumption == MaxRetries \in Nat

VARIABLES
    phase,          \* where the score_pairs coroutine stands
    pc,             \* where the task of each pair stands
    attempt,        \* the loop variable of with_timeout_retry, per pair
    lastErr,        \* class of the exception the latest attempt ended in
    cancelPending,  \* tasks that were cancelled and have not run since
    free,           \* the semaphore's value
    done,           \* counter["done"]
    reported        \* what on_progress stored in job.pairs_done

vars == <<phase, pc, attempt, lastErr, cancelPending, free, done, reported>>

Pairs == 1..NumPairs

\* asyncio.Semaphore(max(1, concurrency))
Slots == IF Concurrency > 1 THEN Concurrency ELSE 1

Phases == {"new", "spawned", "running", "cancelling",
           "returned", "raised", "cancelled"}

States == {"idle", "queued", "calling", "scored", "failed", "dropped"}

\* What an attempt can raise by itself.  `marked`: the exception's text holds
\* one of the substrings _looks_transient searches for.
ErrorClasses == {"TimeoutError", "ConnectionError", "ProviderError", "ValidationError"}
Exceptions == [class : ErrorClasses, marked : BOOLEAN]

Finished == {p \in Pairs : pc[p] \in {"scored", "failed"}}
Calling == {p \in Pairs : pc[p] = "calling"}
AllSettled == \A p \in Pairs : pc[p] \in {"scored", "failed", "dropped"}
Ended == phase \in {"returned", "raised", "cancelled"}

----------------------------------------------------------------------------
Init ==
    /\ phase = "new"
    /\ pc = [p \in Pairs |-> "idle"]
    /\ attempt = [p \in Pairs |-> 0]
    /\ lastErr = [p \in Pairs |-> "none"]
    /\ cancelPending = {}
    /\ free = Slots
    /\ done = 0
    /\ reported = 0

\* resolve_llm_provider raises ValueError: no task is ever created.
ProviderUnknown ==
    /\ phase = "new"
    /\ phase' = "raised"
    /\ UNCHANGED <<pc, attempt, lastErr, cancelPending, free, done, reported>>

\* asyncio.gather has created the tasks; none has run yet.
Spawn ==
    /\ phase = "new"
    /\ phase' = "spawned"
    /\ UNCHANGED <<pc, attempt, lastErr, cancelPending, free, done, reported>>

\* The tasks' first steps stand next to each other in the event loop's ready
\* queue, so nothing runs between them: as many as there are slots reach the
\* model call, the others wait for the semaphore.
Launch ==
    /\ phase = "spawned"
    /\ phase' = "running"
    /\ pc' = [p \in Pairs |-> IF p <= Slots THEN "calling" ELSE "queued"]
    /\ free' = IF NumPairs <= Slots THEN Slots - NumPairs ELSE 0
    /\ UNCHANGED <<attempt, lastErr, cancelPending, done, reported>>

\* The longest waiting task is given a slot and makes its first call.
MayAcquire(p) ==
    /\ phase = "running"
    /\ pc[p] = "queued"
    /\ \A q \in Pairs : pc[q] = "queued" => p <= q
    /\ free > 0
Acquire(p) ==
    /\ MayAcquire(p)
    /\ pc' = [pc EXCEPT ![p] = "calling"]
    /\ free' = free - 1
    /\ UNCHANGED <<phase, attempt, lastErr, cancelPending, done, reported>>

\* The task of p ends with verdict v: the slot goes back if p held one
\* (`async with sem`), the counter grows and on_progress is told.
SettleKeepingSlotOnFailure(p, v) ==
    /\ pc' = [pc EXCEPT ![p] = v]
    /\ free' = IF pc[p] = "calling" /\ v = "scored" THEN free + 1 ELSE free
    /\ done' = done + 1
    /\ reported' = done + 1
    /\ cancelPending' = cancelPending \ {p}
SettleCountingScoresOnly(p, v) ==
    /\ pc' = [pc EXCEPT ![p] = v]
    /\ free' = IF pc[p] = "calling" THEN free + 1 ELSE free
    /\ done' = IF v = "scored" THEN done + 1 ELSE done
    /\ reported' = done'
    /\ cancelPending' = cancelPending \ {p}
Settle(p, v) ==
    /\ pc' = [pc EXCEPT ![p] = v]
    /\ free' = IF pc[p] = "calling" THEN free + 1 ELSE free
    /\ done' = done + 1
    /\ reported' = done + 1
    /\ cancelPending' = cancelPending \ {p}

\* The model answered in time with a schema-valid score.  The answer also
\* wins over a cancellation that arrives in the same turn of the loop:
\* wait_for then returns the result and the cancellation is consumed.
AttemptReturns(p) ==
    /\ pc[p] = "calling"
    /\ Settle(p, "scored")
    /\ UNCHANGED <<phase, attempt, lastErr>>

LooksTransient(e) ==
    e.class \in {"TimeoutError", "ConnectionError"} \/ e.marked

MayRetryOnceMore(p, e) == attempt[p] <= MaxRetries /\ LooksTransient(e)
MayRetry(p, e) == attempt[p] < MaxRetries /\ LooksTransient(e)

\* The attempt of p ended in e: another attempt in the same slot, or the
\* pair's error.
AttemptEnds(p, e) ==
    /\ lastErr' = [lastErr EXCEPT ![p] = e.class]
    /\ IF MayRetry(p, e)
       THEN /\ attempt' = [attempt EXCEPT ![p] = attempt[p] + 1]
            /\ cancelPending' = cancelPending \ {p}
            /\ UNCHANGED <<pc, free, done, reported>>
       ELSE /\ Settle(p, "failed")
            /\ UNCHANGED attempt

\* The call raised: the provider, the connection, or BAML's validation.  As
\* above, an exception already there when the cancellation comes consumes it.
AttemptRaises(p, e) ==
    /\ pc[p] = "calling"
    /\ AttemptEnds(p, e)
    /\ UNCHANGED phase

\* asyncio.wait_for gives up on an attempt and raises TimeoutError.
TimerRuns(p) == pc[p] = "calling" /\ p \notin cancelPending
TimeoutFires(p) ==
    /\ TimerRuns(p)
    /\ AttemptEnds(p, [class |-> "TimeoutError", marked |-> FALSE])
    /\ UNCHANGED phase

\* The awaiting task is cancelled, and gather with it.  Tasks that have not
\* run yet die before their try block is entered; the others will find a
\* CancelledError at the point where they are suspended.
CancelForgettingTasks ==
    /\ phase \in {"spawned", "running"}
    /\ phase' = "cancelled"
    /\ UNCHANGED <<pc, cancelPending, attempt, lastErr, free, done, reported>>
Cancel ==
    /\ phase \in {"spawned", "running"}
    /\ phase' = "cancelling"
    /\ IF phase = "spawned"
       THEN /\ pc' = [p \in Pairs |-> "dropped"]
            /\ UNCHANGED cancelPending
       ELSE /\ cancelPending' = Pairs \ Finished
            /\ UNCHANGED pc
    /\ UNCHANGED <<attempt, lastErr, free, done, reported>>

\* CancelledError is not transient: `except BaseException` turns it into the
\* pair's error, a waiting task without ever having held a slot.
CancelArrives(p) ==
    /\ p \in cancelPending
    /\ lastErr' = [lastErr EXCEPT ![p] = "CancelledError"]
    /\ Settle(p, "failed")
    /\ UNCHANGED <<phase, attempt>>

\* gather resumes its caller once every task is over, also when cancelled.
Finish ==
    /\ phase \in {"running", "cancelling"}
    /\ AllSettled
    /\ phase' = IF phase = "running" THEN "returned" ELSE "cancelled"
    /\ UNCHANGED <<pc, attempt, lastErr, cancelPending, free, done, reported>>

Next ==
    \/ ProviderUnknown
    \/ Spawn
    \/ Launch
    \/ Cancel
    \/ Finish
    \/ \E p \in Pairs :
          \/ Acquire(p)
          \/ AttemptReturns(p)
          \/ \E e \in Exceptions : AttemptRaises(p, e)
          \/ TimeoutFires(p)
          \/ CancelArrives(p)

Spec == Init /\ [][Next]_vars

\* The event loop runs what is ready and fires timers that are due; the model
\* need never answer.
Fairness ==
    /\ WF_vars(Spawn \/ ProviderUnknown)
    /\ WF_vars(Launch)
    /\ WF_vars(Finish)
    /\ \A p \in Pairs :
          /\ WF_vars(Acquire(p))
          /\ WF_vars(TimeoutFires(p))
          /\ WF_vars(CancelArrives(p))

FairSpec == Spec /\ Fairness

----------------------------------------------------------------------------
(* Properties *)

\* The variables keep their types; in particular a pair is never attempted
\* more than MaxRetries times after the first (llm_call.with_timeout_retry).
TypeOK ==
    /\ phase \in Phases
    /\ pc \in [Pairs -> States]
    /\ attempt \in [Pairs -> 0..MaxRetries]
    /\ lastErr \in [Pairs -> ErrorClasses \cup {"none", "CancelledError"}]
    /\ cancelPending \subseteq Pairs
    /\ free \in 0..Slots
    /\ done \in 0..NumPairs
    /\ reported \in 0..NumPairs

\* No slot of the semaphore is lost or invented on any path out of a call:
\* answer, final error, retry, timeout, cancellation while waiting or calling.
SlotsConserved == free + Cardinality(Calling) = Slots

\* counter["done"] and what the poller is shown both equal the number of
\* pairs that have a verdict, whichever way they got it.
ProgressExact == done = Cardinality(Finished) /\ reported = done

\* When score_pairs is over no task of it is left running: no call to the
\* model goes on for a batch nobody awaits, and a returned batch is complete.
NoOrphans ==
    /\ Ended => Calling = {} /\ cancelPending = {}
    /\ phase = "returned" => Finished = Pairs

\* How the phase, the tasks and the pending cancellations fit together, at
\* every point where another task may look (score_pairs, gather).  With the
\* counting invariants it is preserved by each step on its own.
Coherent ==
    /\ phase \in {"new", "raised", "spawned"} => \A p \in Pairs : pc[p] = "idle"
    /\ phase = "running" =>
          \A p \in Pairs : pc[p] \in {"queued", "calling", "scored", "failed"}
    /\ phase = "cancelling" =>
          \A p \in Pairs : pc[p] # "idle" /\ (pc[p] = "queued" => p \in cancelPending)
    /\ phase = "returned" => Finished = Pairs
    /\ phase = "cancelled" => AllSettled
    /\ cancelPending # {} => phase = "cancelling"
    /\ \A p \in cancelPending : pc[p] \in {"queued", "calling"}

\* Claim of llm_call.py: "Validation errors (Pydantic, BAML schema) are not
\* retried".  A call in progress that is not the first one of its pair was
\* made because of lastErr.
ValidationNotRetried ==
    \A p \in Calling : attempt[p] > 0 => lastErr[p] # "ValidationError"

\* score_pairs keeps the promise of BatchContract.
Contract == INSTANCE BatchContract WITH
    phase <- IF phase \in {"spawned", "running", "cancelling"} THEN "open" ELSE phase,
    scored <- Cardinality({p \in Pairs : pc[p] = "scored"}),
    failed <- Cardinality({p \in Pairs : pc[p] = "failed"})

ImplementsContract == Contract!Spec

\* The two halves of BatchEnds that need no fairness.  First, no step is for
\* free: each takes the batch a stage on or a pair closer to its verdict, and
\* none takes anything back, so the batch makes a bounded number of them.
StagesLeft ==
    IF phase = "new" THEN 4
    ELSE IF phase = "spawned" THEN 3
    ELSE IF phase = "running" THEN 2
    ELSE IF phase = "cancelling" THEN 1 ELSE 0

WorkLeft(p) ==
    IF pc[p] = "idle" THEN MaxRetries + 3
    ELSE IF pc[p] = "queued" THEN MaxRetries + 2
    ELSE IF pc[p] = "calling" THEN MaxRetries + 1 - attempt[p] ELSE 0

EveryStepCounts ==
    [][/\ StagesLeft' <= StagesLeft
       /\ \A p \in Pairs : WorkLeft(p)' <= WorkLeft(p)
       /\ \/ StagesLeft' < StagesLeft
          \/ \E p \in Pairs : WorkLeft(p)' < WorkLeft(p)]_vars

\* Second, a batch that is not over never waits for the model alone: the event
\* loop has a task to run or a timer to fire (asyncio.wait_for, `async with sem`).
NeverStuck ==
    \/ Ended
    \/ phase \in {"new", "spawned"}
    \/ AllSettled
    \/ \E p \in Pairs : MayAcquire(p) \/ TimerRuns(p) \/ p \in cancelPending

\* A verdict is final: what a settled pair was given does not change again.
VerdictsFinal ==
    [][\A p \in Pairs :
          pc[p] \in {"scored", "failed", "dropped"} => pc'[p] = pc[p]]_vars

\* Even if the model never answers, the batch ends: the timeouts free the
\* slots ("short enough that a hung connection doesn't pin a slot").
BatchEnds == (phase = "spawned") ~> Ended
=============================================================================
