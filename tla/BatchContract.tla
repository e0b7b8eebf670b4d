--------------------------- MODULE BatchContract ---------------------------
(***************************************************************************)
(* What pipeline.score_pairs promises its two callers (the synchronous     *)
(* /match handler and the asynchronous worker), with no word of how it is  *)
(* done: every pair gets exactly one verdict, the caller sees a progress   *)
(* counter that only grows, the batch returns when every pair is decided   *)
(* and not before, and a batch that ended decides nothing more.            *)
(***************************************************************************)
EXTENDS Naturals

CONSTANT NumPairs       \* len(pairs), a positive number: resumes x jobs

VARIABLES
    phase,      \* where the call of score_pairs stands
    scored,     \* how many pairs hold a MatchScore
    failed,     \* how many pairs hold an error string
    reported    \* the last pairs_done that on_progress was given

vars == <<phase, scored, failed, reported>>

Decided == scored + failed

Init ==
    /\ phase = "new"
    /\ scored = 0
    /\ failed = 0
    /\ reported = 0

\* The provider is known and the per-pair tasks exist.
Open ==
    /\ phase = "new"
    /\ phase' = "open"
    /\ UNCHANGED <<scored, failed, reported>>

\* resolve_llm_provider raised: nothing was started.
Refuse ==
    /\ phase = "new"
    /\ phase' = "raised"
    /\ UNCHANGED <<scored, failed, reported>>

\* One pair gets its verdict and the new count is reported at once.
Decide ==
    /\ phase = "open"
    /\ Decided < NumPairs
    /\ \/ scored' = scored + 1 /\ failed' = failed
       \/ scored' = scored /\ failed' = failed + 1
    /\ reported' = scored' + failed'
    /\ UNCHANGED phase

\* The list of PairScore goes to the caller, complete.
Return ==
    /\ phase = "open"
    /\ Decided = NumPairs
    /\ phase' = "returned"
    /\ UNCHANGED <<scored, failed, reported>>

\* The task that awaits the batch was cancelled.
Abandon ==
    /\ phase = "open"
    /\ phase' = "cancelled"
    /\ UNCHANGED <<scored, failed, reported>>

Next == Open \/ Refuse \/ Decide \/ Return \/ Abandon

Spec == Init /\ [][Next]_vars
=============================================================================
