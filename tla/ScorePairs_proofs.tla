------------------------- MODULE ScorePairs_proofs -------------------------
(***************************************************************************)
(* Proofs about ScorePairs for every number of pairs, every concurrency    *)
(* argument and every retry budget.  The inductive invariant is Inv: the   *)
(* types, the two counting invariants and Coherent.                        *)
(***************************************************************************)
EXTENDS ScorePairs, FiniteSetTheorems, WellFoundedInduction, TLAPS

USE NumPairsAssumption, ConcurrencyAssumption, MaxRetriesAssumption

\* The types, without the upper bounds of the counters, which follow from
\* the counting invariants.
Types ==
    /\ phase \in Phases
    /\ pc \in [Pairs -> States]
    /\ attempt \in [Pairs -> 0..MaxRetries]
    /\ lastErr \in [Pairs -> ErrorClasses \cup {"none", "CancelledError"}]
    /\ cancelPending \subseteq Pairs
    /\ free \in Nat
    /\ done \in Nat
    /\ reported \in Nat

Inv == Types /\ SlotsConserved /\ ProgressExact /\ Coherent

----------------------------------------------------------------------------
(* Lemmas on counting *)

\* A set of pairs is finite and no larger than the batch.
LEMMA PairSets ==
    ASSUME NEW S \in SUBSET Pairs
    PROVE  /\ IsFiniteSet(S)
           /\ Cardinality(S) \in Nat
           /\ Cardinality(S) <= NumPairs
           /\ Cardinality(S) = NumPairs => S = Pairs
<1>1. IsFiniteSet(Pairs) /\ Cardinality(Pairs) = NumPairs
  BY FS_Interval DEF Pairs
<1>2. IsFiniteSet(S) /\ Cardinality(S) <= NumPairs
      /\ (Cardinality(S) = NumPairs => S = Pairs)
  BY <1>1, FS_Subset
<1>3. QED
  BY <1>2, FS_CardinalityType

\* One more element, or one fewer, moves the cardinality by one.
LEMMA OneMore ==
    ASSUME NEW S \in SUBSET Pairs, NEW p \in Pairs, p \notin S
    PROVE  Cardinality(S \cup {p}) = Cardinality(S) + 1
  BY PairSets, FS_AddElement

\* Taking a member out of a set of pairs makes it smaller by one.
LEMMA OneFewer ==
    ASSUME NEW S \in SUBSET Pairs, NEW p \in S
    PROVE  Cardinality(S \ {p}) = Cardinality(S) - 1
  BY PairSets, FS_RemoveElement

\* max(1, concurrency) is a positive number.
LEMMA SlotsPositive == Slots \in Nat \ {0}
  BY DEF Slots

----------------------------------------------------------------------------
(* A set of natural numbers has a least member *)

\* The members of S below m.
Below(S, m) == {n \in S : n < m}

\* These sets are finite, and they grow with m.
LEMMA BelowFacts ==
    ASSUME NEW S, S \subseteq Nat, NEW m \in S
    PROVE  /\ IsFiniteSet(Below(S, m))
           /\ \A n \in S : n < m => /\ Below(S, n) \subseteq Below(S, m)
                                    /\ Below(S, n) # Below(S, m)
<1>1. m \in Nat /\ \A n \in S : n \in Nat
  OBVIOUS
<1>2. Below(S, m) \subseteq 0..m
  <2> SUFFICES ASSUME NEW n \in S, n < m PROVE n \in 0..m
    BY DEF Below
  <2> QED
    BY <1>1
<1>3. IsFiniteSet(0..m)
  BY <1>1, FS_Interval
<1>4. IsFiniteSet(Below(S, m))
  BY <1>2, <1>3, FS_Subset
<1>5. ASSUME NEW n \in S, n < m
      PROVE  Below(S, n) \subseteq Below(S, m) /\ n \in Below(S, m) /\ n \notin Below(S, n)
  <2>1. n \in Below(S, m) /\ n \notin Below(S, n)
    BY <1>1, <1>5 DEF Below
  <2>2. \A o \in S : o < n => o < m
    BY <1>1, <1>5
  <2>3. Below(S, n) \subseteq Below(S, m)
    BY <2>2 DEF Below
  <2>4. QED
    BY <2>1, <2>3
<1>6. QED
  BY <1>4, <1>5

\* The least number principle: the strict subsets of finite sets are well founded.
LEMMA SmallestOf ==
    ASSUME NEW S \in SUBSET Nat, S # {}
    PROVE  \E m \in S : \A n \in S : m <= n
<1> DEFINE Belows == {Below(S, m) : m \in S}
<1>1. IsWellFoundedOn(StrictSubsetOrdering(S), FiniteSubsetsOf(S))
  BY FS_StrictSubsetOrderingWellFounded
<1>2. \A m \in S : Below(S, m) \in SUBSET S
  BY DEF Below
<1>3. Belows \subseteq FiniteSubsetsOf(S) /\ Belows # {}
  <2>1. \A m \in S : Below(S, m) \in FiniteSubsetsOf(S)
    BY <1>2, BelowFacts DEF FiniteSubsetsOf
  <2>2. QED
    BY <2>1
<1>4. PICK B \in Belows : \A C \in Belows : <<C, B>> \notin StrictSubsetOrdering(S)
  <2> HIDE DEF Belows
  <2> QED
    BY <1>1, <1>3, WFMin
<1>5. PICK m \in S : B = Below(S, m)
  OBVIOUS
<1>6. ASSUME NEW n \in S, n < m PROVE FALSE
  <2>1. <<Below(S, n), B>> \in StrictSubsetOrdering(S)
    BY <1>2, <1>5, <1>6, BelowFacts DEF StrictSubsetOrdering
  <2>2. QED
    BY <1>4, <2>1
<1>7. QED
  BY <1>6

----------------------------------------------------------------------------
(* What Settle does to the two counts *)

\* A pair that settles adds one verdict and, if it held a slot, frees that slot.
LEMMA SettleCounts ==
    ASSUME Types, SlotsConserved, ProgressExact,
           NEW p \in Pairs, pc[p] \in {"queued", "calling"},
           NEW v \in {"scored", "failed"}, Settle(p, v)
    PROVE  /\ SlotsConserved' /\ ProgressExact'
           /\ pc' \in [Pairs -> States]
           /\ cancelPending' \subseteq Pairs
           /\ free' \in Nat /\ done' \in Nat /\ reported' \in Nat
<1>1. pc' = [pc EXCEPT ![p] = v] /\ pc' \in [Pairs -> States]
  BY DEF Settle, Types, States
<1>2. /\ done' = done + 1 /\ reported' = done + 1
      /\ free' = IF pc[p] = "calling" THEN free + 1 ELSE free
      /\ cancelPending' = cancelPending \ {p}
  BY DEF Settle
<1>3. Finished' = Finished \cup {p} /\ p \notin Finished
  BY <1>1 DEF Finished, Types
<1>4. Cardinality(Finished') = Cardinality(Finished) + 1
  BY <1>3, OneMore DEF Finished
<1>5. ProgressExact'
  BY <1>2, <1>4 DEF ProgressExact
<1>6. Calling' = Calling \ {p}
  BY <1>1 DEF Calling, Types
<1>7. SlotsConserved'
  <2>1. CASE pc[p] = "calling"
    <3>1. Cardinality(Calling') = Cardinality(Calling) - 1
      BY <2>1, <1>6, OneFewer DEF Calling
    <3>2. Cardinality(Calling) \in Nat
      BY PairSets DEF Calling
    <3>3. QED
      BY <2>1, <3>1, <3>2, <1>2, SlotsPositive DEF SlotsConserved, Types, Slots
  <2>2. CASE pc[p] # "calling"
    <3>1. Calling' = Calling
      BY <2>2, <1>6 DEF Calling
    <3>2. QED
      BY <2>2, <3>1, <1>2 DEF SlotsConserved, Slots
  <2>3. QED
    BY <2>1, <2>2
<1>8. QED
  BY <1>1, <1>2, <1>5, <1>7 DEF Types

\* A task that still waits or calls belongs to a batch that is not over, and
\* its end leaves the phase, the tasks and the cancellations in accord.
LEMMA ActiveBatch ==
    ASSUME Types, Coherent, NEW p \in Pairs, pc[p] \in {"queued", "calling"}
    PROVE  phase \in {"running", "cancelling"}
  BY DEF Types, Phases, Coherent, Finished, AllSettled

\* Settling a pair keeps phase, tasks and cancellations in step.
LEMMA SettleCoherent ==
    ASSUME Types, Coherent,
           NEW p \in Pairs, pc[p] \in {"queued", "calling"},
           NEW v \in {"scored", "failed"}, Settle(p, v), phase' = phase
    PROVE  Coherent'
<1>1. phase \in {"running", "cancelling"}
  BY ActiveBatch
<1>2. /\ pc' = [pc EXCEPT ![p] = v]
      /\ cancelPending' = cancelPending \ {p}
  BY DEF Settle
<1>3. \A q \in Pairs : pc'[q] = IF q = p THEN v ELSE pc[q]
  BY <1>2 DEF Types
<1>4. QED
  BY <1>1, <1>2, <1>3 DEF Coherent, Types

\* The end of a pair's task preserves the whole invariant.
LEMMA SettleInv ==
    ASSUME Inv, NEW p \in Pairs, pc[p] \in {"queued", "calling"},
           NEW v \in {"scored", "failed"}, Settle(p, v), phase' = phase,
           attempt' = attempt,
           lastErr' \in [Pairs -> ErrorClasses \cup {"none", "CancelledError"}]
    PROVE  Inv'
<1>1. Coherent'
  BY SettleCoherent DEF Inv
<1>2. QED
  BY <1>1, SettleCounts DEF Inv, Types

\* Both outcomes of a failed attempt preserve the invariant.
LEMMA AttemptEndsInv ==
    ASSUME Inv, NEW p \in Pairs, pc[p] = "calling",
           NEW e \in Exceptions, AttemptEnds(p, e), phase' = phase
    PROVE  Inv'
<1>1. lastErr' \in [Pairs -> ErrorClasses \cup {"none", "CancelledError"}]
  BY DEF Inv, Types, AttemptEnds, Exceptions
<1>2. CASE MayRetry(p, e)
  <2>1. /\ attempt' = [attempt EXCEPT ![p] = attempt[p] + 1]
        /\ cancelPending' = cancelPending \ {p}
        /\ UNCHANGED <<pc, free, done, reported>>
    BY <1>2 DEF AttemptEnds
  <2>2. attempt' \in [Pairs -> 0..MaxRetries]
    BY <1>2, <2>1 DEF MayRetry, Inv, Types
  <2>3. SlotsConserved' /\ ProgressExact'
    BY <2>1 DEF Inv, SlotsConserved, ProgressExact, Calling, Finished, Slots
  <2>4. Coherent'
    BY <2>1 DEF Inv, Coherent, Finished, AllSettled, Types
  <2>5. QED
    BY <1>1, <2>1, <2>2, <2>3, <2>4 DEF Inv, Types
<1>3. CASE ~MayRetry(p, e)
  BY <1>1, <1>3, SettleInv DEF AttemptEnds
<1>4. QED
  BY <1>2, <1>3

----------------------------------------------------------------------------
(* The inductive invariant *)

\* Before the batch starts no task exists and every slot is free.
LEMMA InitInv == Init => Inv
<1> SUFFICES ASSUME Init PROVE Inv
  OBVIOUS
<1>1. Types
  BY SlotsPositive DEF Init, Types, Phases, States
<1>2. Calling = {} /\ Finished = {}
  BY DEF Init, Calling, Finished
<1>3. SlotsConserved /\ ProgressExact
  BY <1>2, FS_EmptySet, SlotsPositive DEF Init, SlotsConserved, ProgressExact
<1>4. Coherent
  BY DEF Init, Coherent
<1>5. QED
  BY <1>1, <1>3, <1>4 DEF Inv

\* The first turn of the loop starts as many calls as there are slots.
LEMMA LaunchInv == ASSUME Inv, Launch PROVE Inv'
<1>1. /\ phase = "spawned" /\ phase' = "running"
      /\ pc' = [p \in Pairs |-> IF p <= Slots THEN "calling" ELSE "queued"]
      /\ free' = IF NumPairs <= Slots THEN Slots - NumPairs ELSE 0
      /\ UNCHANGED <<attempt, lastErr, cancelPending, done, reported>>
  BY DEF Launch
<1>2. Types'
  BY <1>1, SlotsPositive DEF Inv, Types, Phases, States
<1>3. Finished = {} /\ Finished' = {}
  BY <1>1 DEF Inv, Coherent, Finished
<1>4. ProgressExact'
  BY <1>1, <1>3 DEF Inv, ProgressExact
<1>5. Calling' = 1..(IF NumPairs <= Slots THEN NumPairs ELSE Slots)
  BY <1>1, SlotsPositive DEF Calling, Pairs
<1>6. Cardinality(Calling') = IF NumPairs <= Slots THEN NumPairs ELSE Slots
  BY <1>5, SlotsPositive, FS_Interval
<1>7. SlotsConserved'
  BY <1>1, <1>6, SlotsPositive DEF SlotsConserved, Slots
<1>8. Coherent'
  BY <1>1 DEF Inv, Coherent
<1>9. QED
  BY <1>2, <1>4, <1>7, <1>8 DEF Inv

\* async with sem: the first waiting task takes a free slot.
LEMMA AcquireInv == ASSUME Inv, NEW p \in Pairs, Acquire(p) PROVE Inv'
<1>1. /\ phase = "running" /\ pc[p] = "queued" /\ free > 0
      /\ pc' = [pc EXCEPT ![p] = "calling"]
      /\ free' = free - 1
      /\ UNCHANGED <<phase, attempt, lastErr, cancelPending, done, reported>>
  BY DEF Acquire, MayAcquire
<1>2. Types'
  BY <1>1 DEF Inv, Types, States
<1>3. Calling' = Calling \cup {p} /\ p \notin Calling /\ Finished' = Finished
  BY <1>1 DEF Inv, Types, Calling, Finished
<1>4. Cardinality(Calling') = Cardinality(Calling) + 1 /\ Cardinality(Calling) \in Nat
  BY <1>3, OneMore, PairSets DEF Calling
<1>5. SlotsConserved'
  BY <1>1, <1>4, SlotsPositive DEF Inv, Types, SlotsConserved, Slots
<1>6. ProgressExact'
  BY <1>1, <1>3 DEF Inv, ProgressExact
<1>7. Coherent'
  BY <1>1 DEF Inv, Types, Coherent
<1>8. QED
  BY <1>2, <1>5, <1>6, <1>7 DEF Inv

\* A cancelled gather cancels each task that is not done.
LEMMA CancelInv == ASSUME Inv, Cancel PROVE Inv'
<1>1. /\ phase \in {"spawned", "running"} /\ phase' = "cancelling"
      /\ UNCHANGED <<attempt, lastErr, free, done, reported>>
  BY DEF Cancel
<1>2. CASE phase = "spawned"
  <2>1. pc' = [p \in Pairs |-> "dropped"] /\ cancelPending' = cancelPending
    BY <1>2 DEF Cancel
  <2>2. Calling' = Calling /\ Finished' = Finished
    BY <1>2, <2>1 DEF Inv, Coherent, Calling, Finished
  <2>3. SlotsConserved' /\ ProgressExact'
    BY <1>1, <2>2 DEF Inv, SlotsConserved, ProgressExact, Slots
  <2>4. Types' /\ Coherent'
    BY <1>1, <1>2, <2>1 DEF Inv, Types, Coherent, Phases, States
  <2>5. QED
    BY <2>3, <2>4 DEF Inv
<1>3. CASE phase = "running"
  <2>1. pc' = pc /\ cancelPending' = Pairs \ Finished
    BY <1>3 DEF Cancel
  <2>2. Calling' = Calling /\ Finished' = Finished
    BY <2>1 DEF Calling, Finished
  <2>3. SlotsConserved' /\ ProgressExact'
    BY <1>1, <2>2 DEF Inv, SlotsConserved, ProgressExact, Slots
  <2>4. Types' /\ Coherent'
    BY <1>1, <1>3, <2>1 DEF Inv, Types, Coherent, Phases, States, Finished
  <2>5. QED
    BY <2>3, <2>4 DEF Inv
<1>4. QED
  BY <1>1, <1>2, <1>3

\* The batch returns, or ends cancelled, once no task is left.
LEMMA FinishInv == ASSUME Inv, Finish PROVE Inv'
<1>1. /\ phase \in {"running", "cancelling"} /\ AllSettled
      /\ phase' = IF phase = "running" THEN "returned" ELSE "cancelled"
      /\ UNCHANGED <<pc, attempt, lastErr, cancelPending, free, done, reported>>
  BY DEF Finish
<1>2. Types'
  BY <1>1 DEF Inv, Types, Phases
<1>3. SlotsConserved' /\ ProgressExact'
  BY <1>1 DEF Inv, SlotsConserved, ProgressExact, Calling, Finished, Slots
<1>4. cancelPending = {}
  BY <1>1 DEF Inv, Coherent, AllSettled, Types
<1>5. phase = "running" => Finished = Pairs
  BY <1>1 DEF Inv, Coherent, AllSettled, Finished
<1>6. Coherent'
  BY <1>1, <1>4, <1>5 DEF Coherent, Finished, AllSettled
<1>7. QED
  BY <1>2, <1>3, <1>6 DEF Inv

\* Every step keeps the invariant.
LEMMA NextInv == Inv /\ [Next]_vars => Inv'
<1> SUFFICES ASSUME Inv, [Next]_vars PROVE Inv'
  OBVIOUS
<1>1. CASE ProviderUnknown \/ Spawn
  <2>1. /\ phase = "new" /\ phase' \in {"raised", "spawned"}
        /\ UNCHANGED <<pc, attempt, lastErr, cancelPending, free, done, reported>>
    BY <1>1 DEF ProviderUnknown, Spawn
  <2>2. SlotsConserved' /\ ProgressExact'
    BY <2>1 DEF Inv, SlotsConserved, ProgressExact, Calling, Finished, Slots
  <2>3. Types' /\ Coherent'
    BY <2>1 DEF Inv, Types, Phases, Coherent
  <2>4. QED
    BY <2>2, <2>3 DEF Inv
<1>2. CASE Launch
  BY <1>2, LaunchInv
<1>3. CASE Cancel
  BY <1>3, CancelInv
<1>4. CASE Finish
  BY <1>4, FinishInv
<1>5. ASSUME NEW p \in Pairs, Acquire(p) PROVE Inv'
  BY <1>5, AcquireInv
<1>6. ASSUME NEW p \in Pairs, AttemptReturns(p) PROVE Inv'
  BY <1>6, SettleInv DEF AttemptReturns, Inv, Types
<1>7. ASSUME NEW p \in Pairs, NEW e \in Exceptions, AttemptRaises(p, e) PROVE Inv'
  BY <1>7, AttemptEndsInv DEF AttemptRaises
<1>8. ASSUME NEW p \in Pairs, TimeoutFires(p) PROVE Inv'
  <2>1. [class |-> "TimeoutError", marked |-> FALSE] \in Exceptions
    BY DEF Exceptions, ErrorClasses
  <2>2. QED
    BY <1>8, <2>1, AttemptEndsInv DEF TimeoutFires, TimerRuns
<1>9. ASSUME NEW p \in Pairs, CancelArrives(p) PROVE Inv'
  <2>1. pc[p] \in {"queued", "calling"}
    BY <1>9 DEF CancelArrives, Inv, Coherent
  <2>2. lastErr' \in [Pairs -> ErrorClasses \cup {"none", "CancelledError"}]
    BY <1>9 DEF CancelArrives, Inv, Types
  <2>3. QED
    BY <1>9, <2>1, <2>2, SettleInv DEF CancelArrives
<1>10. CASE UNCHANGED vars
  BY <1>10 DEF vars, Inv, Types, SlotsConserved, ProgressExact, Coherent,
               Calling, Finished, AllSettled, Slots
<1>11. QED
  BY <1>1, <1>2, <1>3, <1>4, <1>5, <1>6, <1>7, <1>8, <1>9, <1>10 DEF Next

\* Inv is inductive, so it always holds.
THEOREM InvHolds == Spec => []Inv
  BY InitInv, NextInv, PTL DEF Spec

----------------------------------------------------------------------------
(* What follows from the invariant *)

\* The upper bounds of the counters come from counting pairs and slots.
LEMMA InvTypeOK == Inv => TypeOK
<1> SUFFICES ASSUME Inv PROVE TypeOK
  OBVIOUS
<1>1. Cardinality(Calling) \in Nat /\ Cardinality(Finished) \in Nat
      /\ Cardinality(Finished) <= NumPairs
  BY PairSets DEF Calling, Finished
<1>2. free \in 0..Slots
  BY <1>1, SlotsPositive DEF Inv, Types, SlotsConserved, Slots
<1>3. done \in 0..NumPairs /\ reported \in 0..NumPairs
  BY <1>1 DEF Inv, Types, ProgressExact
<1>4. QED
  BY <1>2, <1>3 DEF Inv, Types, TypeOK

\* Type correctness: in particular no pair is attempted more than MaxRetries
\* times after the first (llm_call.with_timeout_retry).
THEOREM TypeCorrect == Spec => []TypeOK
  BY InvHolds, InvTypeOK, PTL

\* The semaphore of score_pairs never loses a slot nor invents one.
THEOREM SlotsSafe == Spec => []SlotsConserved
<1>1. Inv => SlotsConserved
  BY DEF Inv
<1>2. QED
  BY <1>1, InvHolds, PTL

\* So the calls in flight never exceed max(1, concurrency).
THEOREM CapSafe == Spec => [](Cardinality(Calling) <= Slots)
<1>1. Inv => Cardinality(Calling) <= Slots
  <2>1. Cardinality(Calling) \in Nat
    BY PairSets DEF Calling
  <2>2. QED
    BY <2>1, SlotsPositive DEF Inv, Types, SlotsConserved, Slots
<1>2. QED
  BY <1>1, InvHolds, PTL

\* The counter and the poller's progress equal the number of verdicts.
THEOREM ProgressSafe == Spec => []ProgressExact
<1>1. Inv => ProgressExact
  BY DEF Inv
<1>2. QED
  BY <1>1, InvHolds, PTL

\* A batch that is over has no task left, and a returned one is complete.
THEOREM NoOrphansSafe == Spec => []NoOrphans
<1>1. Inv => NoOrphans
  BY DEF Inv, Coherent, NoOrphans, Ended, Calling, Finished, AllSettled
<1>2. QED
  BY <1>1, InvHolds, PTL

\* Phase, tasks and cancellations of a batch fit together at every moment.
THEOREM CoherentSafe == Spec => []Coherent
<1>1. Inv => Coherent
  BY DEF Inv
<1>2. QED
  BY <1>1, InvHolds, PTL

----------------------------------------------------------------------------
(* That a batch ends: what of BatchEnds needs no fairness *)

\* The work left of a pair is a natural number.
LEMMA WorkLeftNat == ASSUME Types, NEW p \in Pairs PROVE WorkLeft(p) \in Nat
  BY DEF Types, WorkLeft

\* The end of a pair's task takes work from that pair and from no other.
LEMMA SettleCountsDown ==
    ASSUME Types, NEW p \in Pairs, pc[p] \in {"queued", "calling"},
           NEW v \in {"scored", "failed"}, Settle(p, v), attempt' = attempt
    PROVE  /\ \A q \in Pairs : WorkLeft(q)' <= WorkLeft(q)
           /\ WorkLeft(p)' < WorkLeft(p)
<1>1. \A q \in Pairs : pc'[q] = IF q = p THEN v ELSE pc[q]
  BY DEF Settle, Types
<1>2. WorkLeft(p)' = 0 /\ WorkLeft(p) > 0
  BY <1>1 DEF WorkLeft, Types
<1>3. \A q \in Pairs : q # p => WorkLeft(q)' = WorkLeft(q)
  BY <1>1 DEF WorkLeft
<1>4. QED
  BY <1>2, <1>3, WorkLeftNat

\* A failed attempt takes an attempt from its pair, or all the work it had left.
LEMMA AttemptCountsDown ==
    ASSUME Types, NEW p \in Pairs, pc[p] = "calling",
           NEW e \in Exceptions, AttemptEnds(p, e)
    PROVE  /\ \A q \in Pairs : WorkLeft(q)' <= WorkLeft(q)
           /\ WorkLeft(p)' < WorkLeft(p)
<1>1. CASE MayRetry(p, e)
  <2>1. pc' = pc /\ \A q \in Pairs : attempt'[q] = IF q = p THEN attempt[p] + 1 ELSE attempt[q]
    BY <1>1 DEF AttemptEnds, Types
  <2>2. attempt[p] \in Nat
    BY DEF Types
  <2>3. WorkLeft(p)' < WorkLeft(p) /\ WorkLeft(p)' <= WorkLeft(p)
    BY <2>1, <2>2 DEF WorkLeft
  <2>4. \A q \in Pairs : q # p => WorkLeft(q)' = WorkLeft(q)
    BY <2>1 DEF WorkLeft
  <2>5. QED
    BY <2>3, <2>4, WorkLeftNat
<1>2. CASE ~MayRetry(p, e)
  BY <1>2, SettleCountsDown DEF AttemptEnds
<1>3. QED
  BY <1>1, <1>2

\* A step of the batch as a whole takes it a stage on and no pair back.
LEMMA StageCountsDown ==
    ASSUME Inv, ProviderUnknown \/ Spawn \/ Launch \/ Cancel \/ Finish
    PROVE  /\ StagesLeft' < StagesLeft
           /\ \A p \in Pairs : WorkLeft(p)' <= WorkLeft(p)
<1>1. StagesLeft' < StagesLeft
  BY DEF ProviderUnknown, Spawn, Launch, Cancel, Finish, StagesLeft
<1>2. ASSUME NEW p \in Pairs PROVE WorkLeft(p)' <= WorkLeft(p)
  <2>1. WorkLeft(p) \in Nat /\ attempt[p] \in Nat /\ attempt' = attempt
    BY WorkLeftNat DEF ProviderUnknown, Spawn, Launch, Cancel, Finish, Inv, Types
  <2>2. CASE ProviderUnknown \/ Spawn \/ Finish
    BY <2>1, <2>2 DEF ProviderUnknown, Spawn, Finish, WorkLeft
  <2>3. CASE Launch
    <3>1. pc[p] = "idle" /\ pc'[p] \in {"queued", "calling"}
      BY <2>3 DEF Launch, Inv, Coherent
    <3>2. QED
      BY <2>1, <3>1 DEF WorkLeft
  <2>4. CASE Cancel
    <3>1. pc'[p] = pc[p] \/ pc'[p] = "dropped"
      BY <2>4 DEF Cancel
    <3>2. CASE pc'[p] = "dropped"
      <4>1. WorkLeft(p)' = 0
        BY <3>2 DEF WorkLeft
      <4>2. QED
        BY <2>1, <4>1
    <3>3. CASE pc'[p] = pc[p]
      <4>1. WorkLeft(p)' = WorkLeft(p)
        BY <2>1, <3>3 DEF WorkLeft
      <4>2. QED
        BY <2>1, <4>1
    <3>4. QED
      BY <3>1, <3>2, <3>3
  <2>5. QED
    BY <2>2, <2>3, <2>4
<1>3. QED
  BY <1>1, <1>2

\* Every step takes something away and gives nothing back.
LEMMA NextCountsDown ==
    ASSUME Inv, Next
    PROVE  /\ StagesLeft' <= StagesLeft
           /\ \A p \in Pairs : WorkLeft(p)' <= WorkLeft(p)
           /\ \/ StagesLeft' < StagesLeft
              \/ \E p \in Pairs : WorkLeft(p)' < WorkLeft(p)
<1> DEFINE TaskCounts(p) ==
        /\ phase' = phase
        /\ \A q \in Pairs : WorkLeft(q)' <= WorkLeft(q)
        /\ WorkLeft(p)' < WorkLeft(p)
<1>1. StagesLeft \in Nat
  BY DEF StagesLeft
<1>2. CASE ProviderUnknown \/ Spawn \/ Launch \/ Cancel \/ Finish
  <2>1. StagesLeft' \in Nat
    BY DEF StagesLeft
  <2>2. QED
    BY <1>1, <1>2, <2>1, StageCountsDown
<1>3. ASSUME NEW p \in Pairs, TaskCounts(p)
      PROVE  /\ StagesLeft' <= StagesLeft
             /\ \A q \in Pairs : WorkLeft(q)' <= WorkLeft(q)
             /\ \E q \in Pairs : WorkLeft(q)' < WorkLeft(q)
  BY <1>1, <1>3 DEF StagesLeft
<1>4. ASSUME NEW p \in Pairs, Acquire(p) PROVE TaskCounts(p)
  <2>1. /\ pc[p] = "queued" /\ attempt' = attempt /\ phase' = phase
        /\ \A q \in Pairs : pc'[q] = IF q = p THEN "calling" ELSE pc[q]
    BY <1>4 DEF Acquire, MayAcquire, Inv, Types
  <2>2. WorkLeft(p)' < WorkLeft(p) /\ WorkLeft(p)' <= WorkLeft(p)
    BY <2>1 DEF WorkLeft, Inv, Types
  <2>3. \A q \in Pairs : q # p => WorkLeft(q)' = WorkLeft(q)
    BY <2>1 DEF WorkLeft
  <2>4. QED
    BY <2>1, <2>2, <2>3, WorkLeftNat DEF Inv
<1>5. ASSUME NEW p \in Pairs, AttemptReturns(p) PROVE TaskCounts(p)
  BY <1>5, SettleCountsDown DEF AttemptReturns, Inv
<1>6. ASSUME NEW p \in Pairs, NEW e \in Exceptions, AttemptRaises(p, e) PROVE TaskCounts(p)
  BY <1>6, AttemptCountsDown DEF AttemptRaises, Inv
<1>7. ASSUME NEW p \in Pairs, TimeoutFires(p) PROVE TaskCounts(p)
  <2>1. [class |-> "TimeoutError", marked |-> FALSE] \in Exceptions
    BY DEF Exceptions, ErrorClasses
  <2>2. QED
    BY <1>7, <2>1, AttemptCountsDown DEF TimeoutFires, TimerRuns, Inv
<1>8. ASSUME NEW p \in Pairs, CancelArrives(p) PROVE TaskCounts(p)
  BY <1>8, SettleCountsDown DEF CancelArrives, Inv, Coherent
<1>9. QED
  <2> HIDE DEF TaskCounts
  <2> QED
    BY <1>2, <1>3, <1>4, <1>5, <1>6, <1>7, <1>8 DEF Next

\* No step of a batch is for free, so it makes a bounded number of them: at
\* most four stages, and MaxRetries + 3 for each pair.
THEOREM EveryStepCountsSafe == Spec => EveryStepCounts
<1>1. Inv /\ [Next]_vars =>
        [/\ StagesLeft' <= StagesLeft
         /\ \A p \in Pairs : WorkLeft(p)' <= WorkLeft(p)
         /\ \/ StagesLeft' < StagesLeft
            \/ \E p \in Pairs : WorkLeft(p)' < WorkLeft(p)]_vars
  BY NextCountsDown
<1>2. QED
  BY <1>1, InvHolds, PTL DEF Spec, EveryStepCounts

\* Of the pairs that wait for the semaphore one has waited the longest.
LEMMA LongestWaiting ==
    ASSUME NEW p \in Pairs, pc[p] = "queued"
    PROVE  \E q \in Pairs : pc[q] = "queued" /\ \A o \in Pairs : pc[o] = "queued" => q <= o
<1> DEFINE Queued == {q \in Pairs : pc[q] = "queued"}
<1>1. Queued # {} /\ Queued \in SUBSET Nat
  BY DEF Pairs
<1>2. \E q \in Queued : \A o \in Queued : q <= o
  BY <1>1, SmallestOf
<1>3. QED
  BY <1>2

\* With all slots free, or a task in one, the loop always has something to do:
\* the semaphore of max(1, concurrency) slots is never what everybody waits for.
LEMMA InvNeverStuck == Inv => NeverStuck
<1> SUFFICES ASSUME Inv, ~Ended, phase \notin {"new", "spawned"}, ~AllSettled
             PROVE  \E p \in Pairs : MayAcquire(p) \/ TimerRuns(p) \/ p \in cancelPending
  BY DEF NeverStuck
<1>1. phase \in {"running", "cancelling"}
  BY DEF Inv, Types, Phases, Ended
<1>2. PICK p \in Pairs : pc[p] \in {"queued", "calling"}
  BY <1>1 DEF Inv, Types, States, Coherent, AllSettled
<1>3. CASE \E q \in Pairs : pc[q] = "calling"
  BY <1>3 DEF TimerRuns
<1>4. CASE phase = "cancelling" /\ pc[p] = "queued"
  BY <1>4 DEF Inv, Coherent
<1>5. CASE phase = "running" /\ pc[p] = "queued" /\ ~\E q \in Pairs : pc[q] = "calling"
  <2>1. Calling = {}
    BY <1>5 DEF Calling
  <2>2. free > 0
    BY <2>1, FS_EmptySet, SlotsPositive DEF Inv, Types, SlotsConserved
  <2>3. PICK q \in Pairs : pc[q] = "queued" /\ \A o \in Pairs : pc[o] = "queued" => q <= o
    BY <1>5, LongestWaiting
  <2>4. MayAcquire(q)
    BY <1>5, <2>2, <2>3 DEF MayAcquire
  <2>5. QED
    BY <2>4
<1>6. QED
  BY <1>1, <1>2, <1>3, <1>4, <1>5

\* A batch that is not over never waits for the model alone, whatever the
\* concurrency argument was.
THEOREM NeverStuckSafe == Spec => []NeverStuck
  BY InvHolds, InvNeverStuck, PTL

\* A verdict is final.
THEOREM VerdictsSafe == Spec => VerdictsFinal
<1>1. Inv /\ [Next]_vars =>
        [\A p \in Pairs :
            pc[p] \in {"scored", "failed", "dropped"} => pc'[p] = pc[p]]_vars
  <2> SUFFICES ASSUME Inv, Next, NEW p \in Pairs, pc[p] \in {"scored", "failed", "dropped"}
               PROVE  pc'[p] = pc[p]
    OBVIOUS
  <2>1. CASE ProviderUnknown \/ Spawn \/ Launch \/ Cancel \/ Finish
    BY <2>1 DEF ProviderUnknown, Spawn, Launch, Cancel, Finish, Inv, Coherent
  <2>2. ASSUME NEW q \in Pairs, Acquire(q) PROVE pc'[p] = pc[p]
    BY <2>2 DEF Acquire, MayAcquire, Inv, Types
  <2>3. ASSUME NEW q \in Pairs, pc[q] \in {"queued", "calling"},
               NEW v \in {"scored", "failed"}, Settle(q, v)
        PROVE  pc'[p] = pc[p]
    BY <2>3 DEF Settle, Inv, Types
  <2>4. ASSUME NEW q \in Pairs, pc[q] = "calling", NEW e \in Exceptions, AttemptEnds(q, e)
        PROVE  pc'[p] = pc[p]
    BY <2>3, <2>4 DEF AttemptEnds
  <2>5. [class |-> "TimeoutError", marked |-> FALSE] \in Exceptions
    BY DEF Exceptions, ErrorClasses
  <2>6. QED
    BY <2>1, <2>2, <2>3, <2>4, <2>5
    DEF Next, AttemptReturns, AttemptRaises, TimeoutFires, TimerRuns, CancelArrives,
        Inv, Coherent
<1>2. QED
  BY <1>1, InvHolds, PTL DEF Spec, VerdictsFinal

----------------------------------------------------------------------------
(* score_pairs implements BatchContract *)

ScoredPairs == {p \in Pairs : pc[p] = "scored"}
FailedPairs == {p \in Pairs : pc[p] = "failed"}

\* The verdicts of the contract count the pairs that are finished.
LEMMA VerdictCounts ==
    /\ Cardinality(ScoredPairs) \in Nat
    /\ Cardinality(FailedPairs) \in Nat
    /\ Cardinality(Finished) = Cardinality(ScoredPairs) + Cardinality(FailedPairs)
<1>1. /\ Finished = ScoredPairs \cup FailedPairs
      /\ ScoredPairs \cap FailedPairs = {}
  BY DEF Finished, ScoredPairs, FailedPairs
<1>2. IsFiniteSet(ScoredPairs) /\ IsFiniteSet(FailedPairs)
      /\ Cardinality(ScoredPairs) \in Nat /\ Cardinality(FailedPairs) \in Nat
  BY PairSets DEF ScoredPairs, FailedPairs
<1>3. Cardinality(Finished) = Cardinality(ScoredPairs) + Cardinality(FailedPairs)
                              - Cardinality(ScoredPairs \cap FailedPairs)
  BY <1>1, <1>2, FS_Union
<1>4. Cardinality(ScoredPairs \cap FailedPairs) = 0
  BY <1>1, FS_EmptySet
<1>5. QED
  BY <1>2, <1>3, <1>4

\* The end of a pair's task is a Decide step of the contract.
LEMMA SettleDecides ==
    ASSUME Inv, Inv', NEW p \in Pairs, pc[p] \in {"queued", "calling"},
           NEW v \in {"scored", "failed"}, Settle(p, v), phase' = phase
    PROVE  Contract!Decide
<1>1. phase \in {"running", "cancelling"}
  BY ActiveBatch DEF Inv
<1>2. pc' = [pc EXCEPT ![p] = v] /\ reported' = done + 1
  BY DEF Settle
<1>3. p \notin ScoredPairs /\ p \notin FailedPairs
  BY DEF ScoredPairs, FailedPairs
<1>4. Cardinality(Finished) + 1 <= NumPairs
  <2>1. Finished \cup {p} \in SUBSET Pairs /\ p \notin Finished /\ Finished \in SUBSET Pairs
    BY DEF Finished
  <2>2. Cardinality(Finished \cup {p}) = Cardinality(Finished) + 1
    BY <2>1, OneMore
  <2>3. QED
    BY <2>1, <2>2, PairSets
<1>5. \/ /\ Cardinality(ScoredPairs') = Cardinality(ScoredPairs) + 1
         /\ Cardinality(FailedPairs') = Cardinality(FailedPairs)
      \/ /\ Cardinality(ScoredPairs') = Cardinality(ScoredPairs)
         /\ Cardinality(FailedPairs') = Cardinality(FailedPairs) + 1
  <2>1. CASE v = "scored"
    <3>1. ScoredPairs' = ScoredPairs \cup {p} /\ FailedPairs' = FailedPairs
      BY <1>2, <2>1 DEF ScoredPairs, FailedPairs, Inv, Types
    <3>2. Cardinality(ScoredPairs') = Cardinality(ScoredPairs) + 1
      BY <3>1, <1>3, OneMore DEF ScoredPairs
    <3>3. QED
      BY <3>1, <3>2
  <2>2. CASE v = "failed"
    <3>1. FailedPairs' = FailedPairs \cup {p} /\ ScoredPairs' = ScoredPairs
      BY <1>2, <2>2 DEF ScoredPairs, FailedPairs, Inv, Types
    <3>2. Cardinality(FailedPairs') = Cardinality(FailedPairs) + 1
      BY <3>1, <1>3, OneMore DEF FailedPairs
    <3>3. QED
      BY <3>1, <3>2
  <2>3. QED
    BY <2>1, <2>2
<1>6. Cardinality(ScoredPairs) + Cardinality(FailedPairs) < NumPairs
  BY <1>4, VerdictCounts
<1>7. reported' = Cardinality(ScoredPairs)' + Cardinality(FailedPairs)'
  <2>1. done = Cardinality(Finished)
    BY DEF Inv, ProgressExact
  <2>2. QED
    BY <1>2, <1>5, <2>1, VerdictCounts
<1>8. QED
  BY <1>1, <1>5, <1>6, <1>7 DEF Contract!Decide, Contract!Decided, ScoredPairs, FailedPairs

\* A step that leaves the tasks' verdicts and the open phase alone stutters.
LEMMA Stutter ==
    ASSUME UNCHANGED reported, ScoredPairs' = ScoredPairs, FailedPairs' = FailedPairs,
           \/ phase' = phase
           \/ {phase, phase'} \subseteq {"spawned", "running", "cancelling"}
    PROVE  UNCHANGED Contract!vars
  BY DEF Contract!vars, ScoredPairs, FailedPairs

\* The batch starts as the contract's batch does.
LEMMA InitRefines == Init => Contract!Init
<1> SUFFICES ASSUME Init PROVE Contract!Init
  OBVIOUS
<1>1. ScoredPairs = {} /\ FailedPairs = {}
  BY DEF Init, ScoredPairs, FailedPairs
<1>2. Cardinality(ScoredPairs) = 0 /\ Cardinality(FailedPairs) = 0
  BY <1>1, FS_EmptySet
<1>3. QED
  BY <1>2 DEF Init, Contract!Init, ScoredPairs, FailedPairs

\* An attempt that ends either settles its pair, which is a Decide of the
\* contract, or is retried, which the contract does not see.
LEMMA AttemptEndsRefines ==
    ASSUME Inv, Inv', NEW p \in Pairs, pc[p] = "calling",
           NEW e \in Exceptions, AttemptEnds(p, e), phase' = phase
    PROVE  Contract!Decide \/ UNCHANGED Contract!vars
<1>1. CASE MayRetry(p, e)
  <2>1. UNCHANGED <<pc, reported>>
    BY <1>1 DEF AttemptEnds
  <2>2. QED
    BY <2>1, Stutter DEF ScoredPairs, FailedPairs
<1>2. CASE ~MayRetry(p, e)
  BY <1>2, SettleDecides DEF AttemptEnds
<1>3. QED
  BY <1>1, <1>2

\* Every step of score_pairs is a step of the contract or leaves it unchanged.
LEMMA NextRefines == Inv /\ Inv' /\ [Next]_vars => [Contract!Next]_(Contract!vars)
<1> SUFFICES ASSUME Inv, Inv', [Next]_vars
             PROVE  Contract!Next \/ UNCHANGED Contract!vars
  OBVIOUS
<1>1. CASE ProviderUnknown
  BY <1>1 DEF ProviderUnknown, Contract!Next, Contract!Refuse
<1>2. CASE Spawn
  BY <1>2 DEF Spawn, Contract!Next, Contract!Open
<1>3. CASE Launch
  <2>1. ScoredPairs' = ScoredPairs /\ FailedPairs' = FailedPairs
    BY <1>3 DEF Launch, ScoredPairs, FailedPairs, Inv, Coherent
  <2>2. QED
    BY <1>3, <2>1, Stutter DEF Launch
<1>4. CASE Cancel
  <2>1. ScoredPairs' = ScoredPairs /\ FailedPairs' = FailedPairs
    BY <1>4 DEF Cancel, ScoredPairs, FailedPairs, Inv, Coherent
  <2>2. QED
    BY <1>4, <2>1, Stutter DEF Cancel
<1>5. CASE Finish
  <2>1. UNCHANGED <<pc, reported>>
    BY <1>5 DEF Finish
  <2>2. CASE phase = "running"
    <3>1. Finished = Pairs
      BY <1>5, <2>2 DEF Finish, AllSettled, Inv, Coherent, Finished
    <3>2. Cardinality(ScoredPairs) + Cardinality(FailedPairs) = NumPairs
      BY <3>1, VerdictCounts, FS_Interval DEF Pairs
    <3>3. Contract!Return
      BY <1>5, <2>1, <2>2, <3>2
      DEF Finish, Contract!Return, Contract!Decided, ScoredPairs, FailedPairs
    <3>4. QED
      BY <3>3 DEF Contract!Next
  <2>3. CASE phase = "cancelling"
    BY <1>5, <2>1, <2>3 DEF Finish, Contract!Next, Contract!Abandon
  <2>4. QED
    BY <1>5, <2>2, <2>3 DEF Finish
<1>6. ASSUME NEW p \in Pairs, Acquire(p) PROVE UNCHANGED Contract!vars
  <2>1. ScoredPairs' = ScoredPairs /\ FailedPairs' = FailedPairs
    BY <1>6 DEF Acquire, MayAcquire, ScoredPairs, FailedPairs, Inv, Types
  <2>2. QED
    BY <1>6, <2>1, Stutter DEF Acquire, MayAcquire
<1>7. ASSUME NEW p \in Pairs, AttemptReturns(p) PROVE Contract!Decide
  BY <1>7, SettleDecides DEF AttemptReturns
<1>8. ASSUME NEW p \in Pairs, NEW e \in Exceptions, AttemptRaises(p, e)
      PROVE  Contract!Decide \/ UNCHANGED Contract!vars
  BY <1>8, AttemptEndsRefines DEF AttemptRaises
<1>9. ASSUME NEW p \in Pairs, TimeoutFires(p)
      PROVE  Contract!Decide \/ UNCHANGED Contract!vars
  <2>1. [class |-> "TimeoutError", marked |-> FALSE] \in Exceptions
    BY DEF Exceptions, ErrorClasses
  <2>2. QED
    BY <1>9, <2>1, AttemptEndsRefines DEF TimeoutFires, TimerRuns
<1>10. ASSUME NEW p \in Pairs, CancelArrives(p) PROVE Contract!Decide
  <2>1. pc[p] \in {"queued", "calling"}
    BY <1>10 DEF CancelArrives, Inv, Coherent
  <2>2. QED
    BY <1>10, <2>1, SettleDecides DEF CancelArrives
<1>11. CASE UNCHANGED vars
  BY <1>11 DEF vars, Contract!vars
<1>12. QED
  BY <1>1, <1>2, <1>3, <1>4, <1>5, <1>6, <1>7, <1>8, <1>9, <1>10, <1>11
  DEF Next, Contract!Next

\* Every behaviour of score_pairs is one the contract allows: each pair is
\* decided once, progress is what was decided, and the batch returns complete.
THEOREM Refinement == Spec => Contract!Spec
  BY InitRefines, NextRefines, InvHolds, PTL DEF Spec, Contract!Spec

\* score_pairs implements BatchContract: one verdict for each pair, none changed
\* later, and a result only when all are in (pipeline.score_pairs).
THEOREM ContractKept == Spec => ImplementsContract
  BY Refinement DEF ImplementsContract
=============================================================================
