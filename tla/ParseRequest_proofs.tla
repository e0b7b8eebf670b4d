------------------------- MODULE ParseRequest_proofs -------------------------
(***************************************************************************)
(* Proofs about ParseRequest for every number of units, any mix of chunks  *)
(* and bundles, every concurrency and retry budget.  The inductive         *)
(* invariant is Inv: the types, the count of the slots, what a task can    *)
(* be at its kind (TaskCoherent), and what the handler's stage says of the *)
(* tasks and of the answer (StageCoherent).                                *)
(***************************************************************************)
EXTENDS ParseRequest, FiniteSetTheorems, WellFoundedInduction, TLAPS

USE NumUnitsAssumption, ConcurrencyAssumption, MaxRetriesAssumption, MaxListedAssumption

Places == {"idle", "waiting", "extracting", "calling", "parsed", "failed", "escaped"}

Types ==
    /\ kind \in [Units -> Kinds]
    /\ stage \in {"reading", "gathering", "logging", "over"}
    /\ at \in [Units -> Places]
    /\ attempt \in [Units -> 0..MaxRetries]
    /\ found \in [Units -> Nat]
    /\ free \in Nat

\* Only PDFs are extracted, only an extraction escapes, before any attempt; a
\* call about a PDF or a chunk gives one item, one about a bundle any number.
TaskCoherent ==
    /\ \A u \in Units : at[u] \in {"waiting", "extracting"} => attempt[u] = 0
    /\ \A u \in Units : at[u] \in {"extracting", "escaped"} => kind[u] = "pdf"
    /\ \A u \in Units : at[u] = "escaped" => attempt[u] = 0
    /\ \A u \in Units : at[u] = "waiting" => TakesSlot(u)
    /\ \A u \in Units : at[u] = "parsed" /\ kind[u] # "bundle" => found[u] = 1

AllIdle == \A u \in Units : at[u] = "idle"
NoneIdle == \A u \in Units : at[u] # "idle"
AllReturned == \A u \in Units : at[u] \in {"parsed", "failed"}

\* What each stage of the handler knows of the tasks, and what was answered.
StageCoherent ==
    /\ stage = "reading" => AllIdle /\ free = Concurrency /\ attempt = [u \in Units |-> 0]
    /\ stage = "gathering" => NoneIdle
    /\ stage = "logging" => AllReturned
    /\ stage # "over" => answer = NoAnswer /\ row = <<>>
    /\ stage = "over" =>
          \/ answer = [NoAnswer EXCEPT !.code = "4xx"] /\ row = <<>> /\ AllIdle
          \/ /\ answer = [NoAnswer EXCEPT !.code = "500"] /\ row = <<>>
             /\ AllIdle \/ (NoneIdle /\ Escaped # {})
          \/ /\ answer = [code |-> "200", parsed |-> Items, errors |-> Failed]
             /\ row \in {<<>>, <<[units |-> NumUnits, failed |-> Cardinality(Failed)]>>}
             /\ AllReturned

Inv == Types /\ SlotsConserved /\ TaskCoherent /\ StageCoherent

----------------------------------------------------------------------------
(* Lemmas on counting *)

\* A set of units is finite and no larger than the request.
LEMMA UnitSets ==
    ASSUME NEW S \in SUBSET Units
    PROVE  /\ IsFiniteSet(S)
           /\ Cardinality(S) \in Nat
           /\ Cardinality(S) <= NumUnits
<1>1. IsFiniteSet(Units) /\ Cardinality(Units) = NumUnits
  BY FS_Interval DEF Units
<1>2. IsFiniteSet(S) /\ Cardinality(S) <= NumUnits
  BY <1>1, FS_Subset
<1>3. QED
  BY <1>2, FS_CardinalityType

\* One more member, or one fewer, moves the size of a set of units by one.
LEMMA OneMore ==
    ASSUME NEW S \in SUBSET Units, NEW u \in Units, u \notin S
    PROVE  Cardinality(S \cup {u}) = Cardinality(S) + 1
  BY UnitSets, FS_AddElement

\* The same for a member taken out.
LEMMA OneFewer ==
    ASSUME NEW S \in SUBSET Units, NEW u \in S
    PROVE  Cardinality(S \ {u}) = Cardinality(S) - 1
  BY UnitSets, FS_RemoveElement

\* The members of S below m.
Below(S, m) == {n \in S : n < m}

\* These sets are finite, and they grow with m.
LEMMA BelowFacts ==
    ASSUME NEW S, S \subseteq Nat, NEW m \in S
    PROVE  /\ IsFiniteSet(Below(S, m))
           /\ \A n \in S : n < m => /\ Below(S, n) \subseteq Below(S, m)
                                    /\ Below(S, n) # Below(S, m)
<1>1. m \in Nat /\ \A n \in S : n \in Nat
  OBVIOUS
<1>2. Below(S, m) \subseteq 0..m
  <2> SUFFICES ASSUME NEW n \in S, n < m PROVE n \in 0..m
    BY DEF Below
  <2> QED
    BY <1>1
<1>3. IsFiniteSet(0..m)
  BY <1>1, FS_Interval
<1>4. IsFiniteSet(Below(S, m))
  BY <1>2, <1>3, FS_Subset
<1>5. ASSUME NEW n \in S, n < m
      PROVE  Below(S, n) \subseteq Below(S, m) /\ n \in Below(S, m) /\ n \notin Below(S, n)
  <2>1. n \in Below(S, m) /\ n \notin Below(S, n)
    BY <1>1, <1>5 DEF Below
  <2>2. \A o \in S : o < n => o < m
    BY <1>1, <1>5
  <2>3. Below(S, n) \subseteq Below(S, m)
    BY <2>2 DEF Below
  <2>4. QED
    BY <2>1, <2>3
<1>6. QED
  BY <1>4, <1>5

\* The least number principle: the strict subsets of finite sets are well founded.
LEMMA SmallestOf ==
    ASSUME NEW S \in SUBSET Nat, S # {}
    PROVE  \E m \in S : \A n \in S : m <= n
<1> DEFINE Belows == {Below(S, m) : m \in S}
<1>1. IsWellFoundedOn(StrictSubsetOrdering(S), FiniteSubsetsOf(S))
  BY FS_StrictSubsetOrderingWellFounded
<1>2. \A m \in S : Below(S, m) \in SUBSET S
  BY DEF Below
<1>3. Belows \subseteq FiniteSubsetsOf(S) /\ Belows # {}
  <2>1. \A m \in S : Below(S, m) \in FiniteSubsetsOf(S)
    BY <1>2, BelowFacts DEF FiniteSubsetsOf
  <2>2. QED
    BY <2>1
<1>4. PICK B \in Belows : \A C \in Belows : <<C, B>> \notin StrictSubsetOrdering(S)
  <2> HIDE DEF Belows
  <2> QED
    BY <1>1, <1>3, WFMin
<1>5. PICK m \in S : B = Below(S, m)
  OBVIOUS
<1>6. ASSUME NEW n \in S, n < m PROVE FALSE
  <2>1. <<Below(S, n), B>> \in StrictSubsetOrdering(S)
    BY <1>2, <1>5, <1>6, BelowFacts DEF StrictSubsetOrdering
  <2>2. QED
    BY <1>4, <2>1
<1>7. QED
  BY <1>6

\* The tasks that hold a slot of the semaphore.
Holders == {u \in AtWork : TakesSlot(u)}

\* The first tasks that get slots are no more than there are slots.
LEMMA FirstHolders ==
    ASSUME Types
    PROVE  Cardinality({u \in Units : TakesSlot(u) /\ u <= Concurrency}) \in 0..Concurrency
<1> DEFINE S == {u \in Units : TakesSlot(u) /\ u <= Concurrency}
<1>1. IsFiniteSet(1..Concurrency) /\ Cardinality(1..Concurrency) = Concurrency
  BY FS_Interval
<1>2. S \subseteq 1..Concurrency
  BY DEF Units
<1>3. Cardinality(S) <= Concurrency
  BY <1>1, <1>2, FS_Subset
<1>4. Cardinality(S) \in Nat
  BY UnitSets
<1>5. QED
  BY <1>3, <1>4

----------------------------------------------------------------------------
(* The end of a task *)

\* A task at work belongs to a request that got as far as its tasks, and
\* either is awaited or was left behind by a server error.
LEMMA ActiveRequest ==
    ASSUME Types, StageCoherent, NEW u \in Units,
           at[u] \in {"waiting", "extracting", "calling"}
    PROVE  /\ NoneIdle
           /\ \/ stage = "gathering"
              \/ /\ stage = "over" /\ Escaped # {}
                 /\ answer = [NoAnswer EXCEPT !.code = "500"] /\ row = <<>>
  BY DEF Types, StageCoherent, AllIdle, AllReturned

\* Whatever moves a task that has started on, the request's stage, answer and
\* rows being left alone, keeps the stage in step with the tasks.
LEMMA TaskMoves ==
    ASSUME Types, StageCoherent, NEW u \in Units, NEW v \in Places \ {"idle"},
           at[u] \in {"waiting", "extracting", "calling"},
           at' = [at EXCEPT ![u] = v], UNCHANGED <<stage, row, answer>>
    PROVE  StageCoherent'
<1>1. NoneIdle' /\ Escaped \subseteq Escaped'
  BY ActiveRequest DEF Types, NoneIdle, Escaped
<1>2. QED
  BY <1>1, ActiveRequest DEF StageCoherent

\* A task that ends gives back the slot it holds.
LEMMA SettleInv ==
    ASSUME Inv, NEW u \in Units, at[u] \in {"extracting", "calling"},
           NEW v \in {"parsed", "failed", "escaped"}, Settle(u, v),
           v = "escaped" => at[u] = "extracting",
           NEW n \in Nat, found' = [found EXCEPT ![u] = n],
           v = "parsed" /\ kind[u] # "bundle" => n = 1,
           UNCHANGED <<kind, stage, attempt, row, answer>>
    PROVE  Inv'
<1>1. /\ at' = [at EXCEPT ![u] = v]
      /\ free' = IF TakesSlot(u) THEN free + 1 ELSE free
  BY DEF Settle
<1>2. Types'
  BY <1>1 DEF Inv, Types, Places
<1>3. SlotsConserved'
  <2>1. Holders' = Holders \ {u}
    BY <1>1 DEF Holders, AtWork, TakesSlot, Inv, Types
  <2>2. u \in Holders <=> TakesSlot(u)
    BY DEF Holders, AtWork
  <2>3. Holders \in SUBSET Units
    BY DEF Holders, AtWork
  <2>4. CASE TakesSlot(u)
    <3>1. Cardinality(Holders') = Cardinality(Holders) - 1
      BY <2>1, <2>2, <2>3, <2>4, OneFewer
    <3>2. Cardinality(Holders) \in Nat /\ free \in Nat
      BY <2>3, UnitSets DEF Inv, Types
    <3>3. QED
      BY <1>1, <2>4, <3>1, <3>2 DEF Inv, SlotsConserved, Holders
  <2>5. CASE ~TakesSlot(u)
    <3>1. Holders' = Holders
      BY <2>1, <2>2, <2>5
    <3>2. QED
      BY <1>1, <2>5, <3>1 DEF Inv, SlotsConserved, Holders
  <2>6. QED
    BY <2>4, <2>5
<1>4. TaskCoherent'
  BY <1>1 DEF Inv, Types, TaskCoherent, TakesSlot
<1>5. StageCoherent'
  BY <1>1, TaskMoves DEF Inv, Places
<1>6. QED
  BY <1>2, <1>3, <1>4, <1>5 DEF Inv

\* An attempt that ends is made again in the same slot or settles the unit.
LEMMA AttemptEndsInv ==
    ASSUME Inv, NEW u \in Units, at[u] = "calling", NEW transient \in BOOLEAN,
           AttemptEnds(u, transient), UNCHANGED <<kind, found, stage, row, answer>>
    PROVE  Inv'
<1>1. CASE transient /\ MayRetry(u)
  <2>1. attempt' = [attempt EXCEPT ![u] = attempt[u] + 1] /\ UNCHANGED <<at, free>>
    BY <1>1 DEF AttemptEnds
  <2>2. attempt[u] + 1 \in 0..MaxRetries
    BY <1>1 DEF MayRetry, Inv, Types
  <2>3. Types'
    BY <2>1, <2>2 DEF Inv, Types
  <2>4. SlotsConserved' /\ TaskCoherent'
    BY <2>1 DEF Inv, Types, SlotsConserved, TaskCoherent, AtWork, TakesSlot
  <2>5. stage # "reading"
    BY DEF Inv, StageCoherent, AllIdle
  <2>6. StageCoherent'
    BY <2>1, <2>5 DEF Inv, StageCoherent, AllIdle, NoneIdle, AllReturned,
           Parsed, Failed, Escaped, Items, Results
  <2>7. QED
    BY <2>3, <2>4, <2>6 DEF Inv
<1>2. CASE ~(transient /\ MayRetry(u))
  <2>1. found' = [found EXCEPT ![u] = found[u]] /\ found[u] \in Nat
    BY DEF Inv, Types
  <2>2. QED
    BY <1>2, <2>1, SettleInv DEF AttemptEnds
<1>3. QED
  BY <1>1, <1>2

----------------------------------------------------------------------------
(* The steps *)

\* Nothing is at work before the fan-out, so all slots are free.
LEMMA InitInv == Init => Inv
<1> SUFFICES ASSUME Init PROVE Inv
  OBVIOUS
<1>1. Types /\ TaskCoherent /\ StageCoherent
  BY DEF Init, Types, TaskCoherent, StageCoherent, AllIdle, Kinds, Places
<1>2. {u \in AtWork : TakesSlot(u)} = {}
  BY DEF Init, AtWork
<1>3. Cardinality({u \in AtWork : TakesSlot(u)}) = 0
  BY <1>2, FS_EmptySet
<1>4. SlotsConserved
  BY <1>3 DEF Init, SlotsConserved
<1>5. QED
  BY <1>1, <1>4 DEF Inv

\* The fan-out hands a slot to each of the first tasks that take one.
LEMMA FanOutInv == ASSUME Inv, FanOut PROVE Inv'
<1> DEFINE S == {u \in Units : TakesSlot(u) /\ u <= Concurrency}
<1>1. /\ stage = "reading" /\ stage' = "gathering" /\ free' = Concurrency - Cardinality(S)
      /\ at' = [u \in Units |->
                  IF TakesSlot(u) /\ u > Concurrency THEN "waiting" ELSE FirstStep(u)]
      /\ UNCHANGED <<kind, found, attempt, row, answer>>
  BY DEF FanOut
<1>2. Cardinality(S) \in 0..Concurrency
  BY FirstHolders DEF Inv
<1>3. \A u \in Units : /\ at'[u] \in {"waiting", "extracting", "calling"}
                       /\ at'[u] = "extracting" => kind[u] = "pdf"
                       /\ at'[u] = "waiting" <=> TakesSlot(u) /\ u > Concurrency
  BY <1>1 DEF FirstStep
<1>4. Types'
  <2>1. at' \in [Units -> Places]
    BY <1>1, <1>3 DEF Places
  <2>2. QED
    BY <1>1, <1>2, <2>1 DEF Inv, Types
<1>5. SlotsConserved'
  <2>1. \A u \in Units : TakesSlot(u)' <=> TakesSlot(u)
    BY <1>1 DEF TakesSlot
  <2>2. {u \in AtWork : TakesSlot(u)}' = S
    <3>1. ASSUME NEW u \in Units
          PROVE  at'[u] \in {"extracting", "calling"} /\ TakesSlot(u)' <=> u \in S
      <4>1. u \in Int /\ Concurrency \in Int
        BY DEF Units
      <4>2. u > Concurrency <=> ~(u <= Concurrency)
        BY <4>1
      <4>3. QED
        BY <1>3, <2>1, <4>2
    <3>2. QED
      BY <3>1 DEF AtWork
  <2>3. free' + Cardinality({u \in AtWork : TakesSlot(u)})' = Concurrency
    <3>1. Cardinality({u \in AtWork : TakesSlot(u)})' = Cardinality(S)
      BY <2>2, Zenon
    <3>2. free' = Concurrency - Cardinality(S) /\ Cardinality(S) \in Int
      BY <1>1, <1>2
    <3>3. QED
      <4> HIDE DEF S
      <4>1. QED
        BY <3>1, <3>2
  <2>4. QED
    BY <2>3 DEF SlotsConserved
<1>6. TaskCoherent'
  BY <1>1, <1>3 DEF Inv, Types, TaskCoherent, TakesSlot, StageCoherent
<1>7. StageCoherent'
  BY <1>1, <1>3 DEF Inv, StageCoherent, NoneIdle
<1>8. QED
  BY <1>4, <1>5, <1>6, <1>7 DEF Inv

\* A waiting task takes a free slot and starts.
LEMMA AcquireInv == ASSUME Inv, NEW u \in Units, Acquire(u) PROVE Inv'
<1>1. /\ at[u] = "waiting" /\ free > 0 /\ free' = free - 1
      /\ at' = [at EXCEPT ![u] = FirstStep(u)]
      /\ UNCHANGED <<kind, found, stage, attempt, row, answer>>
  BY DEF Acquire, MayAcquire
<1>2. TakesSlot(u) /\ FirstStep(u) \in {"extracting", "calling"}
      /\ (FirstStep(u) = "extracting" => kind[u] = "pdf")
  BY <1>1 DEF Inv, TaskCoherent, FirstStep
<1>3. Types'
  BY <1>1, <1>2 DEF Inv, Types, Places
<1>4. SlotsConserved'
  <2>1. Holders' = Holders \cup {u} /\ u \notin Holders /\ Holders \in SUBSET Units
    BY <1>1, <1>2 DEF Holders, AtWork, TakesSlot, Inv, Types
  <2>2. Cardinality(Holders') = Cardinality(Holders) + 1
    BY <2>1, OneMore
  <2>3. Cardinality(Holders) \in Nat /\ free \in Nat
    BY <2>1, UnitSets DEF Inv, Types
  <2>4. QED
    BY <1>1, <2>2, <2>3 DEF Inv, SlotsConserved, Holders
<1>5. TaskCoherent'
  BY <1>1, <1>2 DEF Inv, Types, TaskCoherent, TakesSlot
<1>6. StageCoherent'
  BY <1>1, <1>2, TaskMoves DEF Inv, Places
<1>7. QED
  BY <1>3, <1>4, <1>5, <1>6 DEF Inv

\* The text of a PDF goes to the model, in the slot of its extraction.
LEMMA ExtractReturnsInv == ASSUME Inv, NEW u \in Units, ExtractReturns(u) PROVE Inv'
<1>1. /\ at[u] = "extracting" /\ at' = [at EXCEPT ![u] = "calling"]
      /\ UNCHANGED <<kind, found, stage, attempt, free, row, answer>>
  BY DEF ExtractReturns
<1>2. Types'
  BY <1>1 DEF Inv, Types, Places
<1>3. SlotsConserved'
  <2>1. {v \in AtWork : TakesSlot(v)}' = {v \in AtWork : TakesSlot(v)}
    BY <1>1 DEF AtWork, TakesSlot, Inv, Types
  <2>2. QED
    BY <1>1, <2>1 DEF Inv, SlotsConserved
<1>4. TaskCoherent'
  BY <1>1 DEF Inv, Types, TaskCoherent, TakesSlot
<1>5. StageCoherent'
  BY <1>1, TaskMoves DEF Inv, Places
<1>6. QED
  BY <1>2, <1>3, <1>4, <1>5 DEF Inv

\* A step of the handler alone moves no task and no slot.
LEMMA HandlerInv ==
    ASSUME Inv, UNCHANGED <<kind, found, at, attempt, free>>, StageCoherent',
           stage' \in {"reading", "gathering", "logging", "over"}
    PROVE  Inv'
<1>1. SlotsConserved' /\ TaskCoherent'
  BY DEF Inv, SlotsConserved, TaskCoherent, AtWork, TakesSlot
<1>2. QED
  BY <1>1 DEF Inv, Types

\* Every step keeps the invariant.
LEMMA NextInv == Inv /\ [Next]_vars => Inv'
<1> SUFFICES ASSUME Inv, [Next]_vars PROVE Inv'
  OBVIOUS
<1> USE DEF AllIdle, NoneIdle, AllReturned, NoAnswer, Parsed, Failed, Escaped, Items, Results
<1>1. CASE Refuse \/ ProviderUnknown
  <2>1. StageCoherent'
    BY <1>1 DEF Refuse, ProviderUnknown, Inv, StageCoherent
  <2>2. QED
    BY <1>1, <2>1, HandlerInv DEF Refuse, ProviderUnknown
<1>2. CASE GatherReturns
  <2>1. StageCoherent'
    BY <1>2 DEF GatherReturns, MayGather, Settled, Inv, StageCoherent
  <2>2. QED
    BY <1>2, <2>1, HandlerInv DEF GatherReturns
<1>3. CASE GatherRaises
  <2>1. StageCoherent'
    BY <1>3 DEF GatherRaises, Inv, StageCoherent
  <2>2. QED
    BY <1>3, <2>1, HandlerInv DEF GatherRaises
<1>4. CASE LogReturns
  <2>1. row' \in {<<>>, <<[units |-> NumUnits, failed |-> Cardinality(Failed)]>>}
    <3>1. row = <<>>
      BY <1>4 DEF LogReturns, Inv, StageCoherent
    <3>2. QED
      BY <1>4, <3>1 DEF LogReturns
  <2>2. Cardinality(Failed)' = Cardinality(Failed)
    BY <1>4 DEF LogReturns
  <2>3. StageCoherent'
    BY <1>4, <2>1, <2>2 DEF LogReturns, Inv, StageCoherent
  <2>4. QED
    BY <1>4, <2>3, HandlerInv DEF LogReturns
<1>5. ASSUME NEW u \in Units, ExtractRaises(u) PROVE Inv'
  <2>1. found' = [found EXCEPT ![u] = found[u]] /\ found[u] \in Nat
    BY <1>5 DEF ExtractRaises, Inv, Types
  <2>2. QED
    BY <1>5, <2>1, SettleInv DEF ExtractRaises
<1>6. ASSUME NEW u \in Units, CallReturns(u) PROVE Inv'
  <2>1. PICK n \in IF kind[u] = "bundle" THEN 0..MaxListed ELSE {1} :
           found' = [found EXCEPT ![u] = n]
    BY <1>6 DEF CallReturns
  <2>2. n \in Nat /\ (kind[u] # "bundle" => n = 1)
    OBVIOUS
  <2>3. QED
    BY <1>6, <2>1, <2>2, SettleInv DEF CallReturns
<1>7. ASSUME NEW u \in Units, CallRaises(u) \/ TimeoutFires(u) PROVE Inv'
  BY <1>7, AttemptEndsInv DEF CallRaises, TimeoutFires
<1>8. CASE UNCHANGED vars
  <2>1. StageCoherent'
    BY <1>8 DEF vars, Inv, StageCoherent
  <2>2. QED
    BY <1>8, <2>1, HandlerInv DEF vars, Inv, Types
<1>9. QED
  BY <1>1, <1>2, <1>3, <1>4, <1>5, <1>6, <1>7, <1>8,
     FanOutInv, AcquireInv, ExtractReturnsInv DEF Next

\* Inv is inductive, so it always holds.
LEMMA InvHolds == Spec => []Inv
  BY InitInv, NextInv, PTL DEF Spec

----------------------------------------------------------------------------
(* The theorems *)

\* The variables keep their types, and no unit is attempted more than
\* MaxRetries times after the first (llm_call.with_timeout_retry).
THEOREM TypeCorrect == Spec => []TypeOK
<1>1. Inv => TypeOK
  <2> SUFFICES ASSUME Inv PROVE TypeOK
    OBVIOUS
  <2>1. Cardinality({u \in AtWork : TakesSlot(u)}) \in Nat
    BY UnitSets DEF AtWork
  <2>2. free \in 0..Concurrency
    BY <2>1 DEF Inv, SlotsConserved, Types
  <2>3. Items \in SUBSET (Units \X Nat) /\ Failed \in SUBSET Units
    BY DEF Items, Results, Parsed, Failed, Inv, Types
  <2>4. Len(row) <= 1
    <3>1. \/ row = <<>>
          \/ row = <<[units |-> NumUnits, failed |-> Cardinality(Failed)]>>
      BY DEF Inv, StageCoherent
    <3>2. Len(<<>>) = 0 /\ \A x : Len(<<x>>) = 1
      OBVIOUS
    <3>3. Len(row) = 0 \/ Len(row) = 1
      BY <3>1, <3>2, Zenon
    <3>4. \A n : n = 0 \/ n = 1 => n <= 1
      OBVIOUS
    <3>5. QED
      BY <3>3, <3>4, Zenon
  <2>5. answer \in [code : {"none", "4xx", "200", "500"},
                    parsed : SUBSET (Units \X Nat), errors : SUBSET Units]
    <3>1. CASE stage # "over"
      BY <3>1 DEF Inv, StageCoherent, NoAnswer
    <3>2. CASE stage = "over"
      BY <3>2, <2>3 DEF Inv, StageCoherent, NoAnswer
    <3>3. QED
      BY <3>1, <3>2
  <2>6. QED
    BY <2>2, <2>4, <2>5 DEF Inv, Types, TypeOK, Places
<1>2. QED
  BY <1>1, InvHolds, PTL

\* The slots are held by the tasks at work, on every path in and out of one.
THEOREM SlotsSafe == Spec => []SlotsConserved
<1>1. Inv => SlotsConserved
  BY DEF Inv
<1>2. QED
  BY <1>1, InvHolds, PTL

\* What `parsed` lists of a unit are the results of its own call, and only if
\* the call succeeded.
LEMMA ListedOf ==
    ASSUME NEW u \in Units
    PROVE  {item \in Items : item[1] = u} = IF u \in Parsed THEN Results(u) ELSE {}
<1>1. ASSUME NEW v \in Units, NEW item \in Results(v) PROVE item[1] = v
  BY DEF Results
<1>2. QED
  BY <1>1 DEF Items, Parsed

\* A request answered 200 accounts for every unit by an error or by what its
\* call found, which only a bundle can make nothing; its row counts the errors.
THEOREM AnswerSafe == Spec => []AnswerAccounts
<1>1. Inv => AnswerAccounts
  <2> SUFFICES ASSUME Inv PROVE AnswerAccounts
    OBVIOUS
  <2>1. CASE answer.code # "200"
    BY <2>1 DEF Inv, StageCoherent, NoAnswer, AnswerAccounts
  <2>2. CASE answer.code = "200"
    <3>1. answer.parsed = Items /\ answer.errors = Failed /\ AllReturned
      BY <2>2 DEF Inv, StageCoherent, NoAnswer
    <3>2. row \in {<<>>, <<[units |-> NumUnits, failed |-> Cardinality(Failed)]>>}
      BY <2>2 DEF Inv, StageCoherent, NoAnswer
    <3>3. ASSUME NEW u \in Units
          PROVE  \/ at[u] = "failed" /\ u \in answer.errors /\ Listed(u) = {}
                 \/ /\ at[u] = "parsed" /\ u \notin answer.errors
                    /\ IF kind[u] = "bundle" THEN Listed(u) = Results(u)
                                             ELSE Listed(u) = {<<u, 0>>}
      <4>1. Listed(u) = IF u \in Parsed THEN Results(u) ELSE {}
        BY <3>1, ListedOf DEF Listed
      <4>2. CASE at[u] = "failed"
        BY <3>1, <4>1, <4>2 DEF Parsed, Failed
      <4>3. CASE at[u] = "parsed"
        <5>1. u \notin answer.errors /\ Listed(u) = Results(u)
          BY <3>1, <4>1, <4>3 DEF Parsed, Failed
        <5>2. kind[u] # "bundle" => Results(u) = {<<u, 0>>}
          BY <4>3 DEF Inv, TaskCoherent, Results
        <5>3. QED
          BY <4>3, <5>1, <5>2
      <4>4. QED
        BY <3>1, <4>2, <4>3 DEF AllReturned
    <3>4. QED
      BY <2>2, <3>1, <3>2, <3>3 DEF AnswerAccounts
  <2>3. QED
    BY <2>1, <2>2
<1>2. QED
  BY <1>1, InvHolds, PTL

\* A 500 means an unknown provider or an extraction that raised what
\* _parse_one does not expect; a failed model call never becomes one.
THEOREM ServerErrorSafe == Spec => []ServerErrorExplained
<1>1. Inv => ServerErrorExplained
  BY DEF Inv, StageCoherent, TaskCoherent, AllIdle, NoAnswer, ServerErrorExplained, Escaped
<1>2. QED
  BY <1>1, InvHolds, PTL

\* Tasks run on unowned only behind a request that a raising task ended.
THEOREM OwnedSafe == Spec => []WorkOwned
<1>1. Inv => WorkOwned
  <2> SUFFICES ASSUME Inv, stage # "gathering", NEW u \in Units,
                      at[u] \in {"waiting", "extracting", "calling"}
               PROVE  Escaped # {} /\ answer.code = "500"
    BY DEF WorkOwned
  <2>1. QED
    BY ActiveRequest DEF Inv, NoAnswer
<1>2. QED
  BY <1>1, InvHolds, PTL

----------------------------------------------------------------------------
(* That a request ends: what of EverythingEnds needs no fairness *)

\* The work left of a unit is a natural number.
LEMMA WorkLeftNat ==
    ASSUME Inv, NEW u \in Units PROVE WorkLeft(u) \in Nat /\ attempt[u] \in 0..MaxRetries
  BY DEF Inv, Types, WorkLeft

\* A task that takes one step on has less work left, and no other task more.
LEMMA TaskCountsDown ==
    ASSUME Inv, NEW u \in Units, NEW v \in Places, at' = [at EXCEPT ![u] = v],
           attempt' = attempt,
           \/ at[u] = "waiting" /\ v \in {"extracting", "calling"}
           \/ at[u] = "extracting" /\ v \in {"calling", "parsed", "failed", "escaped"}
           \/ at[u] = "calling" /\ v \in {"parsed", "failed", "escaped"}
    PROVE  /\ \A o \in Units : WorkLeft(o)' <= WorkLeft(o)
           /\ WorkLeft(u)' < WorkLeft(u)
<1>1. /\ \A o \in Units : at'[o] = IF o = u THEN v ELSE at[o]
      /\ attempt[u] \in 0..MaxRetries
      /\ at[u] \in {"waiting", "extracting"} => attempt[u] = 0
  BY DEF Inv, Types, TaskCoherent
<1>2. WorkLeft(u)' < WorkLeft(u) /\ WorkLeft(u)' <= WorkLeft(u)
  BY <1>1 DEF WorkLeft
<1>3. \A o \in Units : o # u => WorkLeft(o)' = WorkLeft(o) /\ WorkLeft(o) \in Nat
  BY <1>1, WorkLeftNat DEF WorkLeft
<1>4. QED
  BY <1>2, <1>3

\* A failed attempt takes an attempt from its unit, or all the work it had left.
LEMMA AttemptCountsDown ==
    ASSUME Inv, NEW u \in Units, at[u] = "calling", NEW transient \in BOOLEAN,
           AttemptEnds(u, transient)
    PROVE  /\ \A o \in Units : WorkLeft(o)' <= WorkLeft(o)
           /\ WorkLeft(u)' < WorkLeft(u)
<1>1. CASE transient /\ MayRetry(u)
  <2>1. at' = at /\ \A o \in Units : attempt'[o] = IF o = u THEN attempt[u] + 1 ELSE attempt[o]
    BY <1>1 DEF AttemptEnds, Inv, Types
  <2>2. WorkLeft(u)' < WorkLeft(u) /\ WorkLeft(u)' <= WorkLeft(u)
    BY <2>1, WorkLeftNat DEF WorkLeft
  <2>3. \A o \in Units : o # u => WorkLeft(o)' = WorkLeft(o) /\ WorkLeft(o) \in Nat
    BY <2>1, WorkLeftNat DEF WorkLeft
  <2>4. QED
    BY <2>2, <2>3
<1>2. CASE ~(transient /\ MayRetry(u))
  BY <1>2, TaskCountsDown DEF AttemptEnds, Settle, Places
<1>3. QED
  BY <1>1, <1>2

\* A step of the handler takes the request a stage on and no unit back.
LEMMA HandlerCountsDown ==
    ASSUME Inv, Refuse \/ ProviderUnknown \/ FanOut \/ GatherReturns \/ GatherRaises \/ LogReturns
    PROVE  /\ StagesLeft' < StagesLeft
           /\ \A u \in Units : WorkLeft(u)' <= WorkLeft(u)
<1>1. StagesLeft' < StagesLeft
  BY DEF Refuse, ProviderUnknown, FanOut, GatherReturns, MayGather, GatherRaises,
         LogReturns, StagesLeft
<1>2. ASSUME NEW u \in Units PROVE WorkLeft(u)' <= WorkLeft(u)
  <2>1. CASE FanOut
    <3>1. at[u] = "idle" /\ at'[u] \in {"waiting", "extracting", "calling"}
          /\ attempt'[u] = 0
      BY <2>1 DEF FanOut, FirstStep, Inv, StageCoherent, AllIdle
    <3>2. QED
      BY <3>1 DEF WorkLeft
  <2>2. CASE ~FanOut
    <3>1. at' = at /\ attempt' = attempt
      BY <2>2 DEF Refuse, ProviderUnknown, GatherReturns, GatherRaises, LogReturns
    <3>2. QED
      BY <3>1, WorkLeftNat DEF WorkLeft
  <2>3. QED
    BY <2>1, <2>2
<1>3. QED
  BY <1>1, <1>2

\* A step of a task takes work from its unit, gives none to another, and leaves
\* the handler where it is.
LEMMA UnitCountsDown ==
    ASSUME Inv, NEW u \in Units,
           \/ Acquire(u) \/ ExtractReturns(u) \/ ExtractRaises(u)
           \/ CallReturns(u) \/ CallRaises(u) \/ TimeoutFires(u)
    PROVE  /\ stage' = stage
           /\ \A o \in Units : WorkLeft(o)' <= WorkLeft(o)
           /\ WorkLeft(u)' < WorkLeft(u)
<1>1. CASE Acquire(u)
  BY <1>1, TaskCountsDown DEF Acquire, MayAcquire, FirstStep, Places
<1>2. CASE ExtractReturns(u)
  BY <1>2, TaskCountsDown DEF ExtractReturns, Places
<1>3. CASE ExtractRaises(u)
  BY <1>3, TaskCountsDown DEF ExtractRaises, Settle, Places
<1>4. CASE CallReturns(u)
  BY <1>4, TaskCountsDown DEF CallReturns, Settle, Places
<1>5. CASE CallRaises(u) \/ TimeoutFires(u)
  BY <1>5, AttemptCountsDown DEF CallRaises, TimeoutFires
<1>6. QED
  BY <1>1, <1>2, <1>3, <1>4, <1>5

\* No step of a request is for free, so it makes a bounded number of them, the
\* ones nobody waits for included: three stages, and MaxRetries + 4 for each unit.
THEOREM EveryStepCountsSafe == Spec => EveryStepCounts
<1> DEFINE Counts ==
        /\ StagesLeft' <= StagesLeft
        /\ \A u \in Units : WorkLeft(u)' <= WorkLeft(u)
        /\ \/ StagesLeft' < StagesLeft
           \/ \E u \in Units : WorkLeft(u)' < WorkLeft(u)
<1>1. ASSUME Inv, Next PROVE Counts
  <2>1. StagesLeft \in Nat /\ StagesLeft' \in Nat
    BY DEF StagesLeft
  <2>2. CASE Refuse \/ ProviderUnknown \/ FanOut \/ GatherReturns \/ GatherRaises \/ LogReturns
    BY <1>1, <2>1, <2>2, HandlerCountsDown
  <2>3. ASSUME NEW u \in Units,
               \/ Acquire(u) \/ ExtractReturns(u) \/ ExtractRaises(u)
               \/ CallReturns(u) \/ CallRaises(u) \/ TimeoutFires(u)
        PROVE  Counts
    <3>1. /\ stage' = stage /\ \A o \in Units : WorkLeft(o)' <= WorkLeft(o)
          /\ WorkLeft(u)' < WorkLeft(u)
      BY <1>1, <2>3, UnitCountsDown
    <3>2. StagesLeft' = StagesLeft
      BY <3>1 DEF StagesLeft
    <3>3. QED
      BY <2>1, <3>1, <3>2
  <2>4. QED
    BY <1>1, <2>2, <2>3 DEF Next
<1>2. Inv /\ [Next]_vars => [Counts]_vars
  BY <1>1
<1>3. QED
  BY <1>2, InvHolds, PTL DEF Spec, EveryStepCounts

\* Of the tasks that wait for the semaphore one has waited the longest.
LEMMA LongestWaiting ==
    ASSUME NEW u \in Units, at[u] = "waiting"
    PROVE  \E v \in Units : at[v] = "waiting" /\ \A o \in Units : at[o] = "waiting" => v <= o
<1> DEFINE Waiting == {v \in Units : at[v] = "waiting"}
<1>1. Waiting # {} /\ Waiting \in SUBSET Nat
  BY DEF Units
<1>2. \E v \in Waiting : \A o \in Waiting : v <= o
  BY <1>1, SmallestOf
<1>3. QED
  BY <1>2

\* A task that waits has others before it in the slots, or may start.
LEMMA InvNeverStuck == Inv => NeverStuck
<1> SUFFICES ASSUME Inv, \A v \in Units : at[v] \notin {"extracting", "calling"},
                    \A v \in Units : ~MayAcquire(v), stage \notin {"reading", "logging"}
             PROVE  \/ stage = "over" /\ \A u \in Units : at[u] = "idle" \/ u \in Settled
                    \/ MayGather
                    \/ stage = "gathering" /\ Escaped # {}
  BY DEF NeverStuck
<1>1. \A u \in Units : at[u] # "waiting"
  <2> SUFFICES ASSUME NEW u \in Units, at[u] = "waiting" PROVE FALSE
    OBVIOUS
  <2>1. PICK v \in Units : at[v] = "waiting" /\ \A o \in Units : at[o] = "waiting" => v <= o
    BY LongestWaiting
  <2>2. {o \in AtWork : TakesSlot(o)} = {}
    BY DEF AtWork
  <2>3. Cardinality({o \in AtWork : TakesSlot(o)}) = 0
    BY <2>2, FS_EmptySet
  <2>4. free > 0
    BY <2>3 DEF Inv, Types, SlotsConserved
  <2>5. QED
    BY <2>1, <2>4 DEF MayAcquire
<1>2. \A u \in Units : at[u] = "idle" \/ u \in Settled
  BY <1>1 DEF Inv, Types, Places, Settled, Parsed, Failed, Escaped
<1>3. CASE stage = "over"
  BY <1>2, <1>3
<1>4. CASE stage = "gathering"
  <2>1. Settled = Units
    BY <1>2, <1>4 DEF Inv, StageCoherent, NoneIdle, Settled, Parsed, Failed, Escaped
  <2>2. QED
    BY <1>4, <2>1 DEF MayGather
<1>5. QED
  BY <1>3, <1>4 DEF Inv, Types

\* What a request has left to do never waits for the model alone, whatever mix
\* of files and bundles it has.
THEOREM NeverStuckSafe == Spec => []NeverStuck
  BY InvHolds, InvNeverStuck, PTL

\* No verdict is revised, and nothing of the answer once it was given.
THEOREM VerdictsSafe == Spec => VerdictsFinal
<1>1. ASSUME Inv, Next
      PROVE  /\ \A u \in Settled : at'[u] = at[u] /\ found'[u] = found[u]
             /\ stage = "over" => UNCHANGED <<stage, answer, row>>
  <2>1. CASE Refuse \/ ProviderUnknown \/ FanOut \/ GatherReturns \/ GatherRaises \/ LogReturns
    BY <1>1, <2>1 DEF Refuse, ProviderUnknown, FanOut, GatherReturns, MayGather, GatherRaises,
           LogReturns, Inv, StageCoherent, AllIdle, Settled, Parsed, Failed, Escaped
  <2>2. ASSUME NEW u \in Units, NEW v \in Places, at' = [at EXCEPT ![u] = v] \/ at' = at,
               NEW n \in Nat, found' = [found EXCEPT ![u] = n] \/ found' = found,
               at[u] \in {"waiting", "extracting", "calling"}, UNCHANGED <<stage, answer, row>>
        PROVE  /\ \A o \in Settled : at'[o] = at[o] /\ found'[o] = found[o]
               /\ stage = "over" => UNCHANGED <<stage, answer, row>>
    BY <1>1, <2>2 DEF Inv, Types, Settled, Parsed, Failed, Escaped
  <2>3. ASSUME NEW u \in Units, at[u] = "calling", NEW transient \in BOOLEAN,
               AttemptEnds(u, transient), UNCHANGED <<found, stage, answer, row>>
        PROVE  /\ \A o \in Settled : at'[o] = at[o] /\ found'[o] = found[o]
               /\ stage = "over" => UNCHANGED <<stage, answer, row>>
    BY <2>2, <2>3 DEF AttemptEnds, Settle, Places
  <2>4. ASSUME NEW u \in Units, CallRaises(u) \/ TimeoutFires(u)
        PROVE  /\ \A o \in Settled : at'[o] = at[o] /\ found'[o] = found[o]
               /\ stage = "over" => UNCHANGED <<stage, answer, row>>
    BY <2>3, <2>4 DEF CallRaises, TimeoutFires
  <2>5. ASSUME NEW u \in Units,
               Acquire(u) \/ ExtractReturns(u) \/ ExtractRaises(u) \/ CallReturns(u)
        PROVE  /\ \A o \in Settled : at'[o] = at[o] /\ found'[o] = found[o]
               /\ stage = "over" => UNCHANGED <<stage, answer, row>>
    BY <2>2, <2>5 DEF Acquire, MayAcquire, FirstStep, ExtractReturns, ExtractRaises,
           CallReturns, Settle, Places
  <2>6. QED
    BY <1>1, <2>1, <2>4, <2>5 DEF Next
<1>2. Inv /\ [Next]_vars =>
        [/\ \A u \in Settled : at'[u] = at[u] /\ found'[u] = found[u]
         /\ stage = "over" => UNCHANGED <<stage, answer, row>>]_vars
  BY <1>1
<1>3. QED
  BY <1>2, InvHolds, PTL DEF Spec, VerdictsFinal

----------------------------------------------------------------------------
(* Refinement *)

\* The verdicts of the contract, as sets: an escaped exception counts as failed.
Broken == Failed \cup Escaped

\* The sizes of the sets of verdicts add up.
LEMMA VerdictCounts ==
    /\ Cardinality(Parsed) \in Nat /\ Cardinality(Broken) \in Nat
    /\ Cardinality(Settled) = Cardinality(Parsed) + Cardinality(Broken)
<1>1. Settled = Parsed \cup Broken /\ Parsed \cap Broken = {}
  BY DEF Settled, Parsed, Broken, Failed, Escaped
<1>2. /\ IsFiniteSet(Parsed) /\ IsFiniteSet(Broken)
      /\ Cardinality(Parsed) \in Nat /\ Cardinality(Broken) \in Nat
  BY UnitSets DEF Parsed, Broken, Failed, Escaped
<1>3. Cardinality(Settled) = Cardinality(Parsed) + Cardinality(Broken)
                             - Cardinality(Parsed \cap Broken)
  BY <1>1, <1>2, FS_Union
<1>4. Cardinality(Parsed \cap Broken) = 0
  BY <1>1, FS_EmptySet
<1>5. QED
  BY <1>2, <1>3, <1>4

\* A request whose tasks exist and may still run is an open batch.
LEMMA ActiveIsOpen ==
    ASSUME Types, StageCoherent, NEW u \in Units,
           at[u] \in {"waiting", "extracting", "calling"}
    PROVE  BatchPhase = "open"
  BY ActiveRequest DEF BatchPhase, NoneIdle, NoAnswer

\* A task that starts, goes on or is retried changes nothing the contract sees.
LEMMA Stutter ==
    ASSUME Inv, NEW u \in Units, NEW v \in {"extracting", "calling"},
           at[u] \in {"waiting", "extracting", "calling"},
           at' = [at EXCEPT ![u] = v], UNCHANGED <<stage, answer>>
    PROVE  UNCHANGED Contract!vars
<1>1. Parsed' = Parsed /\ Failed' = Failed /\ Escaped' = Escaped
  BY DEF Parsed, Failed, Escaped, Inv, Types
<1>2. BatchPhase = "open"
  BY ActiveIsOpen DEF Inv
<1>3. BatchPhase' = "open"
  <2>1. NoneIdle'
    BY ActiveRequest DEF NoneIdle, Inv, Types
  <2>2. stage = "gathering" \/ (stage = "over" /\ answer.code = "500")
    BY ActiveRequest DEF Inv, NoAnswer
  <2>3. QED
    BY <2>1, <2>2 DEF BatchPhase, NoneIdle
<1>4. QED
  BY <1>1, <1>2, <1>3 DEF Contract!vars, Settled

\* The end of a unit's task is a Decide of the contract.
LEMMA SettleDecides ==
    ASSUME Inv, NEW u \in Units, at[u] \in {"extracting", "calling"},
           NEW v \in {"parsed", "failed", "escaped"}, Settle(u, v),
           UNCHANGED <<stage, answer>>
    PROVE  Contract!Decide
<1>1. at' = [at EXCEPT ![u] = v]
  BY DEF Settle
<1>2. BatchPhase = "open"
  BY ActiveIsOpen DEF Inv
<1>3. BatchPhase' = "open"
  <2>1. NoneIdle'
    BY <1>1, ActiveRequest DEF NoneIdle, Inv, Types
  <2>2. stage = "gathering" \/ (stage = "over" /\ answer.code = "500")
    BY ActiveRequest DEF Inv, NoAnswer
  <2>3. QED
    BY <2>1, <2>2 DEF BatchPhase, NoneIdle
<1>4. u \notin Settled /\ Settled \in SUBSET Units /\ Settled' = Settled \cup {u}
  BY <1>1 DEF Settled, Parsed, Failed, Escaped, Inv, Types
<1>5. Cardinality(Settled') = Cardinality(Settled) + 1 /\ Cardinality(Settled) < NumUnits
  <2>1. Cardinality(Settled \cup {u}) = Cardinality(Settled) + 1
    BY <1>4, OneMore
  <2>2. Cardinality(Settled \cup {u}) <= NumUnits /\ Cardinality(Settled) \in Nat
    BY <1>4, UnitSets
  <2>3. QED
    BY <1>4, <2>1, <2>2
<1>6. \/ /\ Cardinality(Parsed') = Cardinality(Parsed) + 1
         /\ Cardinality(Broken') = Cardinality(Broken)
      \/ /\ Cardinality(Parsed') = Cardinality(Parsed)
         /\ Cardinality(Broken') = Cardinality(Broken) + 1
  <2>1. CASE v = "parsed"
    <3>1. Parsed' = Parsed \cup {u} /\ Broken' = Broken /\ u \notin Parsed
      BY <1>1, <2>1 DEF Parsed, Broken, Failed, Escaped, Inv, Types
    <3>2. QED
      BY <3>1, OneMore DEF Parsed
  <2>2. CASE v # "parsed"
    <3>1. Broken' = Broken \cup {u} /\ Parsed' = Parsed /\ u \notin Broken
      BY <1>1, <2>2 DEF Parsed, Broken, Failed, Escaped, Inv, Types
    <3>2. Broken \in SUBSET Units
      BY DEF Broken, Failed, Escaped
    <3>3. QED
      BY <3>1, <3>2, OneMore
  <2>3. QED
    BY <2>1, <2>2
<1>7. QED
  BY <1>2, <1>3, <1>5, <1>6, VerdictCounts
     DEF Contract!Decide, Contract!Decided, Broken

\* The handler's start is the contract's.
LEMMA InitRefines == Init => Contract!Init
<1> SUFFICES ASSUME Init PROVE Contract!Init
  OBVIOUS
<1>1. Parsed = {} /\ Broken = {} /\ Settled = {}
  BY DEF Init, Parsed, Broken, Settled, Failed, Escaped
<1>2. Cardinality(Parsed) = 0 /\ Cardinality(Broken) = 0 /\ Cardinality(Settled) = 0
  BY <1>1, FS_EmptySet
<1>3. BatchPhase = "new"
  BY DEF Init, BatchPhase
<1>4. QED
  BY <1>2, <1>3 DEF Contract!Init, Broken

\* An attempt that ends decides its unit or is made again.
LEMMA AttemptEndsRefines ==
    ASSUME Inv, NEW u \in Units, at[u] = "calling", NEW transient \in BOOLEAN,
           AttemptEnds(u, transient), UNCHANGED <<stage, answer>>
    PROVE  Contract!Decide \/ UNCHANGED Contract!vars
<1>1. CASE transient /\ MayRetry(u)
  BY <1>1 DEF AttemptEnds, Contract!vars, BatchPhase, Parsed, Failed, Escaped, Settled
<1>2. CASE ~(transient /\ MayRetry(u))
  BY <1>2, SettleDecides DEF AttemptEnds
<1>3. QED
  BY <1>1, <1>2

\* Every step of a parse request is a step of the contract or a stutter.
LEMMA NextRefines == Inv /\ Inv' /\ [Next]_vars => [Contract!Next]_(Contract!vars)
<1> SUFFICES ASSUME Inv, Inv', [Next]_vars
             PROVE  Contract!Next \/ UNCHANGED Contract!vars
  OBVIOUS
<1>a. 1 \in Units
  BY DEF Units
<1>b. (UNCHANGED at) => UNCHANGED <<Parsed, Failed, Escaped, Settled>>
  BY DEF Parsed, Failed, Escaped, Settled
<1>1. CASE Refuse \/ ProviderUnknown
  <2>1. stage = "reading" /\ stage' = "over" /\ UNCHANGED at /\ AllIdle
    BY <1>1 DEF Refuse, ProviderUnknown, Inv, StageCoherent
  <2>2. BatchPhase = "new" /\ BatchPhase' = "raised"
    BY <2>1 DEF BatchPhase, AllIdle
  <2>3. QED
    BY <1>b, <2>1, <2>2 DEF Contract!Next, Contract!Refuse
<1>2. CASE FanOut
  <2>1. BatchPhase = "new" /\ BatchPhase' = "open"
    BY <1>a, <1>2 DEF FanOut, BatchPhase, FirstStep
  <2>2. /\ Parsed' = Parsed /\ Failed' = Failed /\ Escaped' = Escaped
    BY <1>2 DEF FanOut, FirstStep, Parsed, Failed, Escaped, Inv, StageCoherent, AllIdle
  <2>3. QED
    BY <2>1, <2>2 DEF Contract!Next, Contract!Open, Settled
<1>3. CASE GatherReturns
  <2>1. /\ stage = "gathering" /\ stage' = "logging" /\ Settled = Units
        /\ UNCHANGED <<at, answer>> /\ NoneIdle /\ answer = NoAnswer
    BY <1>3 DEF GatherReturns, MayGather, Inv, StageCoherent
  <2>2. BatchPhase = "open" /\ BatchPhase' = "returned"
    BY <1>a, <2>1 DEF BatchPhase, NoneIdle, NoAnswer
  <2>3. Cardinality(Parsed) + Cardinality(Broken) = NumUnits
    BY <2>1, VerdictCounts, FS_Interval DEF Units
  <2>4. QED
    BY <1>b, <2>1, <2>2, <2>3 DEF Contract!Next, Contract!Return, Contract!Decided, Broken
<1>4. CASE GatherRaises
  <2>1. /\ stage = "gathering" /\ answer'.code = "500" /\ stage' = "over"
        /\ UNCHANGED at /\ NoneIdle
    BY <1>4 DEF GatherRaises, Inv, StageCoherent, NoAnswer
  <2>2. BatchPhase = "open" /\ BatchPhase' = "open"
    BY <1>a, <2>1 DEF BatchPhase, NoneIdle
  <2>3. QED
    BY <1>b, <2>1, <2>2 DEF Contract!vars
<1>5. CASE LogReturns
  <2>1. /\ stage = "logging" /\ answer = NoAnswer /\ answer'.code = "200"
        /\ stage' = "over" /\ UNCHANGED at /\ AllReturned
    BY <1>5 DEF LogReturns, Inv, StageCoherent
  <2>2. BatchPhase = "returned" /\ BatchPhase' = "returned"
    BY <1>a, <2>1 DEF BatchPhase, AllReturned, NoAnswer
  <2>3. QED
    BY <1>b, <2>1, <2>2 DEF Contract!vars
<1>6. ASSUME NEW u \in Units, Acquire(u) PROVE UNCHANGED Contract!vars
  BY <1>6, Stutter DEF Acquire, MayAcquire, FirstStep
<1>7. ASSUME NEW u \in Units, ExtractReturns(u) PROVE UNCHANGED Contract!vars
  BY <1>7, Stutter DEF ExtractReturns
<1>8. ASSUME NEW u \in Units, ExtractRaises(u) PROVE Contract!Decide
  BY <1>8, SettleDecides DEF ExtractRaises
<1>9. ASSUME NEW u \in Units, CallReturns(u) PROVE Contract!Decide
  BY <1>9, SettleDecides DEF CallReturns
<1>10. ASSUME NEW u \in Units, CallRaises(u) \/ TimeoutFires(u)
       PROVE  Contract!Decide \/ UNCHANGED Contract!vars
  BY <1>10, AttemptEndsRefines DEF CallRaises, TimeoutFires
<1>11. CASE UNCHANGED vars
  BY <1>b, <1>11 DEF vars, Contract!vars, BatchPhase
<1>12. QED
  BY <1>1, <1>2, <1>3, <1>4, <1>5, <1>6, <1>7, <1>8, <1>9, <1>10, <1>11
     DEF Next, Contract!Next

\* A parse request keeps the contract that score_pairs keeps: one verdict for
\* each file, chunk or bundle, and a return only when all are in.
THEOREM ContractKept == Spec => ImplementsContract
  BY InitRefines, NextRefines, InvHolds, PTL DEF Spec, ImplementsContract, Contract!Spec
=============================================================================
