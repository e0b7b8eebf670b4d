---------------------------- MODULE Boot_proofs ----------------------------
(***************************************************************************)
(* Proofs about Boot, for any number of processes, outages and kills.      *)
(***************************************************************************)
EXTENDS Boot, TLAPS

USE BoundsAssumption

----------------------------------------------------------------------------
(* The invariant *)

Existing == {t \in Tables : table[t] # "absent"}

\* The size of a set of tables.
Size(S) == (IF 1 \in S THEN 1 ELSE 0) + (IF 2 \in S THEN 1 ELSE 0)

AtWork(p) == pc[p] \in {"create", "index"}

\* The failed attempts of this boot.
Failed(p) == IF pc[p] \in {"asleep", "gone"} THEN attempt[p] ELSE attempt[p] - 1

\* How long p has slept tells its attempt.
Clocked ==
    \A p \in Processes :
        /\ pc[p] \in {"attempt", "create", "index", "asleep"} =>
              /\ attempt[p] \in 1..MaxAttempts
              /\ slept[p] = SleptBefore(attempt[p])
                            + (IF pc[p] = "asleep" THEN Wait(attempt[p]) ELSE 0)
        /\ pc[p] = "gone" => attempt[p] = MaxAttempts

\* Each failed attempt was a lost race or had the database fail.
Accounted ==
    \A p \in Processes :
        pc[p] \in {"attempt", "create", "index", "asleep", "gone"} =>
            /\ lost[p] <= Failed(p)
            /\ lost[p] < Failed(p) => refused[p] >= SleptBefore(Failed(p) - lost[p])

\* A race is lost to a table that is not looked for again.
Settled(p) == IF AtWork(p) THEN Existing \ todo[p] ELSE Existing
RacesBounded == \A p \in Processes : lost[p] <= Size(Settled(p))

\* What is missing is on the list of whoever creates tables.
Listed ==
    \A p \in Processes :
        /\ AtWork(p) => todo[p] # {} /\ Missing \subseteq todo[p]
        /\ pc[p] = "serving" => Missing = {}

\* A table without its indexes is accounted for.
BareExplained ==
    \A t \in Tables : table[t] = "bare" =>
        t \in cut \/ \E p \in Processes : t \in HalfMade(p)

Inv == TypeOK /\ Clocked /\ Accounted /\ RacesBounded /\ Listed /\ BareExplained

----------------------------------------------------------------------------
(* Lemmas *)

\* First picks a member.
LEMMA FirstIn ==
    ASSUME NEW S \in SUBSET Tables, S # {}
    PROVE  First(S) \in S
<1>1. \E t \in S : \A u \in S : t <= u
  <2>1. S \subseteq {1, 2}
    BY DEF Tables
  <2>2. CASE 1 \in S
    BY <2>1, <2>2
  <2>3. CASE 1 \notin S
    <3>1. S = {2}
      BY <2>1, <2>3
    <3>2. QED
      BY <3>1
  <2>4. QED
    BY <2>2, <2>3
<1>2. QED
  BY <1>1 DEF First

\* The sleeping times of init_db.
LEMMA Times ==
    /\ Wait(1) = 1 /\ Wait(2) = 2 /\ Wait(3) = 4 /\ Wait(4) = 8 /\ Wait(5) = 8
    /\ SleptBefore(1) = 0 /\ SleptBefore(2) = 1 /\ SleptBefore(3) = 3
    /\ SleptBefore(4) = 7 /\ SleptBefore(5) = 15
  BY DEF Wait, SleptBefore

\* A smaller set of tables has no larger size, and a set without one of its
\* members has one less.
LEMMA Sizes ==
    /\ \A S \in SUBSET Tables : Size(S) \in 0..2
    /\ \A S, T \in SUBSET Tables : S \subseteq T => Size(S) <= Size(T)
    /\ \A T \in SUBSET Tables : \A t \in T : Size(T \ {t}) + 1 = Size(T)
<1>1. \A S \in SUBSET Tables : Size(S) \in 0..2
  BY DEF Size, Tables
<1>2. ASSUME NEW S \in SUBSET Tables, NEW T \in SUBSET Tables, S \subseteq T
      PROVE  Size(S) <= Size(T)
  BY <1>2 DEF Size, Tables
<1>3. ASSUME NEW T \in SUBSET Tables, NEW t \in T
      PROVE  Size(T \ {t}) + 1 = Size(T)
  <2>1. t = 1 \/ t = 2
    BY DEF Tables
  <2>2. CASE t = 1
    BY <2>2 DEF Size
  <2>3. CASE t = 2
    BY <2>3 DEF Size
  <2>4. QED
    BY <2>1, <2>2, <2>3
<1>4. QED
  BY <1>1, <1>2, <1>3

\* What is settled stays so: a step that costs no race keeps the bound.
LEMMA RacesKept ==
    ASSUME TypeOK, TypeOK', RacesBounded,
           \A q \in Processes : lost'[q] = lost[q] /\ Settled(q) \subseteq Settled(q)'
    PROVE  RacesBounded'
<1>1. ASSUME NEW q \in Processes PROVE lost'[q] <= Size(Settled(q)')
  <2>1. Settled(q) \in SUBSET Tables /\ Settled(q)' \in SUBSET Tables
    BY DEF Settled, Existing
  <2>2. /\ Size(Settled(q)) <= Size(Settled(q)')
        /\ Size(Settled(q)) \in 0..2 /\ Size(Settled(q)') \in 0..2
    BY <2>1, Sizes
  <2>3. lost'[q] = lost[q] /\ lost[q] \in 0..2 /\ lost[q] <= Size(Settled(q))
    BY DEF TypeOK, RacesBounded
  <2>4. QED
    BY <2>2, <2>3
<1>2. QED
  BY <1>1 DEF RacesBounded, Size

----------------------------------------------------------------------------
(* The steps *)

\* At the start no process runs and no table exists.
LEMMA InitInv == Init => Inv
<1> SUFFICES ASSUME Init PROVE Inv
  OBVIOUS
<1>1. TypeOK
  BY DEF Init, TypeOK, MaxAttempts
<1>2. Clocked /\ Accounted /\ Listed /\ BareExplained
  BY DEF Init, Clocked, Accounted, Listed, AtWork, BareExplained
<1>3. RacesBounded
  <2>1. Existing = {} /\ \A p \in Processes : lost[p] = 0 /\ ~AtWork(p)
    BY DEF Init, Existing, AtWork
  <2>2. QED
    BY <2>1 DEF RacesBounded, Settled, Size
<1>4. QED
  BY <1>1, <1>2, <1>3 DEF Inv

\* A new boot begins with no attempt failed.
LEMMA StartUpInv ==
    ASSUME NEW p \in Processes, Inv, StartUp(p)
    PROVE  Inv'
<1>1. TypeOK'
  BY DEF Inv, TypeOK, StartUp, schema, bounds, MaxAttempts
<1>2. Clocked'
  BY Times DEF Inv, TypeOK, Clocked, StartUp, schema, bounds, MaxAttempts
<1>3. Accounted'
  BY Times DEF Inv, TypeOK, Accounted, Failed, StartUp, schema, bounds
<1>4. RacesBounded'
  <2>1. ASSUME NEW q \in Processes PROVE lost'[q] <= Size(Settled(q)')
    <3>1. Settled(q)' \in SUBSET Tables
      BY DEF Settled, Existing
    <3>2. Size(Settled(q)') \in 0..2
      BY <3>1, Sizes
    <3>3. CASE q = p
      BY <3>2, <3>3 DEF Inv, TypeOK, StartUp
    <3>4. CASE q # p
      <4>1. Settled(q)' = Settled(q) /\ lost'[q] = lost[q]
        BY <3>4 DEF Inv, TypeOK, StartUp, Settled, Existing, AtWork, schema
      <4>2. QED
        BY <4>1 DEF Inv, RacesBounded
    <3>5. QED
      BY <3>3, <3>4
  <2>2. QED
    BY <2>1 DEF RacesBounded, Size
<1>5. Listed' /\ BareExplained'
  BY DEF Inv, TypeOK, Listed, Missing, AtWork, BareExplained, HalfMade, StartUp, schema, bounds
<1>6. QED
  BY <1>1, <1>2, <1>3, <1>4, <1>5 DEF Inv

\* What is missing is what the process will create.
LEMMA InspectInv ==
    ASSUME NEW p \in Processes, Inv, Inspect(p)
    PROVE  Inv'
<1>1. TypeOK'
  BY DEF Inv, TypeOK, Inspect, Onward, Missing, schema, bounds, MaxAttempts
<1>2. Clocked'
  BY Times DEF Inv, TypeOK, Clocked, Inspect, Onward, Missing, schema, bounds, MaxAttempts
<1>3. Accounted'
  BY Times DEF Inv, TypeOK, Accounted, Failed, Inspect, Onward, Missing, schema, bounds
<1>4. RacesBounded'
  <2>1. \A q \in Processes : lost'[q] = lost[q] /\ Settled(q) \subseteq Settled(q)'
    BY DEF Inv, TypeOK, Listed, Settled, Existing, AtWork, Inspect, Onward, Missing, schema, bounds
  <2>2. QED
    BY <1>1, <2>1, RacesKept DEF Inv
<1>5. Listed'
  BY DEF Inv, TypeOK, Listed, Missing, AtWork, Inspect, Onward, Missing, schema, bounds
<1>6. BareExplained'
  BY DEF Inv, TypeOK, BareExplained, HalfMade, Inspect, Onward, Missing, schema, bounds
<1>7. QED
  BY <1>1, <1>2, <1>3, <1>4, <1>5, <1>6 DEF Inv

\* The new table was on the list of its process, and of every other one.
LEMMA CreateTableInv ==
    ASSUME NEW p \in Processes, Inv, CreateTable(p)
    PROVE  Inv'
<1>0. First(todo[p]) \in todo[p] /\ todo[p] \subseteq Tables /\ todo[p] # {}
  BY FirstIn DEF Inv, TypeOK, Listed, AtWork, CreateTable
<1>1. TypeOK'
  BY DEF Inv, TypeOK, CreateTable, bounds, MaxAttempts
<1>2. Clocked'
  BY Times DEF Inv, TypeOK, Clocked, CreateTable, bounds, MaxAttempts
<1>3. Accounted'
  BY Times DEF Inv, TypeOK, Accounted, Failed, CreateTable, bounds
<1>4. RacesBounded'
  <2>1. \A q \in Processes : lost'[q] = lost[q] /\ Settled(q) \subseteq Settled(q)'
    BY DEF Inv, TypeOK, Listed, Settled, Existing, AtWork, CreateTable, bounds
  <2>2. QED
    BY <1>1, <2>1, RacesKept DEF Inv
<1>5. Listed'
  BY DEF Inv, TypeOK, Listed, Missing, AtWork, CreateTable, bounds
<1>6. BareExplained'
  BY DEF Inv, TypeOK, BareExplained, HalfMade, CreateTable, bounds
<1>7. QED
  BY <1>1, <1>2, <1>3, <1>4, <1>5, <1>6 DEF Inv

\* The table it lost was on its list and is there now.
LEMMA CreateTableLosesInv ==
    ASSUME NEW p \in Processes, Inv, CreateTableLoses(p)
    PROVE  Inv'
<1>0. First(todo[p]) \in todo[p] /\ todo[p] \subseteq Tables
  BY FirstIn DEF Inv, TypeOK, Listed, AtWork, CreateTableLoses
<1>a. /\ lost' = [lost EXCEPT ![p] = lost[p] + 1] /\ lost[p] \in 0..2
      /\ AtWork(p) /\ First(todo[p]) \in Existing /\ table' = table /\ todo' = todo
      /\ pc' = [pc EXCEPT ![p] = "asleep"]
  BY <1>0 DEF Inv, TypeOK, CreateTableLoses, SleepAfterFailure, AtWork, Existing
<1>b. /\ Settled(p) = Existing \ todo[p] /\ Settled(p)' = Existing' /\ Existing' = Existing
      /\ \A q \in Processes \ {p} : Settled(q)' = Settled(q)
  BY <1>a DEF Inv, TypeOK, Settled, AtWork, Existing
<1>c. lost[p] + 1 <= Size(Existing) /\ Size(Existing) \in 0..2
  <2>1. Settled(p) \subseteq Existing \ {First(todo[p])}
    BY <1>0, <1>b
  <2>2. Size(Existing \ {First(todo[p])}) + 1 = Size(Existing) /\ Existing \in SUBSET Tables
    BY <1>a, Sizes DEF Existing
  <2>3. Size(Settled(p)) <= Size(Existing \ {First(todo[p])})
    BY <2>1, <2>2, Sizes
  <2>4. /\ Size(Settled(p)) \in 0..2 /\ Size(Existing) \in 0..2
        /\ Size(Existing \ {First(todo[p])}) \in 0..2
    BY <2>1, <2>2, Sizes
  <2>5. lost[p] <= Size(Settled(p))
    BY DEF Inv, RacesBounded
  <2>6. QED
    BY <1>a, <2>2, <2>3, <2>4, <2>5
<1>d. slept[p] + Wait(attempt[p]) \in 0..23
  <2>1. attempt[p] \in 1..5 /\ slept[p] = SleptBefore(attempt[p])
    <3>1. attempt[p] \in 1..5 /\ slept[p] = SleptBefore(attempt[p]) + 0
      BY DEF Inv, Clocked, CreateTableLoses, MaxAttempts
    <3>2. SleptBefore(attempt[p]) \in Int
      BY <3>1, Times
    <3>3. QED
      BY <3>1, <3>2
  <2>2. QED
    BY <2>1, Times
<1>1. TypeOK'
  BY <1>a, <1>c, <1>d DEF Inv, TypeOK, CreateTableLoses, SleepAfterFailure, bounds, MaxAttempts
<1>2. Clocked'
  BY Times DEF Inv, TypeOK, Clocked, CreateTableLoses, SleepAfterFailure, bounds, MaxAttempts
<1>3. Accounted'
  BY Times DEF Inv, TypeOK, Accounted, Failed, CreateTableLoses, SleepAfterFailure, bounds
<1>4. RacesBounded'
  <2>1. ASSUME NEW q \in Processes PROVE lost'[q] <= Size(Settled(q)')
    <3>1. CASE q = p
      BY <3>1, <1>a, <1>b, <1>c DEF Inv, TypeOK
    <3>2. CASE q # p
      BY <3>2, <1>a, <1>b DEF Inv, TypeOK, RacesBounded
    <3>3. QED
      BY <3>1, <3>2
  <2>2. QED
    BY <2>1 DEF RacesBounded, Size
<1>5. Listed'
  BY DEF Inv, TypeOK, Listed, Missing, AtWork, CreateTableLoses, SleepAfterFailure, bounds
<1>6. BareExplained'
  BY DEF Inv, TypeOK, BareExplained, HalfMade, CreateTableLoses, SleepAfterFailure, bounds
<1>7. QED
  BY <1>1, <1>2, <1>3, <1>4, <1>5, <1>6 DEF Inv

\* The table that leaves the list is there.
LEMMA CreateIndexInv ==
    ASSUME NEW p \in Processes, Inv, CreateIndex(p)
    PROVE  Inv'
<1>0. First(todo[p]) \in todo[p] /\ todo[p] \subseteq Tables
  BY FirstIn DEF Inv, TypeOK, Listed, AtWork, CreateIndex
<1>1. TypeOK'
  BY DEF Inv, TypeOK, CreateIndex, Onward, bounds, MaxAttempts
<1>2. Clocked'
  BY Times DEF Inv, TypeOK, Clocked, CreateIndex, Onward, bounds, MaxAttempts
<1>3. Accounted'
  BY Times DEF Inv, TypeOK, Accounted, Failed, CreateIndex, Onward, bounds
<1>4. RacesBounded'
  <2>1. \A q \in Processes : lost'[q] = lost[q] /\ Settled(q) \subseteq Settled(q)'
    BY DEF Inv, TypeOK, Listed, Settled, Existing, AtWork, CreateIndex, Onward, bounds
  <2>2. QED
    BY <1>1, <2>1, RacesKept DEF Inv
<1>5. Listed'
  BY DEF Inv, TypeOK, Listed, Missing, AtWork, CreateIndex, Onward, bounds
<1>6. BareExplained'
  BY DEF Inv, TypeOK, BareExplained, HalfMade, CreateIndex, Onward, bounds
<1>7. QED
  BY <1>1, <1>2, <1>3, <1>4, <1>5, <1>6 DEF Inv

\* A failure of the database sets the clock that GivesUpOnlyOnOutage reads.
LEMMA AttemptRefusedInv ==
    ASSUME NEW p \in Processes, Inv, AttemptRefused(p)
    PROVE  Inv'
<1>0. /\ cut' \subseteq Tables
      /\ slept[p] \in 0..15 /\ slept[p] + Wait(attempt[p]) \in 0..23
      /\ attempt[p] \in 1..5 /\ slept[p] = SleptBefore(attempt[p])
  <2>1. cut' \subseteq Tables
    BY FirstIn DEF Inv, TypeOK, Listed, AtWork, HalfMade, AttemptRefused
  <2>2. attempt[p] \in 1..5 /\ slept[p] = SleptBefore(attempt[p])
    <3>1. attempt[p] \in 1..5 /\ slept[p] = SleptBefore(attempt[p]) + 0
      BY DEF Inv, Clocked, AttemptRefused, MaxAttempts
    <3>2. SleptBefore(attempt[p]) \in Int
      BY <3>1, Times
    <3>3. QED
      BY <3>1, <3>2
  <2>3. QED
    BY <2>1, <2>2, Times
<1>1. TypeOK'
  BY <1>0 DEF Inv, TypeOK, AttemptRefused, SleepAfterFailure, bounds, MaxAttempts
<1>2. Clocked'
  BY Times DEF Inv, TypeOK, Clocked, AttemptRefused, SleepAfterFailure, bounds, MaxAttempts
<1>3. Accounted'
  BY <1>0, Times DEF Inv, TypeOK, Accounted, Failed, AttemptRefused, SleepAfterFailure, bounds
<1>4. RacesBounded'
  <2>1. \A q \in Processes : lost'[q] = lost[q] /\ Settled(q) \subseteq Settled(q)'
    BY DEF Inv, TypeOK, Listed, Settled, Existing, AtWork, AttemptRefused, SleepAfterFailure, bounds
  <2>2. QED
    BY <1>1, <2>1, RacesKept DEF Inv
<1>5. Listed'
  BY DEF Inv, TypeOK, Listed, Missing, AtWork, AttemptRefused, SleepAfterFailure, bounds
<1>6. BareExplained'
  BY DEF Inv, TypeOK, BareExplained, HalfMade, AttemptRefused, SleepAfterFailure, bounds
<1>7. QED
  BY <1>1, <1>2, <1>3, <1>4, <1>5, <1>6 DEF Inv

\* The next attempt, or the end of a boot of five failed ones.
LEMMA WakeInv ==
    ASSUME NEW p \in Processes, Inv, Wake(p)
    PROVE  Inv'
<1>1. TypeOK'
  BY DEF Inv, TypeOK, Wake, schema, bounds, MaxAttempts
<1>2. Clocked'
  BY Times DEF Inv, TypeOK, Clocked, Wake, schema, bounds, MaxAttempts
<1>3. Accounted'
  BY Times DEF Inv, TypeOK, Accounted, Failed, Wake, schema, bounds
<1>4. RacesBounded'
  <2>1. \A q \in Processes : lost'[q] = lost[q] /\ Settled(q) \subseteq Settled(q)'
    BY DEF Inv, TypeOK, Listed, Settled, Existing, AtWork, Wake, schema, bounds
  <2>2. QED
    BY <1>1, <2>1, RacesKept DEF Inv
<1>5. Listed'
  BY DEF Inv, TypeOK, Listed, Missing, AtWork, Wake, schema, bounds
<1>6. BareExplained'
  BY DEF Inv, TypeOK, BareExplained, HalfMade, Wake, schema, bounds
<1>7. QED
  BY <1>1, <1>2, <1>3, <1>4, <1>5, <1>6 DEF Inv

\* A process that is taken down keeps nothing.
LEMMA HealthFailsInv ==
    ASSUME NEW p \in Processes, Inv, HealthFails(p)
    PROVE  Inv'
<1>1. TypeOK'
  BY DEF Inv, TypeOK, HealthFails, schema, bounds, MaxAttempts
<1>2. Clocked'
  BY Times DEF Inv, TypeOK, Clocked, HealthFails, schema, bounds, MaxAttempts
<1>3. Accounted'
  BY Times DEF Inv, TypeOK, Accounted, Failed, HealthFails, schema, bounds
<1>4. RacesBounded'
  <2>1. \A q \in Processes : lost'[q] = lost[q] /\ Settled(q) \subseteq Settled(q)'
    BY DEF Inv, TypeOK, Listed, Settled, Existing, AtWork, HealthFails, schema, bounds
  <2>2. QED
    BY <1>1, <2>1, RacesKept DEF Inv
<1>5. Listed'
  BY DEF Inv, TypeOK, Listed, Missing, AtWork, HealthFails, schema, bounds
<1>6. BareExplained'
  BY DEF Inv, TypeOK, BareExplained, HalfMade, HealthFails, schema, bounds
<1>7. QED
  BY <1>1, <1>2, <1>3, <1>4, <1>5, <1>6 DEF Inv

\* A table the process was creating is cut off.
LEMMA KillInv ==
    ASSUME NEW p \in Processes, Inv, Kill(p)
    PROVE  Inv'
<1>0. kills' \in 0..MaxKills /\ cut' \subseteq Tables
  BY FirstIn DEF Inv, TypeOK, Listed, AtWork, HalfMade, Kill
<1>1. TypeOK'
  BY <1>0 DEF Inv, TypeOK, Kill, bounds, MaxAttempts
<1>2. Clocked'
  BY Times DEF Inv, TypeOK, Clocked, Kill, bounds, MaxAttempts
<1>3. Accounted'
  BY Times DEF Inv, TypeOK, Accounted, Failed, Kill, bounds
<1>4. RacesBounded'
  <2>1. \A q \in Processes : lost'[q] = lost[q] /\ Settled(q) \subseteq Settled(q)'
    BY DEF Inv, TypeOK, Listed, Settled, Existing, AtWork, Kill, bounds
  <2>2. QED
    BY <1>1, <2>1, RacesKept DEF Inv
<1>5. Listed'
  BY DEF Inv, TypeOK, Listed, Missing, AtWork, Kill, bounds
<1>6. BareExplained'
  BY DEF Inv, TypeOK, BareExplained, HalfMade, Kill, bounds
<1>7. QED
  BY <1>1, <1>2, <1>3, <1>4, <1>5, <1>6 DEF Inv

\* The database does not look into processes.
LEMMA DatabaseGoesInv ==
    ASSUME Inv, DatabaseGoes
    PROVE  Inv'
<1>0. outages' \in 0..MaxOutages
  BY DEF Inv, TypeOK, DatabaseGoes
<1>1. TypeOK'
  BY <1>0 DEF Inv, TypeOK, DatabaseGoes, schema, MaxAttempts
<1>2. Clocked'
  BY Times DEF Inv, TypeOK, Clocked, DatabaseGoes, schema, MaxAttempts
<1>3. Accounted'
  BY Times DEF Inv, TypeOK, Accounted, Failed, DatabaseGoes, schema
<1>4. RacesBounded'
  <2>1. \A q \in Processes : lost'[q] = lost[q] /\ Settled(q) \subseteq Settled(q)'
    BY DEF Inv, TypeOK, Listed, Settled, Existing, AtWork, DatabaseGoes, schema
  <2>2. QED
    BY <1>1, <2>1, RacesKept DEF Inv
<1>5. Listed'
  BY DEF Inv, TypeOK, Listed, Missing, AtWork, DatabaseGoes, schema
<1>6. BareExplained'
  BY DEF Inv, TypeOK, BareExplained, HalfMade, DatabaseGoes, schema
<1>7. QED
  BY <1>1, <1>2, <1>3, <1>4, <1>5, <1>6 DEF Inv

\* Neither when it comes back.
LEMMA DatabaseComesInv ==
    ASSUME Inv, DatabaseComes
    PROVE  Inv'
<1>1. TypeOK'
  BY DEF Inv, TypeOK, DatabaseComes, schema, bounds, MaxAttempts
<1>2. Clocked'
  BY Times DEF Inv, TypeOK, Clocked, DatabaseComes, schema, bounds, MaxAttempts
<1>3. Accounted'
  BY Times DEF Inv, TypeOK, Accounted, Failed, DatabaseComes, schema, bounds
<1>4. RacesBounded'
  <2>1. \A q \in Processes : lost'[q] = lost[q] /\ Settled(q) \subseteq Settled(q)'
    BY DEF Inv, TypeOK, Listed, Settled, Existing, AtWork, DatabaseComes, schema, bounds
  <2>2. QED
    BY <1>1, <2>1, RacesKept DEF Inv
<1>5. Listed'
  BY DEF Inv, TypeOK, Listed, Missing, AtWork, DatabaseComes, schema, bounds
<1>6. BareExplained'
  BY DEF Inv, TypeOK, BareExplained, HalfMade, DatabaseComes, schema, bounds
<1>7. QED
  BY <1>1, <1>2, <1>3, <1>4, <1>5, <1>6 DEF Inv

\* Nothing happens.
LEMMA StutterInv == Inv /\ UNCHANGED vars => Inv'
  BY DEF Inv, TypeOK, Clocked, Accounted, Failed, RacesBounded, Settled, Existing, Size,
         AtWork, Listed, Missing, BareExplained, HalfMade, vars, schema, bounds

\* A process that gives up has made five attempts and lost at most two races.
LEMMA InvImplies ==
    ASSUME Inv
    PROVE  SchemaSound /\ GivesUpOnlyOnOutage
<1>1. SchemaSound
  BY DEF Inv, Listed, BareExplained, SchemaSound
<1>2. ASSUME NEW p \in Processes, pc[p] = "gone"
      PROVE  refused[p] >= SleptBefore(MaxAttempts - lost[p])
  <2>1. Failed(p) = 5 /\ lost[p] \in 0..2
    BY <1>2 DEF Inv, TypeOK, Clocked, Failed, MaxAttempts
  <2>2. lost[p] < Failed(p) => refused[p] >= SleptBefore(Failed(p) - lost[p])
    BY <1>2 DEF Inv, Accounted
  <2>3. QED
    BY <2>1, <2>2 DEF MaxAttempts
<1>3. QED
  BY <1>1, <1>2 DEF GivesUpOnlyOnOutage

\* The invariant holds for good.
LEMMA Inductive == Spec => []Inv
<1>1. Inv /\ [Next]_vars => Inv'
  BY StartUpInv, InspectInv, CreateTableInv, CreateTableLosesInv, CreateIndexInv,
     AttemptRefusedInv, WakeInv, HealthFailsInv, KillInv, DatabaseGoesInv,
     DatabaseComesInv, StutterInv DEF Next, ProcessSteps
<1>2. QED
  BY InitInv, <1>1, PTL DEF Spec

----------------------------------------------------------------------------
(* The theorems *)

\* The variables keep their types; no boot makes more than five attempts or
\* loses more than two races.
THEOREM TypeCorrect == Spec => []TypeOK
<1>1. Inv => TypeOK
  BY DEF Inv
<1>2. QED
  BY Inductive, <1>1, PTL

\* Whoever serves has all tables, and a table without indexes is under way or
\* was cut off.
THEOREM SchemaSafe == Spec => []SchemaSound
  BY Inductive, InvImplies, PTL

\* init_db only gives up when the database failed it after many seconds.
THEOREM GivesUpSafe == Spec => []GivesUpOnlyOnOutage
  BY Inductive, InvImplies, PTL
=============================================================================
