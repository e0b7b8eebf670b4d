--------------------------- MODULE MatchAll_proofs ---------------------------
(***************************************************************************)
(* Proofs about MatchAll, for any number of resumes and files, any list of *)
(* jobs, any concurrency and any top_k.                                    *)
(***************************************************************************)
EXTENDS MatchAll, FiniteSetTheorems, TLAPS

USE SizesAssumption, ArgumentsAssumption, ScoresAssumption
    DEF SizesAssumption, ArgumentsAssumption, ScoresAssumption

----------------------------------------------------------------------------
(* Sequences *)

Distinct(s) == \A k, l \in DOMAIN s : s[k] = s[l] => k = l

\* The first of a queue of distinct members, and the rest.
LEMMA HeadAndTail ==
    ASSUME NEW S, NEW s \in Seq(S), s # <<>>
    PROVE  /\ Head(s) \in S /\ Head(s) \in Members(s)
           /\ Tail(s) \in Seq(S)
           /\ Members(Tail(s)) \subseteq Members(s)
           /\ Members(s) = Members(Tail(s)) \cup {Head(s)}
           /\ Distinct(s) => Distinct(Tail(s)) /\ Head(s) \notin Members(Tail(s))
<1>1. /\ Len(s) \in Nat \ {0} /\ DOMAIN s = 1..Len(s)
      /\ Head(s) = s[1] /\ 1 \in DOMAIN s
      /\ Tail(s) \in Seq(S) /\ Len(Tail(s)) = Len(s) - 1 /\ DOMAIN Tail(s) = 1..(Len(s) - 1)
      /\ \A k \in 1..(Len(s) - 1) : Tail(s)[k] = s[k + 1] /\ k + 1 \in DOMAIN s
  OBVIOUS
<1>2. \A k \in DOMAIN s : k = 1 \/ (k - 1 \in DOMAIN Tail(s) /\ Tail(s)[k - 1] = s[k])
  BY <1>1
<1>3. Members(s) = Members(Tail(s)) \cup {Head(s)}
  <2>1. ASSUME NEW x \in Members(s) PROVE x \in Members(Tail(s)) \cup {Head(s)}
    <3>1. PICK k \in DOMAIN s : x = s[k]
      BY DEF Members
    <3>2. CASE k = 1
      BY <1>1, <3>1, <3>2
    <3>3. CASE k - 1 \in DOMAIN Tail(s) /\ Tail(s)[k - 1] = s[k]
      BY <3>1, <3>3 DEF Members
    <3>4. QED
      BY <1>2, <3>2, <3>3
  <2>2. ASSUME NEW x \in Members(Tail(s)) PROVE x \in Members(s)
    BY <1>1 DEF Members
  <2>3. Head(s) \in Members(s)
    BY <1>1 DEF Members
  <2>4. QED
    BY <2>1, <2>2, <2>3
<1>4. ASSUME Distinct(s) PROVE Distinct(Tail(s)) /\ Head(s) \notin Members(Tail(s))
  <2>1. \A k, l \in DOMAIN Tail(s) : Tail(s)[k] = Tail(s)[l] => k = l
    BY <1>1, <1>4 DEF Distinct
  <2>2. \A k \in DOMAIN Tail(s) : Tail(s)[k] # Head(s)
    BY <1>1, <1>4 DEF Distinct
  <2>3. QED
    BY <2>1, <2>2 DEF Distinct, Members
<1>5. QED
  BY <1>1, <1>3, <1>4

\* Two queues of distinct members, one after the other.
LEMMA Concatenated ==
    ASSUME NEW S, NEW s \in Seq(S), NEW t \in Seq(S)
    PROVE  /\ s \o t \in Seq(S)
           /\ Members(s \o t) = Members(s) \cup Members(t)
           /\ Distinct(s) /\ Distinct(t) /\ Members(s) \cap Members(t) = {} => Distinct(s \o t)
<1>1. /\ Len(s) \in Nat /\ Len(t) \in Nat /\ s \o t \in Seq(S)
      /\ DOMAIN s = 1..Len(s) /\ DOMAIN t = 1..Len(t) /\ DOMAIN (s \o t) = 1..(Len(s) + Len(t))
      /\ \A k \in 1..Len(s) : k \in DOMAIN (s \o t) /\ (s \o t)[k] = s[k]
      /\ \A k \in 1..Len(t) : k + Len(s) \in DOMAIN (s \o t) /\ (s \o t)[k + Len(s)] = t[k]
  OBVIOUS
<1>2. \A k \in DOMAIN (s \o t) :
         \/ k \in DOMAIN s /\ (s \o t)[k] = s[k]
         \/ k - Len(s) \in DOMAIN t /\ (s \o t)[k] = t[k - Len(s)]
  OBVIOUS
<1>3. Members(s \o t) = Members(s) \cup Members(t)
  <2>1. ASSUME NEW x \in Members(s \o t) PROVE x \in Members(s) \cup Members(t)
    BY <1>2 DEF Members
  <2>2. ASSUME NEW x \in Members(s) PROVE x \in Members(s \o t)
    BY <1>1 DEF Members
  <2>3. ASSUME NEW x \in Members(t) PROVE x \in Members(s \o t)
    BY <1>1 DEF Members
  <2>4. QED
    BY <2>1, <2>2, <2>3
<1>4. ASSUME Distinct(s), Distinct(t), Members(s) \cap Members(t) = {},
             NEW k \in DOMAIN (s \o t), NEW l \in DOMAIN (s \o t), (s \o t)[k] = (s \o t)[l]
      PROVE  k = l
  <2>1. k \in Int /\ l \in Int /\ Len(s) \in Int
    BY <1>1
  <2>2. CASE k \in DOMAIN s /\ (s \o t)[k] = s[k]
    <3>1. s[k] \in Members(s)
      BY <2>2 DEF Members
    <3>2. l \in DOMAIN s /\ (s \o t)[l] = s[l]
      <4>1. ASSUME l - Len(s) \in DOMAIN t, (s \o t)[l] = t[l - Len(s)] PROVE FALSE
        <5>1. t[l - Len(s)] \in Members(t)
          BY <4>1 DEF Members
        <5>2. QED
          BY <1>4, <2>2, <3>1, <4>1, <5>1
      <4>2. QED
        BY <1>2, <4>1
    <3>3. QED
      BY <1>4, <2>2, <3>2 DEF Distinct
  <2>3. CASE k - Len(s) \in DOMAIN t /\ (s \o t)[k] = t[k - Len(s)]
    <3>1. l - Len(s) \in DOMAIN t /\ (s \o t)[l] = t[l - Len(s)]
      BY <1>2, <1>4, <2>3 DEF Members
    <3>2. k - Len(s) = l - Len(s)
      BY <1>4, <2>3, <3>1 DEF Distinct
    <3>3. QED
      BY <2>1, <3>2
  <2>4. QED
    BY <1>2, <2>2, <2>3
<1>5. QED
  BY <1>1, <1>3, <1>4 DEF Distinct

\* One more at the end.
LEMMA Appended ==
    ASSUME NEW S, NEW s \in Seq(S), NEW x \in S
    PROVE  /\ Append(s, x) \in Seq(S)
           /\ Members(Append(s, x)) = Members(s) \cup {x}
           /\ Distinct(s) /\ x \notin Members(s) => Distinct(Append(s, x))
<1>1. <<x>> \in Seq(S) /\ Append(s, x) = s \o <<x>>
  OBVIOUS
<1>2. Members(<<x>>) = {x} /\ Distinct(<<x>>)
  BY DEF Members, Distinct
<1>3. /\ s \o <<x>> \in Seq(S)
      /\ Members(s \o <<x>>) = Members(s) \cup Members(<<x>>)
      /\ Distinct(s) /\ Members(s) \cap Members(<<x>>) = {} => Distinct(s \o <<x>>)
  BY <1>1, <1>2, Concatenated
<1>4. x \notin Members(s) => Members(s) \cap Members(<<x>>) = {}
  BY <1>2
<1>5. QED
  BY <1>1, <1>2, <1>3, <1>4, Zenon

----------------------------------------------------------------------------
(* Counting *)

\* Sets of resumes and of files.
LEMMA RangeSets ==
    ASSUME NEW n \in Nat, NEW S \in SUBSET (1..n)
    PROVE  /\ IsFiniteSet(S)
           /\ Cardinality(S) \in 0..n
           /\ Cardinality(S) = n => S = 1..n
<1>1. IsFiniteSet(1..n) /\ Cardinality(1..n) = n
  BY FS_Interval
<1>2. IsFiniteSet(S) /\ Cardinality(S) <= n /\ (Cardinality(S) = n => S = 1..n)
  BY <1>1, FS_Subset
<1>3. QED
  BY <1>2, FS_CardinalityType

\* One more member, one more to count.
LEMMA OneMore ==
    ASSUME NEW n \in Nat, NEW S \in SUBSET (1..n), NEW x \in 1..n, x \notin S
    PROVE  Cardinality(S \cup {x}) = Cardinality(S) + 1
<1>1. IsFiniteSet(S)
  BY RangeSets
<1>2. QED
  BY <1>1, FS_AddElement

\* A set without one of the members of another is smaller.
LEMMA Fewer ==
    ASSUME NEW n \in Nat, NEW T \in SUBSET (1..n), NEW S \in SUBSET T, NEW x \in T, x \notin S
    PROVE  Cardinality(S) < Cardinality(T)
<1>1. IsFiniteSet(T) /\ IsFiniteSet(S)
  BY RangeSets
<1>2. Cardinality(S) <= Cardinality(T) /\ Cardinality(S) # Cardinality(T)
  BY <1>1, FS_Subset
<1>3. QED
  BY <1>1, <1>2, FS_CardinalityType

----------------------------------------------------------------------------
(* The ranking *)

\* A set of scored jobs, each job once.
Scored(S) ==
    /\ S \in SUBSET Matches
    /\ IsFiniteSet(S)
    /\ \A m, n \in S : m.index = n.index => m = n

\* Better orders it.
LEMMA BetterOrders ==
    ASSUME NEW S, Scored(S)
    PROVE  /\ \A m \in S : ~Better(m, m)
           /\ \A m, n, k \in S : Better(m, n) /\ Better(n, k) => Better(m, k)
           /\ \A m, n \in S : m = n \/ Better(m, n) \/ Better(n, m)
<1>1. \A m \in Matches : m.index \in Int /\ m.value \in Int
  <2>1. \A m \in Matches : m.index \in Nat /\ m.value \in Scores
    BY DEF Matches
  <2>2. Scores \subseteq Int /\ Nat \subseteq Int
    BY DEF ScoresAssumption
  <2>3. QED
    BY <2>1, <2>2
<1>2. \A m \in S : m.index \in Int /\ m.value \in Int
  BY <1>1 DEF Scored
<1>3. QED
  BY <1>2 DEF Better, Scored

\* TopOf takes the best, as many as wanted or as there are: the places of the
\* ranking count up from zero without a gap.
LEMMA TopIsRight ==
    ASSUME NEW S, Scored(S)
    PROVE  /\ TopOf(S) \subseteq S
           /\ \A m \in TopOf(S), n \in S \ TopOf(S) : m.value >= n.value
           /\ Cardinality(TopOf(S)) = IF Cardinality(S) < TopK THEN Cardinality(S) ELSE TopK
<1> DEFINE Ahead(m) == {n \in S : Better(n, m)}
           rank == [m \in S |-> Cardinality(Ahead(m))]
           size == Cardinality(S)
           top == IF size < TopK THEN size ELSE TopK
<1>1. size \in Nat /\ IsFiniteSet(S)
  BY FS_CardinalityType DEF Scored
<1>2. \A m \in S : IsFiniteSet(Ahead(m)) /\ Cardinality(Ahead(m)) \in Nat
  BY <1>1, FS_Subset, FS_CardinalityType
<1>3. ASSUME NEW m \in S, NEW n \in S, Better(n, m)
      PROVE  rank[n] < rank[m]
  <2>1. Ahead(n) \subseteq Ahead(m) /\ n \in Ahead(m) /\ n \notin Ahead(n)
    BY <1>3, BetterOrders
  <2>2. Cardinality(Ahead(n)) <= Cardinality(Ahead(m))
        /\ Cardinality(Ahead(n)) # Cardinality(Ahead(m))
    BY <1>2, <2>1, FS_Subset
  <2>3. QED
    BY <1>2, <2>2
<1>4. ASSUME NEW m \in S PROVE rank[m] \in 0..(size - 1)
  <2>1. Ahead(m) \in SUBSET S /\ Ahead(m) # S
    BY BetterOrders
  <2>2. Cardinality(Ahead(m)) <= size /\ Cardinality(Ahead(m)) # size
    BY <1>1, <2>1, FS_Subset
  <2>3. QED
    BY <1>1, <1>2, <2>2
<1>5. \A m \in S : rank[m] = Cardinality(Ahead(m))
  OBVIOUS
<1>6. TopOf(S) = {m \in S : rank[m] < TopK}
  BY DEF TopOf
<1>7. rank \in Injection(S, 0..(size - 1))
  <2>1. rank \in [S -> 0..(size - 1)]
    BY <1>4
  <2>2. \A m, n \in S : rank[m] = rank[n] => m = n
    <3>1. \A m \in S : rank[m] \in Int
      BY <1>4
    <3> HIDE DEF rank
    <3>2. QED
      BY <1>3, <3>1, BetterOrders
  <2>3. QED
    BY <2>1, <2>2 DEF Injection, IsInjective
<1>8. IsFiniteSet(0..(size - 1)) /\ Cardinality(0..(size - 1)) = size
  BY <1>1, FS_Interval
<1>9. rank \in Surjection(S, 0..(size - 1))
  <2> HIDE DEF rank
  <2>1. QED
    BY <1>1, <1>7, <1>8, FS_Injection
<1> HIDE DEF rank
<1>10. ExistsBijection(TopOf(S), 0..(top - 1))
  <2> DEFINE place == [m \in TopOf(S) |-> rank[m]]
  <2>1. \A m \in TopOf(S) : m \in S /\ rank[m] \in 0..(top - 1)
    BY <1>1, <1>4, <1>6
  <2>2. \A m, n \in TopOf(S) : place[m] = place[n] => m = n
    BY <1>7, <2>1 DEF Injection, IsInjective
  <2>3. ASSUME NEW k \in 0..(top - 1) PROVE \E m \in TopOf(S) : place[m] = k
    <3>1. k \in 0..(size - 1) /\ k < TopK
      BY <1>1
    <3>2. PICK m \in S : rank[m] = k
      BY <1>9, <3>1 DEF Surjection
    <3>3. m \in TopOf(S)
      BY <1>6, <3>1, <3>2
    <3>4. QED
      BY <3>2, <3>3
  <2>4. place \in Bijection(TopOf(S), 0..(top - 1))
    BY <2>1, <2>2, <2>3 DEF Bijection, Injection, Surjection, IsInjective
  <2>5. QED
    BY <2>4 DEF ExistsBijection
<1>11. Cardinality(TopOf(S)) = top
  <2>1. IsFiniteSet(TopOf(S))
    BY <1>1, <1>6, FS_Subset
  <2>2. Cardinality(0..(top - 1)) = Cardinality(TopOf(S))
    BY <1>10, <2>1, FS_Bijection
  <2>3. top \in Nat /\ top - 1 \in Int
    BY <1>1
  <2> HIDE DEF top
  <2>4. Cardinality(0..(top - 1)) = top
    BY <2>3, FS_Interval
  <2>5. QED
    BY <2>2, <2>4
<1>12. ASSUME NEW m \in TopOf(S), NEW n \in S \ TopOf(S) PROVE m.value >= n.value
  <2>1. m \in S /\ rank[m] < TopK /\ ~(rank[n] < TopK) /\ rank[m] \in Int /\ rank[n] \in Int
    BY <1>4, <1>6
  <2>2. ~Better(n, m)
    BY <1>3, <2>1
  <2>3. m.value \in Int /\ n.value \in Int
    BY <2>1 DEF Scored, Matches
  <2>4. QED
    BY <2>2, <2>3 DEF Better
<1>13. QED
  BY <1>6, <1>11, <1>12

----------------------------------------------------------------------------
(* The invariant *)

\* The files whose jobs are on the list.
Taken == {j \in Jds : jd[j] = "done" /\ j \notin Members(finished)}

JobsOf(j) == {i \in JobIndex : jobList[i] = j}

\* Each file is taken in once, and all of its jobs with it.
JdInv ==
    /\ stage = "new" => \A j \in Jds : jd[j] = "idle"
    /\ Distinct(finished)
    /\ \A j \in Members(finished) : jd[j] \in {"done", "escaped"}
    /\ jdDone = Cardinality(Taken)
    /\ \A i \in JobIndex : jobList[i] \in Taken
    /\ \A j \in Taken : Cardinality(JobsOf(j)) = found[j]

\* No resume gets anywhere before the last file is in.
GateInv ==
    /\ stage \in {"new", "parsing"} => \A r \in Resumes : match[r] = "none"
    /\ stage \in {"new", "parsing"} => waiting = <<>> /\ calling = {}
    /\ \A r \in Resumes : match[r] # "none" => jdDone = NumJds
    /\ stage \in {"matching", "returned"} => jdDone = NumJds
    /\ stage = "returned" => \A r \in Resumes : match[r] = "reported"

\* A resume's coroutine knows how its parse ended.
ParseInv ==
    \A r \in Resumes :
        /\ match[r] \in {"parsed", "scoring", "reported"} => resume[r] \in {"parsed", "failed"}
        /\ match[r] = "scoring" => resume[r] = "parsed"

\* A pair waits for its call, or is in it, or has its verdict.
PairInv ==
    /\ Distinct(waiting)
    /\ Members(waiting) \cap calling = {}
    /\ \A p \in Members(waiting) \cup calling :
          match[p[1]] = "scoring" /\ p[2] \notin Decided(p[1])
    /\ \A r \in Resumes :
          /\ Scored(answered[r])
          /\ match[r] \in {"none", "awaiting", "parsed", "raised"} =>
                answered[r] = {} /\ lost[r] = {}

\* What was reported was ranked on every verdict.
TopInv ==
    \A r \in Resumes :
        /\ match[r] # "reported" => report[r] = {}
        /\ match[r] = "reported" /\ resume[r] = "parsed" =>
              Decided(r) = JobIndex /\ report[r] = TopOf(answered[r])

\* The counters count.
Counted == {r \in Resumes : match[r] \in {"parsed", "scoring", "reported"}}
Finished == {r \in Resumes : match[r] = "reported"}

CountInv == parsed = Cardinality(Counted) /\ scored = Cardinality(Finished)

Inv ==
    /\ TypeOK /\ IsFiniteSet(calling)
    /\ JdInv /\ GateInv /\ ParseInv /\ PairInv /\ TopInv /\ CountInv

\* The start: everything is idle.
LEMMA InitInv == Init => Inv
<1> SUFFICES ASSUME Init PROVE Inv
  OBVIOUS
<1> USE DEF Init
<1>1. /\ DOMAIN <<>> = {} /\ Members(<<>>) = {} /\ Distinct(<<>>) /\ JobIndex = {}
      /\ <<>> \in Seq(Jds) /\ <<>> \in Seq(Resumes \X JobIndex)
  BY DEF Members, Distinct, JobIndex
<1>2. IsFiniteSet({}) /\ Cardinality({}) = 0
  BY FS_EmptySet
<1>3. TypeOK /\ IsFiniteSet(calling)
  BY <1>1, <1>2 DEF TypeOK
<1>4. Taken = {}
  BY DEF Taken
<1>5. JdInv
  BY <1>1, <1>2, <1>4 DEF JdInv
<1>6. GateInv /\ ParseInv
  BY DEF GateInv, ParseInv
<1>7. Scored({})
  BY <1>2 DEF Scored
<1>8. PairInv
  BY <1>1, <1>7 DEF PairInv
<1>9. TopInv
  BY DEF TopInv
<1>10. CountInv
  <2>1. Counted = {} /\ Finished = {}
    BY DEF Counted, Finished
  <2>2. QED
    BY <1>2, <2>1 DEF CountInv
<1>11. QED
  BY <1>3, <1>5, <1>6, <1>8, <1>9, <1>10 DEF Inv

\* A step that does nothing.
LEMMA StutterInv == Inv /\ UNCHANGED vars => Inv'
<1> SUFFICES ASSUME Inv, UNCHANGED vars PROVE Inv'
  OBVIOUS
<1> USE DEF vars, jdVars, pairVars
<1>1. TypeOK' /\ IsFiniteSet(calling)'
  BY DEF Inv, TypeOK, JobIndex
<1>2. JdInv'
  BY DEF Inv, JdInv, Taken, JobsOf, JobIndex
<1>3. GateInv' /\ ParseInv'
  BY DEF Inv, GateInv, ParseInv
<1>4. PairInv'
  BY DEF Inv, PairInv, Decided
<1>5. TopInv'
  BY DEF Inv, TopInv, Decided, JobIndex
<1>6. CountInv'
  BY DEF Inv, CountInv, Counted, Finished
<1>7. QED
  BY <1>1, <1>2, <1>3, <1>4, <1>5, <1>6 DEF Inv

\* The head of the semaphore's queue, and of the finished files.
LEMMA Queues ==
    ASSUME Inv
    PROVE  /\ waiting # <<>> =>
                /\ Head(waiting) \in Resumes \X JobIndex
                /\ Head(waiting) \in Members(waiting)
                /\ Tail(waiting) \in Seq(Resumes \X JobIndex)
                /\ Members(waiting) = Members(Tail(waiting)) \cup {Head(waiting)}
                /\ Distinct(Tail(waiting)) /\ Head(waiting) \notin Members(Tail(waiting))
           /\ finished # <<>> =>
                /\ Head(finished) \in Jds
                /\ Head(finished) \in Members(finished)
                /\ Tail(finished) \in Seq(Jds)
                /\ Members(finished) = Members(Tail(finished)) \cup {Head(finished)}
                /\ Distinct(Tail(finished)) /\ Head(finished) \notin Members(Tail(finished))
<1>1. waiting \in Seq(Resumes \X JobIndex) /\ finished \in Seq(Jds)
      /\ Distinct(waiting) /\ Distinct(finished)
  BY DEF Inv, TypeOK, JdInv, PairInv
<1>2. QED
  BY <1>1, HeadAndTail, Zenon

\* A file that is taken in: its jobs go to the end of the list.
LEMMA JobsJoin ==
    ASSUME Inv, TakeJd, NEW h \in Jds, h = Head(finished), jd[h] # "escaped"
    PROVE  /\ jobList' \in Seq(Jds)
           /\ \A i \in JobIndex' : jobList'[i] \in Taken \cup {h}
           /\ \A j \in Taken : JobsOf(j)' = JobsOf(j)
           /\ Cardinality(JobsOf(h)') = found[h]
           /\ h \notin Taken
<1> DEFINE new == [i \in 1..found[h] |-> h]
           len == Len(jobList)
<1>1. /\ h \notin Taken
      /\ found[h] \in Nat /\ jobList \in Seq(Jds) /\ len \in Nat
      /\ jobList' = jobList \o new
      /\ \A i \in DOMAIN jobList : jobList[i] \in Taken
  <2>1. finished # <<>>
    BY DEF TakeJd
  <2>2. h \in Members(finished)
    BY <2>1, Queues
  <2>3. found \in [Jds -> 0..MaxJobs] /\ jobList \in Seq(Jds)
    BY DEF Inv, TypeOK
  <2>4. found[h] \in Nat /\ len \in Nat
    BY <2>3
  <2>5. jobList' = jobList \o new
    BY DEF TakeJd
  <2>6. \A i \in DOMAIN jobList : jobList[i] \in Taken
    BY DEF Inv, JdInv, JobIndex
  <2>7. QED
    BY <2>2, <2>3, <2>4, <2>5, <2>6 DEF Taken
<1>2. new \in Seq(Jds) /\ Len(new) = found[h] /\ \A i \in 1..found[h] : new[i] = h
  <2>1. \A n \in Nat : \A x \in Jds : /\ [i \in 1..n |-> x] \in Seq(Jds)
                                      /\ Len([i \in 1..n |-> x]) = n
    OBVIOUS
  <2>2. QED
    BY <1>1, <2>1
<1>3. /\ jobList' \in Seq(Jds)
      /\ DOMAIN jobList = 1..len /\ DOMAIN jobList' = 1..(len + found[h])
      /\ \A i \in 1..len : jobList'[i] = jobList[i]
      /\ \A i \in (len + 1)..(len + found[h]) : jobList'[i] = h
  BY <1>1, <1>2
<1>4. \A i \in DOMAIN jobList' : jobList'[i] \in Taken \cup {h}
  BY <1>1, <1>3
<1>5. \A j \in Taken : {i \in DOMAIN jobList' : jobList'[i] = j} = {i \in DOMAIN jobList : jobList[i] = j}
  BY <1>1, <1>3
<1>6. {i \in DOMAIN jobList' : jobList'[i] = h} = (len + 1)..(len + found[h])
  BY <1>1, <1>3
<1>7. Cardinality((len + 1)..(len + found[h])) = found[h]
  <2>1. len + 1 \in Int /\ len + found[h] \in Int
    BY <1>1
  <2>2. Cardinality((len + 1)..(len + found[h])) =
           IF len + 1 > len + found[h] THEN 0 ELSE (len + found[h]) - (len + 1) + 1
    BY <2>1, FS_Interval
  <2>3. QED
    BY <1>1, <2>2
<1>8. \A j \in Taken : JobsOf(j)' = JobsOf(j)
  BY <1>5 DEF JobsOf, JobIndex
<1>9. JobsOf(h)' = (len + 1)..(len + found[h])
  BY <1>6 DEF JobsOf, JobIndex
<1>10. QED
  BY <1>1, <1>3, <1>4, <1>7, <1>8, <1>9 DEF JobIndex

\* JdInv is kept.
LEMMA JdKept == ASSUME Inv, Next PROVE JdInv'
<1> USE DEF jdVars
<1>1. CASE Start
  <2>1. \A j \in Jds : jd[j] = "idle" /\ jd'[j] = "parsing"
    BY <1>1 DEF Start, Inv, JdInv
  <2>2. finished \in Seq(Jds)
    BY DEF Inv, TypeOK
  <2>3. Members(finished) = {}
    <3>1. Members(finished) \subseteq Jds
      BY <2>2 DEF Members
    <3>2. QED
      BY <2>1, <3>1 DEF Inv, JdInv
  <2>4. Taken = {} /\ Taken' = {}
    BY <1>1, <2>1 DEF Taken, Start
  <2>5. QED
    BY <1>1, <2>3, <2>4 DEF Start, Inv, JdInv, JobIndex
<1>2. ASSUME NEW j \in Jds, JdEnds(j) PROVE JdInv'
  <2>1. jd[j] = "parsing" /\ stage # "new"
    BY <1>2 DEF JdEnds, Inv, JdInv
  <2>2. j \notin Members(finished) /\ j \notin Taken
    BY <2>1 DEF Inv, JdInv, Taken
  <2>3. finished \in Seq(Jds) /\ jd \in [Jds -> {"idle", "parsing", "done", "escaped"}]
        /\ found \in [Jds -> 0..MaxJobs]
    BY DEF Inv, TypeOK
  <2>4. finished' = Append(finished, j) /\ UNCHANGED <<stage, jdDone, jobList>>
        /\ jd' = [jd EXCEPT ![j] = IF known THEN "done" ELSE "escaped"]
        /\ \A k \in Jds : k # j => found'[k] = found[k]
    BY <1>2, <2>3 DEF JdEnds
  <2>5. Members(finished') = Members(finished) \cup {j} /\ Distinct(finished')
    BY <2>2, <2>3, <2>4, Appended DEF Inv, JdInv
  <2>6. jd'[j] \in {"done", "escaped"} /\ \A k \in Jds : k # j => jd'[k] = jd[k]
    BY <2>3, <2>4
  <2>7. Members(finished) \subseteq Jds
    BY <2>3 DEF Members
  <2>8. Taken' = Taken
    BY <2>2, <2>5, <2>6 DEF Taken
  <2>9. \A k \in Members(finished') : jd'[k] \in {"done", "escaped"}
    BY <2>5, <2>6, <2>7 DEF Inv, JdInv
  <2>10. \A k \in Taken : JobsOf(k)' = JobsOf(k) /\ found'[k] = found[k]
    BY <2>2, <2>4 DEF JobsOf, JobIndex, Taken
  <2>11. QED
    BY <2>1, <2>4, <2>5, <2>8, <2>9, <2>10 DEF Inv, JdInv, JobIndex
<1>3. CASE TakeJd
  <2>0. PICK h \in Jds : h = Head(finished)
    BY <1>3, Queues DEF TakeJd
  <2>1. /\ h \in Jds /\ h \in Members(finished) /\ h \notin Members(Tail(finished))
        /\ Distinct(Tail(finished)) /\ Members(finished) = Members(Tail(finished)) \cup {h}
        /\ finished' = Tail(finished) /\ UNCHANGED <<jd, found>> /\ stage' # "new"
    BY <1>3, <2>0, Queues DEF TakeJd
  <2>2. \A j \in Members(finished') : jd'[j] \in {"done", "escaped"}
    BY <2>1 DEF Inv, JdInv
  <2>3. CASE jd[h] = "escaped"
    <3>1. Taken' = Taken /\ UNCHANGED <<jdDone, jobList>>
      BY <1>3, <2>0, <2>1, <2>3 DEF TakeJd, Taken
    <3>2. QED
      BY <2>1, <2>2, <3>1 DEF Inv, JdInv, JobIndex, JobsOf
  <2>4. CASE jd[h] # "escaped"
    <3>1. jd[h] = "done"
      BY <2>1, <2>4 DEF Inv, JdInv
    <3>2. Taken' = Taken \cup {h} /\ h \notin Taken
      BY <2>1, <3>1 DEF Taken
    <3>3. jdDone' = jdDone + 1
      BY <1>3, <2>0, <2>4 DEF TakeJd
    <3>4. jdDone' = Cardinality(Taken')
      <4>1. Taken \in SUBSET (1..NumJds) /\ h \in 1..NumJds
        BY <2>1 DEF Taken, Jds
      <4>2. Cardinality(Taken \cup {h}) = Cardinality(Taken) + 1
        BY <3>2, <4>1, OneMore
      <4>3. QED
        BY <3>2, <3>3, <4>2 DEF Inv, JdInv
    <3>5. \A i \in JobIndex' : jobList'[i] \in Taken'
      BY <1>3, <2>0, <2>4, <3>2, JobsJoin
    <3>6. \A j \in Taken' : Cardinality(JobsOf(j)') = found'[j]
      BY <1>3, <2>0, <2>1, <2>4, <3>2, JobsJoin DEF Inv, JdInv
    <3>7. QED
      BY <2>1, <2>2, <3>4, <3>5, <3>6 DEF JdInv, JobsOf
  <2>5. QED
    BY <2>3, <2>4
<1>4. ASSUME UNCHANGED jdVars, stage' = "new" => stage = "new" PROVE JdInv'
  BY <1>4 DEF Inv, JdInv, Taken, JobsOf, JobIndex
<1>5. CASE JdsReady \/ Return \/ Raise \/ Acquire
  BY <1>4, <1>5 DEF JdsReady, Return, Raise, Acquire, MayAcquire
<1>6. ASSUME NEW r \in Resumes,
             \/ ExtractionEnds(r) \/ ResumeCallEnds(r) \/ TakeResume(r)
             \/ Skip(r) \/ FanOut(r) \/ Rank(r)
             \/ \E i \in JobIndex : ScoreReturns(r, i) \/ ScoreRaises(r, i)
      PROVE  JdInv'
  BY <1>4, <1>6 DEF ExtractionEnds, ResumeCallEnds, TakeResume, Skip, FanOut, Rank,
                    ScoreReturns, ScoreRaises
<1>7. QED
  BY <1>1, <1>2, <1>3, <1>5, <1>6 DEF Next

\* GateInv and ParseInv are kept.
LEMMA GateKept == ASSUME Inv, Next PROVE GateInv' /\ ParseInv'
<1> USE DEF jdVars, pairVars, Inv, GateInv, ParseInv
<1>1. match \in [Resumes -> {"none", "awaiting", "parsed", "scoring", "reported", "raised"}]
      /\ resume \in [Resumes -> {"idle", "extracting", "calling", "parsed", "failed", "escaped"}]
      /\ stage \in {"new", "parsing", "matching", "returned", "raised"}
  BY DEF TypeOK
<1>2. CASE Start
  BY <1>1, <1>2 DEF Start
<1>3. CASE TakeJd
  BY <1>1, <1>3 DEF TakeJd
<1>4. CASE JdsReady
  BY <1>1, <1>4 DEF JdsReady
<1>5. CASE Return \/ Raise
  BY <1>1, <1>5 DEF Return, Raise
<1>6. CASE Acquire
  BY <1>1, <1>6 DEF Acquire, MayAcquire
<1>7. ASSUME NEW j \in Jds, JdEnds(j) PROVE GateInv' /\ ParseInv'
  BY <1>1, <1>7 DEF JdEnds
<1>8. ASSUME NEW r \in Resumes, ExtractionEnds(r) \/ ResumeCallEnds(r)
      PROVE  GateInv' /\ ParseInv'
  BY <1>1, <1>8 DEF ExtractionEnds, ResumeCallEnds
<1>9. ASSUME NEW r \in Resumes, TakeResume(r) PROVE GateInv' /\ ParseInv'
  BY <1>1, <1>9 DEF TakeResume
<1>10. ASSUME NEW r \in Resumes, Skip(r) \/ FanOut(r) \/ Rank(r) PROVE GateInv' /\ ParseInv'
  BY <1>1, <1>10 DEF Skip, FanOut, Rank
<1>11. ASSUME NEW r \in Resumes, NEW i \in JobIndex, ScoreReturns(r, i) \/ ScoreRaises(r, i)
       PROVE  GateInv' /\ ParseInv'
  BY <1>1, <1>11 DEF ScoreReturns, ScoreRaises
<1>12. QED
  BY <1>2, <1>3, <1>4, <1>5, <1>6, <1>7, <1>8, <1>9, <1>10, <1>11 DEF Next

\* A step that touches neither the pairs nor, but for the better, the matches.
LEMMA PairsLeft ==
    ASSUME Inv, UNCHANGED pairVars,
           \A r \in Resumes :
              \/ match'[r] = match[r]
              \/ match[r] \in {"none", "awaiting"} /\ match'[r] \in {"awaiting", "parsed", "raised"}
              \/ match[r] = "parsed" /\ match'[r] = "reported"
    PROVE  PairInv'
<1> USE DEF pairVars
<1>1. waiting \in Seq(Resumes \X JobIndex) /\ calling \subseteq Resumes \X JobIndex
  BY DEF Inv, TypeOK
<1>2. \A p \in Members(waiting) \cup calling : p[1] \in Resumes
  BY <1>1 DEF Members
<1>3. \A p \in Members(waiting) \cup calling : match'[p[1]] = "scoring"
  BY <1>2 DEF Inv, PairInv
<1>4. QED
  BY <1>3 DEF Inv, PairInv, Decided

\* PairInv is kept.
LEMMA PairKept == ASSUME Inv, Next PROVE PairInv'
<1> USE DEF jdVars, pairVars
<1>0. /\ match \in [Resumes -> {"none", "awaiting", "parsed", "scoring", "reported", "raised"}]
      /\ waiting \in Seq(Resumes \X JobIndex) /\ calling \subseteq Resumes \X JobIndex
      /\ answered \in [Resumes -> SUBSET Matches] /\ lost \in [Resumes -> SUBSET JobIndex]
  BY DEF Inv, TypeOK
<1>1. CASE Start \/ TakeJd \/ Return \/ Raise
  BY <1>1, PairsLeft DEF Start, TakeJd, Return, Raise
<1>2. CASE JdsReady
  <2>1. \A r \in Resumes : match[r] = "none"
    BY <1>2 DEF JdsReady, Inv, GateInv
  <2>2. QED
    BY <1>2, <2>1, PairsLeft DEF JdsReady
<1>3. ASSUME NEW j \in Jds, JdEnds(j) PROVE PairInv'
  BY <1>3, PairsLeft DEF JdEnds
<1>4. ASSUME NEW r \in Resumes, ExtractionEnds(r) \/ ResumeCallEnds(r) PROVE PairInv'
  BY <1>4, PairsLeft DEF ExtractionEnds, ResumeCallEnds
<1>5. ASSUME NEW r \in Resumes, TakeResume(r) \/ Skip(r) PROVE PairInv'
  BY <1>0, <1>5, PairsLeft DEF TakeResume, Skip
<1>6. CASE Acquire
  <2> DEFINE h == Head(waiting)
  <2>1. /\ h \in Members(waiting) /\ h \notin Members(Tail(waiting))
        /\ Distinct(Tail(waiting)) /\ Members(waiting) = Members(Tail(waiting)) \cup {h}
    BY <1>6, Queues DEF Acquire, MayAcquire
  <2>2. /\ waiting' = Tail(waiting) /\ calling' = calling \cup {h}
        /\ UNCHANGED <<match, answered, lost>>
    BY <1>6 DEF Acquire, MayAcquire
  <2>3. Members(waiting') \cup calling' = Members(waiting) \cup calling
        /\ Members(waiting') \cap calling' = {}
    BY <2>1, <2>2 DEF Inv, PairInv
  <2>4. \A p : Decided(p)' = Decided(p)
    BY <2>2 DEF Decided
  <2>5. \A p \in Members(waiting') \cup calling' :
           match'[p[1]] = "scoring" /\ p[2] \notin Decided(p[1])'
    BY <2>2, <2>3, <2>4 DEF Inv, PairInv
  <2>6. QED
    BY <2>1, <2>2, <2>3, <2>5 DEF Inv, PairInv
<1>7. ASSUME NEW r \in Resumes, FanOut(r) PROVE PairInv'
  <2> DEFINE new == [i \in JobIndex |-> <<r, i>>]
  <2>1. /\ match[r] = "parsed" /\ match' = [match EXCEPT ![r] = "scoring"]
        /\ waiting' = waiting \o new /\ UNCHANGED <<calling, answered, lost, jobList>>
    BY <1>7 DEF FanOut
  <2>2. JobIndex = 1..Len(jobList) /\ Len(jobList) \in Nat
    BY DEF Inv, TypeOK, JobIndex
  <2>3. /\ new \in Seq(Resumes \X JobIndex) /\ DOMAIN new = JobIndex
        /\ \A i \in JobIndex : new[i] = <<r, i>>
    BY <2>2
  <2> HIDE DEF new
  <2>4. Distinct(new)
    BY <2>3 DEF Distinct
  <2>5. \A p \in Members(new) : p[1] = r
    BY <2>3 DEF Members
  <2>6. \A p \in Members(waiting) \cup calling : p[1] \in Resumes /\ p[1] # r
    <3>1. \A p \in Members(waiting) \cup calling : p[1] \in Resumes
      BY <1>0 DEF Members
    <3>2. \A p \in Members(waiting) \cup calling : match[p[1]] = "scoring"
      BY DEF Inv, PairInv
    <3>3. QED
      BY <2>1, <3>1, <3>2
  <2>7. /\ Members(waiting') = Members(waiting) \cup Members(new)
        /\ Distinct(waiting')
    <3>1. Members(waiting) \cap Members(new) = {}
      BY <2>5, <2>6
    <3>2. Distinct(waiting)
      BY DEF Inv, PairInv
    <3>3. QED
      BY <1>0, <2>1, <2>3, <2>4, <3>1, <3>2, Concatenated
  <2>8. Members(waiting') \cap calling' = {}
    BY <2>1, <2>5, <2>6, <2>7 DEF Inv, PairInv
  <2>9. Decided(r)' = {} /\ \A p : Decided(p)' = Decided(p)
    BY <2>1 DEF Decided, Inv, PairInv
  <2>10. \A p \in Members(waiting') \cup calling' :
            match'[p[1]] = "scoring" /\ p[2] \notin Decided(p[1])'
    <3>1. ASSUME NEW p \in Members(new)
          PROVE  match'[p[1]] = "scoring" /\ p[2] \notin Decided(p[1])'
      BY <1>0, <2>1, <2>5, <2>9
    <3>2. ASSUME NEW p \in Members(waiting) \cup calling
          PROVE  match'[p[1]] = "scoring" /\ p[2] \notin Decided(p[1])'
      BY <1>0, <2>1, <2>6, <2>9 DEF Inv, PairInv
    <3>3. QED
      BY <2>1, <2>7, <3>1, <3>2
  <2>11. \A q \in Resumes :
            /\ Scored(answered'[q])
            /\ match'[q] \in {"none", "awaiting", "parsed", "raised"} =>
                  answered'[q] = {} /\ lost'[q] = {}
    BY <1>0, <2>1 DEF Inv, PairInv
  <2>12. QED
    BY <2>7, <2>8, <2>10, <2>11 DEF PairInv
<1>8. ASSUME NEW r \in Resumes, NEW i \in JobIndex, ScoreReturns(r, i) \/ ScoreRaises(r, i)
      PROVE  PairInv'
  <2>1. /\ <<r, i>> \in calling /\ calling' = calling \ {<<r, i>>}
        /\ UNCHANGED <<waiting, match>>
    BY <1>8 DEF ScoreReturns, ScoreRaises
  <2>2. match[r] = "scoring" /\ i \notin Decided(r)
    BY <2>1 DEF Inv, PairInv
  <2>3. /\ Decided(r)' = Decided(r) \cup {i} /\ Scored(answered'[r])
        /\ \A q \in Resumes : q # r => answered'[q] = answered[q] /\ lost'[q] = lost[q]
    <3>1. CASE ScoreReturns(r, i)
      <4>1. PICK s \in Scores :
               answered' = [answered EXCEPT ![r] = @ \cup {[index |-> i, value |-> s]}]
        BY <3>1 DEF ScoreReturns
      <4> DEFINE new == [index |-> i, value |-> s]
      <4>2. i \in Nat
        BY DEF Inv, TypeOK, JobIndex
      <4>3. new \in Matches /\ new.index = i
        BY <4>2 DEF Matches
      <4> HIDE DEF new
      <4>4. answered'[r] = answered[r] \cup {new} /\ lost' = lost
            /\ \A q \in Resumes : q # r => answered'[q] = answered[q]
        BY <1>0, <3>1, <4>1 DEF ScoreReturns, new
      <4>5. Decided(r)' = Decided(r) \cup {i}
        BY <4>3, <4>4 DEF Decided
      <4>6. Scored(answered[r]) /\ \A m \in answered[r] : m.index # i
        BY <2>2 DEF Inv, PairInv, Decided
      <4>7. IsFiniteSet(answered[r] \cup {new})
        BY <4>6, FS_AddElement DEF Scored
      <4>8. Scored(answered'[r])
        BY <4>3, <4>4, <4>6, <4>7 DEF Scored
      <4>9. QED
        BY <4>4, <4>5, <4>8
    <3>2. CASE ScoreRaises(r, i)
      <4>1. lost'[r] = lost[r] \cup {i} /\ answered' = answered
            /\ \A q \in Resumes : q # r => lost'[q] = lost[q]
        BY <1>0, <3>2 DEF ScoreRaises
      <4>2. QED
        BY <4>1 DEF Decided, Inv, PairInv
    <3>3. QED
      BY <1>8, <3>1, <3>2
  <2>4. \A q \in Resumes : q # r => Decided(q)' = Decided(q)
    BY <2>3 DEF Decided
  <2>5. ASSUME NEW p \in Members(waiting') \cup calling'
        PROVE  match'[p[1]] = "scoring" /\ p[2] \notin Decided(p[1])'
    <3>1. p \in Members(waiting) \cup calling /\ p # <<r, i>>
      BY <2>1 DEF Inv, PairInv
    <3>2. p \in Resumes \X JobIndex
      BY <1>0, <3>1 DEF Members
    <3>3. match[p[1]] = "scoring" /\ p[2] \notin Decided(p[1])
      BY <3>1 DEF Inv, PairInv
    <3>4. CASE p[1] = r
      BY <2>1, <2>3, <3>1, <3>2, <3>3, <3>4
    <3>5. CASE p[1] # r
      BY <2>1, <2>4, <3>2, <3>3, <3>5
    <3>6. QED
      BY <3>4, <3>5
  <2>6. \A q \in Resumes :
            /\ Scored(answered'[q])
            /\ match'[q] \in {"none", "awaiting", "parsed", "raised"} =>
                  answered'[q] = {} /\ lost'[q] = {}
    BY <2>1, <2>2, <2>3 DEF Inv, PairInv
  <2>7. QED
    BY <2>1, <2>5, <2>6 DEF Inv, PairInv
<1>9. ASSUME NEW r \in Resumes, Rank(r) PROVE PairInv'
  <2>1. /\ match[r] = "scoring" /\ match' = [match EXCEPT ![r] = "reported"]
        /\ Decided(r) = JobIndex /\ UNCHANGED pairVars
    BY <1>9 DEF Rank
  <2>2. \A p \in Members(waiting) \cup calling : p \in Resumes \X JobIndex
    BY <1>0 DEF Members
  <2>3. \A p \in Members(waiting) \cup calling : p[1] # r
    BY <2>1, <2>2 DEF Inv, PairInv
  <2>4. \A p : Decided(p)' = Decided(p)
    BY <2>1 DEF Decided
  <2>5. \A p \in Members(waiting) \cup calling :
           match'[p[1]] = "scoring" /\ p[2] \notin Decided(p[1])'
    BY <1>0, <2>1, <2>2, <2>3, <2>4 DEF Inv, PairInv
  <2>6. QED
    BY <1>0, <2>1, <2>5 DEF Inv, PairInv
<1>10. QED
  BY <1>1, <1>2, <1>3, <1>4, <1>5, <1>6, <1>7, <1>8, <1>9 DEF Next

\* TopInv is kept.
LEMMA TopKept == ASSUME Inv, Next PROVE TopInv'
<1> USE DEF jdVars, pairVars
<1>0. /\ match \in [Resumes -> {"none", "awaiting", "parsed", "scoring", "reported", "raised"}]
      /\ resume \in [Resumes -> {"idle", "extracting", "calling", "parsed", "failed", "escaped"}]
      /\ answered \in [Resumes -> SUBSET Matches] /\ lost \in [Resumes -> SUBSET JobIndex]
      /\ report \in [Resumes -> SUBSET Matches]
  BY DEF Inv, TypeOK
<1>1. ASSUME UNCHANGED <<jobList, answered, lost, report>>,
             \A r \in Resumes : /\ match'[r] = "reported" <=> match[r] = "reported"
                                /\ match[r] = "reported" => resume'[r] = resume[r]
      PROVE  TopInv'
  BY <1>1 DEF Inv, TopInv, Decided, JobIndex
<1>2. CASE Start
  BY <1>1, <1>2 DEF Start, Inv, GateInv
<1>3. CASE TakeJd
  <2>1. \A r \in Resumes : match[r] = "none"
    BY <1>3 DEF TakeJd, Inv, GateInv
  <2>2. QED
    BY <1>3, <2>1 DEF TakeJd, Inv, TopInv
<1>4. CASE JdsReady
  BY <1>1, <1>4 DEF JdsReady, Inv, GateInv
<1>5. CASE Return \/ Raise \/ Acquire
  BY <1>1, <1>5 DEF Return, Raise, Acquire, MayAcquire
<1>6. ASSUME NEW j \in Jds, JdEnds(j) PROVE TopInv'
  BY <1>1, <1>6 DEF JdEnds
<1>7. ASSUME NEW r \in Resumes, ExtractionEnds(r) \/ ResumeCallEnds(r) PROVE TopInv'
  <2>1. \A q \in Resumes : match[q] = "reported" => resume'[q] = resume[q]
    BY <1>0, <1>7 DEF ExtractionEnds, ResumeCallEnds, Inv, ParseInv
  <2>2. QED
    BY <1>1, <1>7, <2>1 DEF ExtractionEnds, ResumeCallEnds
<1>8. ASSUME NEW r \in Resumes, TakeResume(r) \/ FanOut(r) PROVE TopInv'
  BY <1>0, <1>1, <1>8 DEF TakeResume, FanOut
<1>9. TopOf({}) = {}
  BY DEF TopOf
<1>10. ASSUME NEW r \in Resumes, Skip(r) PROVE TopInv'
  <2>1. /\ match[r] = "parsed" /\ match' = [match EXCEPT ![r] = "reported"]
        /\ UNCHANGED <<jobList, resume, answered, lost, report>>
        /\ resume[r] = "failed" \/ jobList = <<>>
    BY <1>10 DEF Skip
  <2>2. Decided(r) = {} /\ answered[r] = {} /\ report[r] = {}
    BY <2>1 DEF Inv, PairInv, TopInv, Decided
  <2>3. jobList = <<>> => JobIndex = {}
    BY DEF JobIndex
  <2>4. resume[r] = "parsed" => Decided(r) = JobIndex /\ report[r] = TopOf(answered[r])
    BY <1>9, <2>1, <2>2, <2>3
  <2>5. QED
    BY <1>0, <2>1, <2>2, <2>4 DEF Inv, TopInv, Decided, JobIndex
<1>11. ASSUME NEW r \in Resumes, NEW i \in JobIndex, ScoreReturns(r, i) \/ ScoreRaises(r, i)
       PROVE  TopInv'
  <2>1. match[r] = "scoring"
    BY <1>11 DEF ScoreReturns, ScoreRaises, Inv, PairInv
  <2>2. /\ UNCHANGED <<jobList, match, resume, report>>
        /\ \A q \in Resumes : q # r => answered'[q] = answered[q] /\ lost'[q] = lost[q]
    BY <1>0, <1>11 DEF ScoreReturns, ScoreRaises
  <2>3. \A q \in Resumes : q # r => Decided(q)' = Decided(q)
    BY <2>2 DEF Decided
  <2>4. QED
    BY <2>1, <2>2, <2>3 DEF Inv, TopInv, JobIndex
<1>12. ASSUME NEW r \in Resumes, Rank(r) PROVE TopInv'
  <2>1. /\ match' = [match EXCEPT ![r] = "reported"] /\ Decided(r) = JobIndex
        /\ report' = [report EXCEPT ![r] = TopOf(answered[r])]
        /\ UNCHANGED <<jobList, resume, answered, lost>>
    BY <1>12 DEF Rank
  <2>2. report'[r] = TopOf(answered[r]) /\ \A q \in Resumes : q # r => report'[q] = report[q]
    BY <1>0, <2>1
  <2>3. QED
    BY <1>0, <2>1, <2>2 DEF Inv, TopInv, Decided, JobIndex
<1>13. QED
  BY <1>2, <1>3, <1>4, <1>5, <1>6, <1>7, <1>8, <1>10, <1>11, <1>12 DEF Next

\* A resume that is counted, and one that has its report.
LEMMA CountsGrow ==
    ASSUME NEW r \in Resumes
    PROVE  /\ r \notin Counted => Cardinality(Counted \cup {r}) = Cardinality(Counted) + 1
           /\ r \notin Finished => Cardinality(Finished \cup {r}) = Cardinality(Finished) + 1
<1>1. r \in 1..NumResumes /\ NumResumes \in Nat
      /\ Counted \in SUBSET (1..NumResumes) /\ Finished \in SUBSET (1..NumResumes)
  BY DEF Resumes, Counted, Finished
<1>2. QED
  BY <1>1, OneMore

\* CountInv is kept.
LEMMA CountKept == ASSUME Inv, Next PROVE CountInv'
<1> USE DEF jdVars, pairVars
<1>0. match \in [Resumes -> {"none", "awaiting", "parsed", "scoring", "reported", "raised"}]
  BY DEF Inv, TypeOK
<1>1. ASSUME UNCHANGED <<match, parsed, scored>> PROVE CountInv'
  BY <1>1 DEF Inv, CountInv, Counted, Finished
<1>2. CASE Start \/ TakeJd \/ Return \/ Raise \/ Acquire
  BY <1>1, <1>2 DEF Start, TakeJd, Return, Raise, Acquire, MayAcquire
<1>3. CASE JdsReady
  <2>1. \A r \in Resumes : match[r] = "none" /\ match'[r] = "awaiting"
    BY <1>3 DEF JdsReady, Inv, GateInv
  <2>2. Counted' = Counted /\ Finished' = Finished
    BY <2>1 DEF Counted, Finished
  <2>3. QED
    BY <1>3, <2>2 DEF JdsReady, Inv, CountInv
<1>4. ASSUME NEW j \in Jds, JdEnds(j) PROVE CountInv'
  BY <1>1, <1>4 DEF JdEnds
<1>5. ASSUME NEW r \in Resumes, ExtractionEnds(r) \/ ResumeCallEnds(r) PROVE CountInv'
  BY <1>1, <1>5 DEF ExtractionEnds, ResumeCallEnds
<1>6. ASSUME NEW r \in Resumes, TakeResume(r) PROVE CountInv'
  <2>1. CASE resume[r] = "escaped"
    <3>1. match' = [match EXCEPT ![r] = "raised"] /\ match[r] = "awaiting"
          /\ UNCHANGED <<parsed, scored>>
      BY <1>6, <2>1 DEF TakeResume
    <3>2. Counted' = Counted /\ Finished' = Finished
      BY <1>0, <3>1 DEF Counted, Finished
    <3>3. QED
      BY <3>1, <3>2 DEF Inv, CountInv
  <2>2. CASE resume[r] # "escaped"
    <3>1. match' = [match EXCEPT ![r] = "parsed"] /\ match[r] = "awaiting"
          /\ parsed' = parsed + 1 /\ scored' = scored
      BY <1>6, <2>2 DEF TakeResume
    <3>2. Counted' = Counted \cup {r} /\ r \notin Counted /\ Finished' = Finished
      BY <1>0, <3>1 DEF Counted, Finished
    <3>3. QED
      BY <3>1, <3>2, CountsGrow DEF Inv, CountInv
  <2>3. QED
    BY <2>1, <2>2
<1>7. ASSUME NEW r \in Resumes, FanOut(r) PROVE CountInv'
  <2>1. match' = [match EXCEPT ![r] = "scoring"] /\ match[r] = "parsed"
        /\ UNCHANGED <<parsed, scored>>
    BY <1>7 DEF FanOut
  <2>2. Counted' = Counted /\ Finished' = Finished
    BY <1>0, <2>1 DEF Counted, Finished
  <2>3. QED
    BY <2>1, <2>2 DEF Inv, CountInv
<1>8. ASSUME NEW r \in Resumes, Skip(r) \/ Rank(r) PROVE CountInv'
  <2>1. match' = [match EXCEPT ![r] = "reported"] /\ match[r] \in {"parsed", "scoring"}
        /\ parsed' = parsed /\ scored' = scored + 1
    BY <1>8 DEF Skip, Rank
  <2>2. Counted' = Counted /\ Finished' = Finished \cup {r} /\ r \notin Finished
    BY <1>0, <2>1 DEF Counted, Finished
  <2>3. QED
    BY <2>1, <2>2, CountsGrow DEF Inv, CountInv
<1>9. ASSUME NEW r \in Resumes, NEW i \in JobIndex, ScoreReturns(r, i) \/ ScoreRaises(r, i)
      PROVE  CountInv'
  BY <1>1, <1>9 DEF ScoreReturns, ScoreRaises
<1>10. QED
  BY <1>2, <1>3, <1>4, <1>5, <1>6, <1>7, <1>8, <1>9 DEF Next

\* The types are kept, and no more calls are in flight than slots.
LEMMA TypeKept == ASSUME Inv, Next PROVE TypeOK' /\ IsFiniteSet(calling)'
<1> USE DEF jdVars, pairVars
<1>0. TypeOK /\ IsFiniteSet(calling) /\ Cardinality(calling) \in Nat
  BY FS_CardinalityType DEF Inv
<1>1. jdDone' \in 0..NumJds /\ parsed' \in 0..NumResumes /\ scored' \in 0..NumResumes
  <2>1. /\ Taken' \in SUBSET (1..NumJds) /\ NumJds \in Nat /\ NumResumes \in Nat
        /\ Counted' \in SUBSET (1..NumResumes) /\ Finished' \in SUBSET (1..NumResumes)
    BY DEF Taken, Jds, Counted, Finished, Resumes
  <2>2. /\ Cardinality(Taken') \in 0..NumJds /\ Cardinality(Counted') \in 0..NumResumes
        /\ Cardinality(Finished') \in 0..NumResumes
    BY <2>1, RangeSets
  <2>3. QED
    BY <2>2, JdKept, CountKept DEF JdInv, CountInv
<1>2. CASE Start \/ Return \/ Raise
  BY <1>0, <1>1, <1>2 DEF Start, Return, Raise, TypeOK, JobIndex
<1>3. CASE TakeJd
  <2>1. \A r \in Resumes : match[r] = "none"
    BY <1>3 DEF TakeJd, Inv, GateInv
  <2>2. waiting = <<>> /\ calling = {} /\ \A r \in Resumes : lost[r] = {}
    BY <1>3, <2>1 DEF TakeJd, Inv, GateInv, PairInv
  <2>3. /\ waiting' \in Seq(Resumes \X JobIndex') /\ calling' \subseteq Resumes \X JobIndex'
        /\ lost' \in [Resumes -> SUBSET JobIndex']
    BY <1>0, <1>3, <2>2 DEF TakeJd, TypeOK
  <2>4. jobList' \in Seq(Jds) /\ finished' \in Seq(Jds) /\ stage' \in {"parsing", "raised"}
    <3>1. finished # <<>> /\ stage = "parsing" /\ finished' = Tail(finished)
      BY <1>3 DEF TakeJd
    <3>2. PICK h \in Jds : h = Head(finished)
      BY <3>1, Queues
    <3>3. CASE jd[h] = "escaped"
      BY <1>0, <1>3, <3>1, <3>2, <3>3, Queues DEF TakeJd, TypeOK
    <3>4. CASE jd[h] # "escaped"
      <4>1. jobList' \in Seq(Jds)
        BY <1>3, <3>2, <3>4, JobsJoin
      <4>2. QED
        BY <1>3, <3>1, <3>2, <3>4, <4>1, Queues DEF TakeJd
    <3>5. QED
      BY <3>3, <3>4
  <2>5. QED
    BY <1>0, <1>1, <1>3, <2>3, <2>4 DEF TakeJd, TypeOK
<1>4. CASE JdsReady
  BY <1>0, <1>1, <1>4 DEF JdsReady, TypeOK, JobIndex
<1>5. CASE Acquire
  <2>1. /\ Head(waiting) \in Resumes \X JobIndex
        /\ Tail(waiting) \in Seq(Resumes \X JobIndex)
    BY <1>5, Queues DEF Acquire, MayAcquire
  <2>2. /\ IsFiniteSet(calling \cup {Head(waiting)})
        /\ Cardinality(calling \cup {Head(waiting)}) <= Concurrency
    <3>1. Cardinality(calling) < Concurrency
      BY <1>5 DEF Acquire, MayAcquire
    <3>2. /\ IsFiniteSet(calling \cup {Head(waiting)})
          /\ Cardinality(calling \cup {Head(waiting)}) \in {Cardinality(calling), Cardinality(calling) + 1}
      BY <1>0, FS_AddElement
    <3>3. QED
      BY <1>0, <3>1, <3>2
  <2>3. QED
    BY <1>0, <1>1, <1>5, <2>1, <2>2 DEF Acquire, MayAcquire, TypeOK, JobIndex
<1>6. ASSUME NEW j \in Jds, JdEnds(j) PROVE TypeOK' /\ IsFiniteSet(calling)'
  <2>1. jd' \in [Jds -> {"idle", "parsing", "done", "escaped"}]
    BY <1>0, <1>6 DEF JdEnds, TypeOK
  <2>2. found' \in [Jds -> 0..MaxJobs]
    BY <1>0, <1>6 DEF JdEnds, TypeOK
  <2>3. finished' \in Seq(Jds)
    BY <1>0, <1>6 DEF JdEnds, TypeOK
  <2>4. QED
    BY <1>0, <1>1, <1>6, <2>1, <2>2, <2>3 DEF JdEnds, TypeOK, JobIndex
<1>7. ASSUME NEW r \in Resumes, ExtractionEnds(r) \/ ResumeCallEnds(r)
      PROVE  TypeOK' /\ IsFiniteSet(calling)'
  <2>1. resume' \in [Resumes -> {"idle", "extracting", "calling", "parsed", "failed", "escaped"}]
    BY <1>0, <1>7 DEF ExtractionEnds, ResumeCallEnds, TypeOK
  <2>2. QED
    BY <1>0, <1>1, <1>7, <2>1 DEF ExtractionEnds, ResumeCallEnds, TypeOK, JobIndex
<1>8. ASSUME NEW r \in Resumes, TakeResume(r) \/ Skip(r)
      PROVE  TypeOK' /\ IsFiniteSet(calling)'
  <2>1. match' \in [Resumes -> {"none", "awaiting", "parsed", "scoring", "reported", "raised"}]
    BY <1>0, <1>8 DEF TakeResume, Skip, TypeOK
  <2>2. QED
    BY <1>0, <1>1, <1>8, <2>1 DEF TakeResume, Skip, TypeOK, JobIndex
<1>9. ASSUME NEW r \in Resumes, FanOut(r) PROVE TypeOK' /\ IsFiniteSet(calling)'
  <2>1. match' \in [Resumes -> {"none", "awaiting", "parsed", "scoring", "reported", "raised"}]
    BY <1>0, <1>9 DEF FanOut, TypeOK
  <2>2. [i \in JobIndex |-> <<r, i>>] \in Seq(Resumes \X JobIndex)
    <3>1. JobIndex = 1..Len(jobList) /\ Len(jobList) \in Nat
      BY <1>0 DEF TypeOK, JobIndex
    <3>2. QED
      BY <3>1
  <2>3. waiting' \in Seq(Resumes \X JobIndex)
    BY <1>0, <1>9, <2>2, Concatenated DEF FanOut, TypeOK
  <2>4. QED
    BY <1>0, <1>1, <1>9, <2>1, <2>3 DEF FanOut, TypeOK, JobIndex
<1>10. ASSUME NEW r \in Resumes, NEW i \in JobIndex, ScoreReturns(r, i) \/ ScoreRaises(r, i)
       PROVE  TypeOK' /\ IsFiniteSet(calling)'
  <2>1. calling' = calling \ {<<r, i>>}
    BY <1>10 DEF ScoreReturns, ScoreRaises
  <2>2. IsFiniteSet(calling') /\ Cardinality(calling') <= Concurrency
    <3>1. IsFiniteSet(calling') /\ Cardinality(calling') <= Cardinality(calling)
      BY <1>0, <2>1, FS_Subset
    <3>2. Cardinality(calling') \in Nat /\ Cardinality(calling) <= Concurrency
      BY <1>0, <3>1, FS_CardinalityType DEF TypeOK
    <3>3. QED
      BY <1>0, <3>1, <3>2
  <2>3. answered' \in [Resumes -> SUBSET Matches]
    <3>1. CASE ScoreReturns(r, i)
      <4>1. i \in Nat
        BY <1>0 DEF TypeOK, JobIndex
      <4>2. \A s \in Scores : [index |-> i, value |-> s] \in Matches
        BY <4>1 DEF Matches
      <4>3. QED
        BY <1>0, <3>1, <4>2 DEF ScoreReturns, TypeOK
    <3>2. CASE ScoreRaises(r, i)
      BY <1>0, <3>2 DEF ScoreRaises, TypeOK
    <3>3. QED
      BY <1>10, <3>1, <3>2
  <2>4. lost' \in [Resumes -> SUBSET JobIndex]
    <3>1. lost \in [Resumes -> SUBSET JobIndex]
      BY <1>0 DEF TypeOK
    <3>2. lost' = lost \/ lost' = [lost EXCEPT ![r] = @ \cup {i}]
      BY <1>10 DEF ScoreReturns, ScoreRaises
    <3>3. QED
      BY <3>1, <3>2
  <2>5. QED
    BY <1>0, <1>1, <1>10, <2>1, <2>2, <2>3, <2>4 DEF ScoreReturns, ScoreRaises, TypeOK, JobIndex
<1>11. ASSUME NEW r \in Resumes, Rank(r) PROVE TypeOK' /\ IsFiniteSet(calling)'
  <2>1. match' \in [Resumes -> {"none", "awaiting", "parsed", "scoring", "reported", "raised"}]
    BY <1>0, <1>11 DEF Rank, TypeOK
  <2>2. TopOf(answered[r]) \in SUBSET Matches
    BY <1>0 DEF TypeOK, TopOf
  <2>3. report' \in [Resumes -> SUBSET Matches]
    BY <1>0, <1>11, <2>2 DEF Rank, TypeOK
  <2>4. QED
    BY <1>0, <1>1, <1>11, <2>1, <2>3 DEF Rank, TypeOK, JobIndex
<1>12. QED
  BY <1>2, <1>3, <1>4, <1>5, <1>6, <1>7, <1>8, <1>9, <1>10, <1>11 DEF Next

\* Every reachable state satisfies the invariant.
LEMMA Inductive == Spec => []Inv
<1>1. Inv /\ [Next]_vars => Inv'
  <2>1. CASE Next
    BY <2>1, TypeKept, JdKept, GateKept, PairKept, TopKept, CountKept DEF Inv
  <2>2. CASE UNCHANGED vars
    BY <2>2, StutterInv
  <2>3. QED
    BY <2>1, <2>2
<1>2. QED
  BY InitInv, <1>1, PTL DEF Spec

----------------------------------------------------------------------------
(* The theorems *)

\* The variables keep their types, and no more than Concurrency scoring calls
\* are in flight, whatever the number of resumes that share the semaphore.
THEOREM TypeCorrect == Spec => []TypeOK
<1>1. Inv => TypeOK
  BY DEF Inv
<1>2. QED
  BY Inductive, <1>1, PTL

\* When the last file is in, every file is done.
LEMMA AllTaken == ASSUME Inv, jdDone = NumJds PROVE Taken = Jds
<1>1. Taken \in SUBSET (1..NumJds) /\ NumJds \in Nat
  BY DEF Taken, Jds
<1>2. Cardinality(Taken) = NumJds
  BY DEF Inv, JdInv
<1>3. QED
  BY <1>1, <1>2, RangeSets DEF Jds

\* A reported resume was ranked against all jobs of all files, and its top
\* matches are the best TopK of the scores the model gave.
THEOREM RankingSafe == Spec => []RankingFaithful
<1>1. ASSUME Inv PROVE RankedOnAll
  <2> SUFFICES ASSUME NEW r \in Resumes, match[r] = "reported", resume[r] = "parsed"
               PROVE  /\ \A j \in Jds : jd[j] = "done"
                             /\ Cardinality({i \in JobIndex : jobList[i] = j}) = found[j]
                      /\ Decided(r) = JobIndex
    BY DEF RankedOnAll
  <2>1. jdDone = NumJds
    BY <1>1 DEF Inv, GateInv
  <2>2. Taken = Jds
    BY <1>1, <2>1, AllTaken
  <2>3. \A j \in Jds : jd[j] = "done" /\ Cardinality(JobsOf(j)) = found[j]
    BY <1>1, <2>2 DEF Inv, JdInv, Taken
  <2>4. Decided(r) = JobIndex
    BY <1>1 DEF Inv, TopInv
  <2>5. QED
    BY <2>3, <2>4 DEF JobsOf
<1>2. ASSUME Inv PROVE TopIsBest
  <2>1. ASSUME NEW r \in Resumes, match[r] = "reported", resume[r] = "parsed"
        PROVE  /\ report[r] \subseteq answered[r]
               /\ \A m \in report[r], n \in answered[r] \ report[r] : m.value >= n.value
               /\ Cardinality(report[r]) =
                     IF Cardinality(answered[r]) < TopK THEN Cardinality(answered[r]) ELSE TopK
    <3>1. Scored(answered[r]) /\ report[r] = TopOf(answered[r])
      BY <1>2, <2>1 DEF Inv, PairInv, TopInv
    <3>2. QED
      BY <3>1, TopIsRight
  <2>2. QED
    BY <2>1 DEF TopIsBest
<1>3. Inv => RankingFaithful
  BY <1>1, <1>2 DEF RankingFaithful
<1>4. QED
  BY Inductive, <1>3, PTL

\* A resume that is not reported yet keeps the count below the total, and one
\* that was parsed but not reported keeps it below the count of the parsed.
LEMMA CountsBehind ==
    ASSUME Inv, NEW r \in Resumes, match[r] # "reported"
    PROVE  /\ scored < NumResumes
           /\ match[r] \in {"parsed", "scoring"} => scored < parsed
           /\ match[r] = "awaiting" => parsed < NumResumes
<1>1. /\ Counted \in SUBSET (1..NumResumes) /\ Finished \in SUBSET (1..NumResumes)
      /\ Finished \in SUBSET Counted /\ 1..NumResumes \in SUBSET (1..NumResumes)
      /\ r \in 1..NumResumes /\ r \notin Finished /\ NumResumes \in Nat
  BY DEF Resumes, Counted, Finished
<1>2. Cardinality(1..NumResumes) = NumResumes
  BY <1>1, FS_Interval
<1>3. Cardinality(Finished) < Cardinality(1..NumResumes)
  BY <1>1, Fewer
<1>4. match[r] \in {"parsed", "scoring"} => Cardinality(Finished) < Cardinality(Counted)
  <2>1. match[r] \in {"parsed", "scoring"} => r \in Counted
    BY DEF Counted
  <2>2. QED
    BY <1>1, <2>1, Fewer
<1>5. match[r] = "awaiting" => Cardinality(Counted) < Cardinality(1..NumResumes)
  <2>1. match[r] = "awaiting" => r \notin Counted
    BY DEF Counted
  <2>2. QED
    BY <1>1, <2>1, Fewer
<1>6. QED
  BY <1>2, <1>3, <1>4, <1>5 DEF Inv, CountInv

\* Every step of the call is one that ProgressContract allows, or changes
\* nothing a listener sees.
LEMMA StepSeen == ASSUME Inv, Next PROVE [Progress!Next]_(Progress!vars)
<1> USE DEF jdVars, pairVars, Progress!vars
<1>1. CASE Start
  BY <1>1 DEF Start, Progress!Next, Progress!Start
<1>2. CASE TakeJd
  <2>1. stage = "parsing" /\ UNCHANGED <<parsed, scored>> /\ finished # <<>>
    BY <1>2 DEF TakeJd
  <2>2. PICK h \in Jds : h = Head(finished)
    BY <2>1, Queues
  <2>3. jdDone < NumJds
    <3>1. /\ Taken \in SUBSET (1..NumJds) /\ 1..NumJds \in SUBSET (1..NumJds)
          /\ h \in 1..NumJds /\ h \notin Taken /\ NumJds \in Nat
      BY <2>1, <2>2, Queues DEF Taken, Jds
    <3>2. Cardinality(Taken) < Cardinality(1..NumJds)
      BY <3>1, Fewer
    <3>3. Cardinality(1..NumJds) = NumJds
      BY <3>1, FS_Interval
    <3>4. QED
      BY <3>2, <3>3 DEF Inv, JdInv
  <2>4. CASE jd[h] = "escaped"
    BY <1>2, <2>1, <2>2, <2>3, <2>4 DEF TakeJd, Progress!Next, Progress!Raise
  <2>5. CASE jd[h] # "escaped"
    BY <1>2, <2>1, <2>2, <2>3, <2>5 DEF TakeJd, Progress!Next, Progress!JdParsed
  <2>6. QED
    BY <2>4, <2>5
<1>3. CASE JdsReady
  BY <1>3 DEF JdsReady, Progress!Next, Progress!JdsReady
<1>4. CASE Return
  <2>1. Finished = 1..NumResumes /\ NumResumes \in Nat
    BY <1>4 DEF Return, Finished, Resumes
  <2>2. scored = NumResumes
    <3>1. Cardinality(1..NumResumes) = NumResumes
      BY <2>1, FS_Interval
    <3>2. QED
      BY <2>1, <3>1 DEF Inv, CountInv
  <2>3. QED
    BY <1>4, <2>2 DEF Return, Progress!Next, Progress!Return
<1>5. CASE Raise
  <2>1. PICK r \in Resumes : match[r] = "raised"
    BY <1>5 DEF Raise
  <2>2. scored < NumResumes
    BY <2>1, CountsBehind
  <2>3. QED
    BY <1>5, <2>2 DEF Raise, Progress!Next, Progress!Raise
<1>6. ASSUME NEW r \in Resumes, match[r] \in {"awaiting", "parsed", "scoring"}
      PROVE  Progress!ResumesUnderWay
  <2>1. stage \in {"new", "parsing", "matching", "returned", "raised"}
    BY DEF Inv, TypeOK
  <2>2. QED
    BY <1>6, <2>1 DEF Inv, GateInv, Progress!ResumesUnderWay
<1>7. ASSUME NEW r \in Resumes, TakeResume(r) PROVE [Progress!Next]_(Progress!vars)
  <2>1. Progress!ResumesUnderWay /\ parsed < NumResumes
    BY <1>6, <1>7, CountsBehind DEF TakeResume
  <2>2. CASE resume[r] = "escaped"
    BY <1>7, <2>2 DEF TakeResume
  <2>3. CASE resume[r] # "escaped"
    BY <1>7, <2>1, <2>3 DEF TakeResume, Progress!Next, Progress!ResumeParsed
  <2>4. QED
    BY <2>2, <2>3
<1>8. ASSUME NEW r \in Resumes, Skip(r) \/ Rank(r) PROVE [Progress!Next]_(Progress!vars)
  <2>1. match[r] \in {"parsed", "scoring"}
        /\ scored' = scored + 1 /\ UNCHANGED <<stage, jdDone, parsed>>
    BY <1>8 DEF Skip, Rank
  <2>2. Progress!ResumesUnderWay /\ scored < parsed
    BY <1>6, <2>1, CountsBehind
  <2>3. QED
    BY <2>1, <2>2 DEF Progress!Next, Progress!ResumeScored
<1>9. ASSUME UNCHANGED <<stage, jdDone, parsed, scored>> PROVE [Progress!Next]_(Progress!vars)
  BY <1>9
<1>10. CASE Acquire \/ \E j \in Jds : JdEnds(j)
  BY <1>9, <1>10 DEF Acquire, MayAcquire, JdEnds
<1>11. ASSUME NEW r \in Resumes,
              \/ ExtractionEnds(r) \/ ResumeCallEnds(r) \/ FanOut(r)
              \/ \E i \in JobIndex : ScoreReturns(r, i) \/ ScoreRaises(r, i)
       PROVE  [Progress!Next]_(Progress!vars)
  BY <1>9, <1>11 DEF ExtractionEnds, ResumeCallEnds, FanOut, ScoreReturns, ScoreRaises
<1>12. QED
  BY <1>1, <1>2, <1>3, <1>4, <1>5, <1>7, <1>8, <1>10, <1>11 DEF Next

\* A listener on on_progress sees what ProgressContract promises: the resumes
\* after the last job description, none scored before it was parsed, a report
\* only when all are scored.
THEOREM ProgressKept == Spec => ImplementsProgress
<1>1. Init => Progress!Init
  BY DEF Init, Progress!Init
<1>2. Inv /\ [Next]_vars => [Progress!Next]_(Progress!vars)
  <2>1. UNCHANGED vars => UNCHANGED Progress!vars
    BY DEF vars, jdVars, Progress!vars
  <2>2. QED
    BY <2>1, StepSeen
<1>3. QED
  BY Inductive, <1>1, <1>2, PTL DEF Spec, ImplementsProgress, Progress!Spec
----------------------------------------------------------------------------
(* What the steps do to the pairs *)

\* The tasks of a resume's pairs queue up behind the others.
LEMMA FanOutQueues ==
    ASSUME Inv, NEW r \in Resumes, FanOut(r)
    PROVE  Members(waiting') = Members(waiting) \cup {<<r, i>> : i \in JobIndex}
<1> DEFINE new == [i \in JobIndex |-> <<r, i>>]
<1>1. waiting' = waiting \o new /\ waiting \in Seq(Resumes \X JobIndex)
  BY DEF FanOut, Inv, TypeOK
<1>2. JobIndex = 1..Len(jobList) /\ Len(jobList) \in Nat
  BY DEF Inv, TypeOK, JobIndex
<1>3. /\ new \in Seq(Resumes \X JobIndex) /\ DOMAIN new = JobIndex
      /\ \A i \in JobIndex : new[i] = <<r, i>>
  BY <1>2
<1> HIDE DEF new
<1>4. Members(new) = {<<r, i>> : i \in JobIndex}
  BY <1>3 DEF Members
<1>5. Members(waiting') = Members(waiting) \cup Members(new)
  BY <1>1, <1>3, Concatenated
<1>6. QED
  BY <1>4, <1>5

\* The first of the queue gets its slot.
LEMMA AcquireMoves ==
    ASSUME Inv, Acquire
    PROVE  \E r \in Resumes, i \in JobIndex :
              /\ <<r, i>> \notin Members(waiting') /\ <<r, i>> \notin calling
              /\ Members(waiting) = Members(waiting') \cup {<<r, i>>}
              /\ calling' = calling \cup {<<r, i>>}
              /\ i \notin Decided(r)
<1> DEFINE h == Head(waiting)
<1>1. waiting # <<>> /\ waiting' = Tail(waiting) /\ calling' = calling \cup {h}
  BY DEF Acquire, MayAcquire
<1>2. /\ h \in Resumes \X JobIndex /\ h \in Members(waiting)
      /\ Members(waiting) = Members(Tail(waiting)) \cup {h}
      /\ h \notin Members(Tail(waiting))
  BY <1>1, Queues
<1>3. h \notin calling /\ h[2] \notin Decided(h[1])
  BY <1>2 DEF Inv, PairInv
<1> HIDE DEF h
<1>4. PICK r \in Resumes, i \in JobIndex : h = <<r, i>>
  BY <1>2
<1>5. QED
  BY <1>1, <1>2, <1>3, <1>4

\* A call that ends, either way, decides its pair and no other.
LEMMA CallDecides ==
    ASSUME Inv, NEW r \in Resumes, NEW i \in JobIndex, ScoreReturns(r, i) \/ ScoreRaises(r, i)
    PROVE  /\ <<r, i>> \in calling /\ calling' = calling \ {<<r, i>>}
           /\ match[r] = "scoring" /\ i \notin Decided(r)
           /\ Decided(r)' = Decided(r) \cup {i}
           /\ \A q \in Resumes : q # r => answered'[q] = answered[q] /\ lost'[q] = lost[q]
           /\ UNCHANGED <<stage, known, jdVars, resume, match, waiting, parsed, scored, report>>
<1>1. /\ <<r, i>> \in calling /\ calling' = calling \ {<<r, i>>}
      /\ UNCHANGED <<stage, known, jdVars, resume, match, waiting, parsed, scored, report>>
  BY DEF ScoreReturns, ScoreRaises
<1>2. match[r] = "scoring" /\ i \notin Decided(r)
  BY <1>1 DEF Inv, PairInv
<1>3. CASE ScoreReturns(r, i)
  <2>1. PICK s \in Scores :
           answered' = [answered EXCEPT ![r] = @ \cup {[index |-> i, value |-> s]}]
    BY <1>3 DEF ScoreReturns
  <2> DEFINE new == [index |-> i, value |-> s]
  <2>2. new.index = i
    OBVIOUS
  <2> HIDE DEF new
  <2>3. answered'[r] = answered[r] \cup {new} /\ lost' = lost
        /\ \A q \in Resumes : q # r => answered'[q] = answered[q]
    BY <1>3, <2>1 DEF ScoreReturns, Inv, TypeOK, new
  <2>4. Decided(r)' = Decided(r) \cup {i}
    BY <2>2, <2>3 DEF Decided
  <2>5. QED
    BY <1>1, <1>2, <2>3, <2>4
<1>4. CASE ScoreRaises(r, i)
  <2>1. lost'[r] = lost[r] \cup {i} /\ answered' = answered
        /\ \A q \in Resumes : q # r => lost'[q] = lost[q]
    BY <1>4 DEF ScoreRaises, Inv, TypeOK
  <2>2. Decided(r)' = Decided(r) \cup {i}
    BY <2>1 DEF Decided
  <2>3. QED
    BY <1>1, <1>2, <2>1, <2>2
<1>5. QED
  BY <1>3, <1>4

----------------------------------------------------------------------------
(* No resume is held up: what of ParsedIsReported needs no fairness *)

\* The list is no longer than the files that were taken in allow, and each of
\* its jobs has a task for each resume that is being scored.
LoadInv ==
    /\ Len(jobList) <= MaxJobs * jdDone
    /\ \A r \in Resumes :
          /\ stage = "new" => resume[r] = "idle"
          /\ match[r] = "raised" => resume[r] = "escaped"
          /\ Decided(r) \subseteq JobIndex
          /\ match[r] = "scoring" =>
                \A i \in JobIndex : i \in Decided(r) \/ <<r, i>> \in Members(waiting) \cup calling

\* A file that is taken in brings no more than MaxJobs jobs.
LEMMA ListGrows ==
    ASSUME Inv, TakeJd, Len(jobList) <= MaxJobs * jdDone
    PROVE  /\ Len(jobList') <= MaxJobs * jdDone'
           /\ JobIndex \subseteq JobIndex'
<1> DEFINE h == Head(finished)
<1>1. h \in Jds
  BY Queues DEF TakeJd
<1>2. found[h] \in 0..MaxJobs /\ jobList \in Seq(Jds) /\ Len(jobList) \in Nat
      /\ jdDone \in Nat /\ JobIndex = 1..Len(jobList)
  BY <1>1 DEF Inv, TypeOK, JobIndex
<1>3. CASE jd[h] = "escaped"
  BY <1>3 DEF TakeJd, JobIndex
<1>4. CASE jd[h] # "escaped"
  <2> DEFINE new == [i \in 1..found[h] |-> h]
  <2>1. new \in Seq(Jds) /\ Len(new) = found[h]
    <3>1. \A n \in Nat : \A x \in Jds : /\ [i \in 1..n |-> x] \in Seq(Jds)
                                        /\ Len([i \in 1..n |-> x]) = n
      OBVIOUS
    <3>2. QED
      BY <1>1, <1>2, <3>1
  <2>2. jobList' = jobList \o new /\ jdDone' = jdDone + 1
    BY <1>4 DEF TakeJd
  <2> HIDE DEF new
  <2>3. Len(jobList') = Len(jobList) + found[h] /\ DOMAIN jobList' = 1..Len(jobList')
    BY <1>2, <2>1, <2>2
  <2>4. MaxJobs * (jdDone + 1) = MaxJobs * jdDone + MaxJobs /\ MaxJobs * jdDone \in Nat
    BY <1>2
  <2>5. QED
    BY <1>2, <2>2, <2>3, <2>4 DEF JobIndex
<1>5. QED
  BY <1>3, <1>4

\* A step that leaves the list, the pairs and the raised coroutines alone and
\* starts no scoring keeps LoadInv.
LEMMA LoadLeft ==
    ASSUME LoadInv, UNCHANGED <<jobList, jdDone, pairVars>>,
           \A r \in Resumes :
              /\ stage' = "new" => resume'[r] = "idle"
              /\ match'[r] = "scoring" => match[r] = "scoring"
              /\ match'[r] = "raised" => resume'[r] = "escaped"
    PROVE  LoadInv'
<1>1. JobIndex' = JobIndex /\ \A r \in Resumes : Decided(r)' = Decided(r)
  BY DEF JobIndex, Decided, pairVars
<1>2. QED
  BY <1>1 DEF LoadInv, pairVars

\* LoadInv is kept.
LEMMA LoadKept == ASSUME Inv, LoadInv, [Next]_vars PROVE LoadInv'
<1>0. /\ match \in [Resumes -> {"none", "awaiting", "parsed", "scoring", "reported", "raised"}]
      /\ resume \in [Resumes -> {"idle", "extracting", "calling", "parsed", "failed", "escaped"}]
  BY DEF Inv, TypeOK
<1>1. CASE Start \/ JdsReady
  <2>1. \A r \in Resumes : match[r] = "none" /\ match'[r] \in {"none", "awaiting"}
    BY <1>1 DEF Start, JdsReady, Inv, GateInv
  <2>2. QED
    BY <1>1, <2>1, LoadLeft DEF Start, JdsReady, jdVars
<1>2. CASE TakeJd
  <2>1. stage' # "new" /\ \A r \in Resumes : match[r] = "none" /\ match'[r] = "none"
    BY <1>2 DEF TakeJd, Inv, GateInv
  <2>2. \A r \in Resumes : Decided(r)' = Decided(r)
    BY <1>2 DEF TakeJd, Decided, pairVars
  <2>3. QED
    BY <1>2, <2>1, <2>2, ListGrows DEF LoadInv
<1>3. CASE Return \/ Raise
  BY <1>3, LoadLeft DEF Return, Raise, jdVars, LoadInv
<1>4. ASSUME NEW j \in Jds, JdEnds(j) PROVE LoadInv'
  BY <1>4, LoadLeft DEF JdEnds, LoadInv
<1>5. ASSUME NEW r \in Resumes, ExtractionEnds(r) \/ ResumeCallEnds(r) PROVE LoadInv'
  <2>1. resume[r] \notin {"idle", "escaped"} /\ \A q \in Resumes : q # r => resume'[q] = resume[q]
    BY <1>0, <1>5 DEF ExtractionEnds, ResumeCallEnds
  <2>2. QED
    BY <1>5, <2>1, LoadLeft DEF ExtractionEnds, ResumeCallEnds, jdVars, LoadInv
<1>6. ASSUME NEW r \in Resumes, TakeResume(r) PROVE LoadInv'
  <2>1. /\ match'[r] \in {"raised", "parsed"} /\ (match'[r] = "raised" => resume[r] = "escaped")
        /\ \A q \in Resumes : q # r => match'[q] = match[q]
    BY <1>0, <1>6 DEF TakeResume
  <2>2. QED
    BY <1>6, <2>1, LoadLeft DEF TakeResume, jdVars, LoadInv
<1>7. ASSUME NEW r \in Resumes, Skip(r) \/ Rank(r) PROVE LoadInv'
  <2>1. match'[r] = "reported" /\ \A q \in Resumes : q # r => match'[q] = match[q]
    BY <1>0, <1>7 DEF Skip, Rank
  <2>2. QED
    BY <1>7, <2>1, LoadLeft DEF Skip, Rank, jdVars, LoadInv
<1>8. ASSUME NEW r \in Resumes, FanOut(r) PROVE LoadInv'
  <2>1. /\ match'[r] = "scoring" /\ \A q \in Resumes : q # r => match'[q] = match[q]
        /\ UNCHANGED <<stage, jobList, jdDone, resume, calling, answered, lost>>
    BY <1>0, <1>8 DEF FanOut, jdVars
  <2>2. JobIndex' = JobIndex /\ \A q \in Resumes : Decided(q)' = Decided(q)
    BY <2>1 DEF JobIndex, Decided
  <2>3. Members(waiting') = Members(waiting) \cup {<<r, i>> : i \in JobIndex}
    BY <1>8, FanOutQueues
  <2>4. QED
    BY <2>1, <2>2, <2>3 DEF LoadInv
<1>9. CASE Acquire
  <2>1. UNCHANGED <<stage, jobList, jdDone, resume, match, answered, lost>>
    BY <1>9 DEF Acquire, jdVars
  <2>2. JobIndex' = JobIndex /\ \A q \in Resumes : Decided(q)' = Decided(q)
    BY <2>1 DEF JobIndex, Decided
  <2>3. Members(waiting') \cup calling' = Members(waiting) \cup calling
    BY <1>9, AcquireMoves
  <2>4. QED
    BY <2>1, <2>2, <2>3 DEF LoadInv
<1>10. ASSUME NEW r \in Resumes, NEW i \in JobIndex, ScoreReturns(r, i) \/ ScoreRaises(r, i)
       PROVE  LoadInv'
  <2>1. /\ calling' = calling \ {<<r, i>>} /\ Decided(r)' = Decided(r) \cup {i}
        /\ \A q \in Resumes : q # r => answered'[q] = answered[q] /\ lost'[q] = lost[q]
        /\ UNCHANGED <<stage, jobList, jdDone, resume, match, waiting>>
    BY <1>10, CallDecides DEF jdVars
  <2>2. JobIndex' = JobIndex /\ \A q \in Resumes : q # r => Decided(q)' = Decided(q)
    BY <2>1 DEF JobIndex, Decided
  <2>3. ASSUME NEW q \in Resumes, match[q] = "scoring", NEW k \in JobIndex
        PROVE  k \in Decided(q)' \/ <<q, k>> \in Members(waiting) \cup calling'
    <3>1. k \in Decided(q) \/ <<q, k>> \in Members(waiting) \cup calling
      BY <2>3 DEF LoadInv
    <3>2. CASE <<q, k>> = <<r, i>>
      BY <2>1, <3>2
    <3>3. CASE <<q, k>> # <<r, i>>
      BY <2>1, <2>2, <3>1, <3>3
    <3>4. QED
      BY <3>2, <3>3
  <2>4. \A q \in Resumes : Decided(q)' \subseteq JobIndex
    BY <2>1, <2>2 DEF LoadInv
  <2>5. QED
    BY <2>1, <2>2, <2>3, <2>4 DEF LoadInv
<1>11. CASE UNCHANGED vars
  BY <1>11, LoadLeft DEF vars, jdVars, LoadInv
<1>12. QED
  BY <1>1, <1>2, <1>3, <1>4, <1>5, <1>6, <1>7, <1>8, <1>9, <1>10, <1>11 DEF Next

\* So both hold together.
LEMMA LoadHolds == Spec => [](Inv /\ LoadInv)
<1>1. Init => LoadInv
  <2> SUFFICES ASSUME Init PROVE LoadInv
    OBVIOUS
  <2>1. Len(jobList) = 0 /\ JobIndex = {} /\ jdDone = 0 /\ MaxJobs * jdDone = 0
    BY DEF Init, JobIndex
  <2>2. \A r \in Resumes : match[r] = "none" /\ resume[r] = "idle" /\ Decided(r) = {}
    BY DEF Init, Decided
  <2>3. QED
    BY <2>1, <2>2 DEF LoadInv
<1>2. LoadInv /\ Inv /\ [Next]_vars => LoadInv'
  BY LoadKept
<1>3. QED
  BY Inductive, <1>1, <1>2, PTL DEF Spec

\* A parsed resume waits only for calls that are with the model or may go
\* there, never for another resume's parse, whatever the concurrency above 0.
THEOREM NeverHeldUpSafe == Spec => []NeverHeldUp
<1>1. ASSUME Inv, LoadInv PROVE NeverHeldUp
  <2> SUFFICES ASSUME Concurrency > 0, NEW r \in Resumes, match[r] # "none",
                      resume[r] \in {"parsed", "failed"},
                      match[r] \notin {"awaiting", "parsed", "reported"}
               PROVE  match[r] = "scoring" /\ (Decided(r) = JobIndex \/ calling # {} \/ MayAcquire)
    BY DEF NeverHeldUp
  <2>1. match[r] = "scoring"
    BY <1>1 DEF Inv, TypeOK, LoadInv
  <2>2. CASE calling # {} \/ Decided(r) = JobIndex
    BY <2>1, <2>2
  <2>3. CASE calling = {} /\ Decided(r) # JobIndex
    <3>1. PICK i \in JobIndex : i \notin Decided(r)
      BY <1>1, <2>3 DEF LoadInv
    <3>2. <<r, i>> \in Members(waiting)
      BY <1>1, <2>1, <2>3, <3>1 DEF LoadInv
    <3>3. waiting # <<>>
      BY <3>2 DEF Members
    <3>4. MayAcquire
      BY <2>3, <3>3, FS_EmptySet DEF MayAcquire
    <3>5. QED
      BY <2>1, <3>4
  <2>4. QED
    BY <2>2, <2>3
<1>2. QED
  BY LoadHolds, <1>1, PTL

\* A report and the list it points into never change.
THEOREM ReportsSafe == Spec => ReportsFinal
<1> DEFINE Step ==
       \A r \in Resumes :
          /\ match[r] # "none" => jobList' = jobList
          /\ match[r] = "reported" =>
                /\ match'[r] = match[r] /\ report'[r] = report[r]
                /\ answered'[r] = answered[r] /\ lost'[r] = lost[r]
<1>1. Inv /\ [Next]_vars => [Step]_vars
  <2> SUFFICES ASSUME Inv, Next, NEW r \in Resumes, match[r] # "none"
               PROVE  /\ jobList' = jobList
                      /\ match[r] = "reported" =>
                            /\ match'[r] = match[r] /\ report'[r] = report[r]
                            /\ answered'[r] = answered[r] /\ lost'[r] = lost[r]
    BY Zenon
  <2>0. /\ match \in [Resumes -> {"none", "awaiting", "parsed", "scoring", "reported", "raised"}]
        /\ report \in [Resumes -> SUBSET Matches] /\ stage \notin {"new", "parsing"}
    BY DEF Inv, TypeOK, GateInv
  <2>1. CASE \/ Start \/ TakeJd \/ JdsReady
    BY <2>0, <2>1 DEF Start, TakeJd, JdsReady
  <2>2. CASE Return \/ Raise \/ Acquire
    BY <2>2 DEF Return, Raise, Acquire, jdVars, pairVars
  <2>3. ASSUME NEW j \in Jds, JdEnds(j) PROVE UNCHANGED <<jobList, match, report, answered, lost>>
    BY <2>3 DEF JdEnds, pairVars
  <2>4. ASSUME NEW q \in Resumes, ExtractionEnds(q) \/ ResumeCallEnds(q)
        PROVE  UNCHANGED <<jobList, match, report, answered, lost>>
    BY <2>4 DEF ExtractionEnds, ResumeCallEnds, jdVars, pairVars
  <2>5. ASSUME NEW q \in Resumes, TakeResume(q) \/ Skip(q) \/ FanOut(q) \/ Rank(q)
        PROVE  /\ UNCHANGED <<jobList, answered, lost>> /\ match[q] # "reported"
               /\ \A o \in Resumes : o # q => match'[o] = match[o] /\ report'[o] = report[o]
    BY <2>0, <2>5 DEF TakeResume, Skip, FanOut, Rank, jdVars, pairVars
  <2>6. ASSUME NEW q \in Resumes, NEW i \in JobIndex, ScoreReturns(q, i) \/ ScoreRaises(q, i)
        PROVE  /\ UNCHANGED <<jobList, match, report>> /\ match[q] # "reported"
               /\ \A o \in Resumes : o # q => answered'[o] = answered[o] /\ lost'[o] = lost[o]
    BY <2>6, CallDecides DEF jdVars
  <2>7. QED
    BY <2>1, <2>2, <2>3, <2>4, <2>5, <2>6 DEF Next
<1>2. QED
  BY Inductive, <1>1, PTL DEF Spec, ReportsFinal
----------------------------------------------------------------------------
(* No step is for free *)

\* What is left is counted in naturals.
LEMMA LeftNat ==
    /\ StagesLeft \in Nat /\ StagesLeft' \in Nat
    /\ \A j \in Jds : FileLeft(j) \in Nat /\ FileLeft(j)' \in Nat
    /\ \A r \in Resumes :
          /\ ParseLeft(r) \in Nat /\ ParseLeft(r)' \in Nat
          /\ MatchLeft(r) \in Nat /\ MatchLeft(r)' \in Nat
          /\ \A i \in JobSlots : PairLeft(r, i) \in Nat /\ PairLeft(r, i)' \in Nat
  BY DEF StagesLeft, FileLeft, ParseLeft, MatchLeft, PairLeft

\* What a step does not touch has as much left as before.
LEMMA LeftAlone ==
    /\ stage' = stage => StagesLeft' = StagesLeft
    /\ UNCHANGED <<jd, finished>> => \A j \in Jds : FileLeft(j)' = FileLeft(j)
    /\ resume' = resume => \A r \in Resumes : ParseLeft(r)' = ParseLeft(r)
    /\ match' = match => \A r \in Resumes : MatchLeft(r)' = MatchLeft(r)
    /\ UNCHANGED pairVars => \A r \in Resumes, i \in JobSlots : PairLeft(r, i)' = PairLeft(r, i)
  BY DEF StagesLeft, FileLeft, ParseLeft, MatchLeft, PairLeft, Decided, pairVars

\* The jobs on the list are among those that the files may hold.
LEMMA IndexInSlots == ASSUME Inv, LoadInv PROVE JobIndex \subseteq JobSlots
<1>1. /\ JobIndex = 1..Len(jobList) /\ Len(jobList) \in Nat
      /\ jdDone \in 0..NumJds /\ Len(jobList) <= MaxJobs * jdDone
  BY DEF Inv, TypeOK, LoadInv, JobIndex
<1>2. MaxJobs * jdDone <= NumJds * MaxJobs
  <2>1. jdDone \in Nat /\ NumJds - jdDone \in Nat
    BY <1>1
  <2>2. MaxJobs * (NumJds - jdDone) \in Nat /\ MaxJobs * jdDone \in Nat /\ NumJds * MaxJobs \in Nat
    BY <2>1
  <2>3. NumJds * MaxJobs = MaxJobs * jdDone + MaxJobs * (NumJds - jdDone)
    BY <2>1
  <2>4. QED
    BY <2>2, <2>3
<1>3. MaxJobs * jdDone \in Nat /\ NumJds * MaxJobs \in Nat
  BY <1>1
<1>4. QED
  BY <1>1, <1>2, <1>3 DEF JobSlots

\* The step takes nothing back from any of the five counts ...
NothingBack ==
    /\ StagesLeft' <= StagesLeft
    /\ \A j \in Jds : FileLeft(j)' <= FileLeft(j)
    /\ \A r \in Resumes :
          /\ ParseLeft(r)' <= ParseLeft(r)
          /\ MatchLeft(r)' <= MatchLeft(r)
          /\ \A i \in JobSlots : PairLeft(r, i)' <= PairLeft(r, i)

\* ... and takes something on.
SomethingOn ==
    \/ StagesLeft' < StagesLeft
    \/ \E j \in Jds : FileLeft(j)' < FileLeft(j)
    \/ \E r \in Resumes :
          \/ ParseLeft(r)' < ParseLeft(r)
          \/ MatchLeft(r)' < MatchLeft(r)
          \/ \E i \in JobSlots : PairLeft(r, i)' < PairLeft(r, i)

\* The steps of match_all itself.
LEMMA CallCounts ==
    ASSUME Inv, LoadInv, Start \/ JdsReady \/ Return \/ Raise
    PROVE  NothingBack /\ SomethingOn
<1>1. CASE Start
  <2>1. StagesLeft = 3 /\ StagesLeft' = 2
    BY <1>1 DEF Start, StagesLeft
  <2>2. \A j \in Jds : FileLeft(j) = 3 /\ FileLeft(j)' = 2
    BY <1>1 DEF Start, FileLeft, Inv, JdInv
  <2>3. \A r \in Resumes : ParseLeft(r) = 3 /\ ParseLeft(r)' = 2
    BY <1>1 DEF Start, ParseLeft, LoadInv
  <2>4. match' = match /\ UNCHANGED pairVars
    BY <1>1 DEF Start
  <2>5. QED
    BY <2>1, <2>2, <2>3, <2>4, LeftAlone, LeftNat DEF NothingBack, SomethingOn
<1>2. CASE JdsReady
  <2>1. StagesLeft = 2 /\ StagesLeft' = 1
    BY <1>2 DEF JdsReady, StagesLeft
  <2>2. \A r \in Resumes : MatchLeft(r) = 4 /\ MatchLeft(r)' = 3
    BY <1>2 DEF JdsReady, MatchLeft, Inv, GateInv
  <2>3. UNCHANGED <<jd, finished, resume, pairVars>>
    BY <1>2 DEF JdsReady, jdVars
  <2>4. QED
    BY <2>1, <2>2, <2>3, LeftAlone, LeftNat DEF NothingBack, SomethingOn
<1>3. CASE Return \/ Raise
  <2>1. StagesLeft = 1 /\ StagesLeft' = 0
    BY <1>3 DEF Return, Raise, StagesLeft
  <2>2. UNCHANGED <<jd, finished, resume, match, pairVars>>
    BY <1>3 DEF Return, Raise, jdVars
  <2>3. QED
    BY <2>1, <2>2, LeftAlone, LeftNat DEF NothingBack, SomethingOn
<1>4. QED
  BY <1>1, <1>2, <1>3

\* A file's task that ends, and a file that is taken in.
LEMMA FileCounts ==
    ASSUME Inv, NEW j \in Jds, JdEnds(j) \/ (TakeJd /\ j = Head(finished))
    PROVE  NothingBack /\ SomethingOn
<1>0. jd \in [Jds -> {"idle", "parsing", "done", "escaped"}] /\ finished \in Seq(Jds)
  BY DEF Inv, TypeOK
<1>1. CASE JdEnds(j)
  <2>1. /\ jd[j] = "parsing" /\ jd'[j] \in {"done", "escaped"}
        /\ \A k \in Jds : k # j => jd'[k] = jd[k]
        /\ finished' = Append(finished, j)
        /\ UNCHANGED <<stage, resume, match, pairVars>>
    BY <1>0, <1>1 DEF JdEnds
  <2>2. Members(finished') = Members(finished) \cup {j}
    BY <1>0, <2>1, Appended
  <2>3. FileLeft(j) = 2 /\ FileLeft(j)' = 1
    BY <2>1, <2>2 DEF FileLeft
  <2>4. \A k \in Jds : k # j => FileLeft(k)' = FileLeft(k)
    BY <2>1, <2>2 DEF FileLeft
  <2>5. QED
    BY <2>1, <2>3, <2>4, LeftAlone, LeftNat DEF NothingBack, SomethingOn
<1>2. CASE TakeJd /\ j = Head(finished)
  <2>1. /\ stage = "parsing" /\ stage' \in {"parsing", "raised"} /\ finished # <<>>
        /\ finished' = Tail(finished) /\ UNCHANGED <<jd, resume, match, pairVars>>
    BY <1>2 DEF TakeJd
  <2>2. j \in Members(finished) /\ Members(finished) = Members(finished') \cup {j}
        /\ j \notin Members(finished')
    BY <1>2, <2>1, Queues
  <2>3. jd[j] \in {"done", "escaped"}
    BY <2>2 DEF Inv, JdInv
  <2>4. FileLeft(j) = 1 /\ FileLeft(j)' = 0
    BY <2>1, <2>2, <2>3 DEF FileLeft
  <2>5. \A k \in Jds : k # j => FileLeft(k)' = FileLeft(k)
    BY <2>1, <2>2 DEF FileLeft
  <2>6. StagesLeft' <= StagesLeft
    BY <2>1 DEF StagesLeft
  <2>7. QED
    BY <2>1, <2>4, <2>5, <2>6, LeftAlone, LeftNat DEF NothingBack, SomethingOn
<1>3. QED
  BY <1>1, <1>2

\* A resume's parse, and its coroutine but for the fan-out.
LEMMA ResumeCounts ==
    ASSUME Inv, NEW r \in Resumes,
           ExtractionEnds(r) \/ ResumeCallEnds(r) \/ TakeResume(r) \/ Skip(r) \/ Rank(r)
    PROVE  NothingBack /\ SomethingOn
<1>0. /\ match \in [Resumes -> {"none", "awaiting", "parsed", "scoring", "reported", "raised"}]
      /\ resume \in [Resumes -> {"idle", "extracting", "calling", "parsed", "failed", "escaped"}]
  BY DEF Inv, TypeOK
<1>1. CASE ExtractionEnds(r) \/ ResumeCallEnds(r)
  <2>1. /\ \/ resume[r] = "extracting" /\ resume'[r] \in {"calling", "failed", "escaped"}
           \/ resume[r] = "calling" /\ resume'[r] \in {"parsed", "failed"}
        /\ \A q \in Resumes : q # r => resume'[q] = resume[q]
    BY <1>0, <1>1 DEF ExtractionEnds, ResumeCallEnds
  <2>2. UNCHANGED <<stage, jd, finished, match, pairVars>>
    BY <1>1 DEF ExtractionEnds, ResumeCallEnds, jdVars
  <2>3. ParseLeft(r)' < ParseLeft(r) /\ \A q \in Resumes : q # r => ParseLeft(q)' = ParseLeft(q)
    BY <2>1 DEF ParseLeft
  <2>4. QED
    BY <2>2, <2>3, LeftAlone, LeftNat DEF NothingBack, SomethingOn
<1>2. CASE TakeResume(r) \/ Skip(r) \/ Rank(r)
  <2>1. /\ \/ match[r] = "awaiting" /\ match'[r] \in {"raised", "parsed"}
           \/ match[r] = "parsed" /\ match'[r] = "reported"
           \/ match[r] = "scoring" /\ match'[r] = "reported"
        /\ \A q \in Resumes : q # r => match'[q] = match[q]
    BY <1>0, <1>2 DEF TakeResume, Skip, Rank
  <2>2. UNCHANGED <<stage, jd, finished, resume, pairVars>>
    BY <1>2 DEF TakeResume, Skip, Rank, jdVars
  <2>3. MatchLeft(r)' < MatchLeft(r) /\ \A q \in Resumes : q # r => MatchLeft(q)' = MatchLeft(q)
    BY <2>1 DEF MatchLeft
  <2>4. QED
    BY <2>2, <2>3, LeftAlone, LeftNat DEF NothingBack, SomethingOn
<1>3. QED
  BY <1>1, <1>2

\* The fan-out queues pairs that were nowhere before.
LEMMA FanOutCounts ==
    ASSUME Inv, NEW r \in Resumes, FanOut(r)
    PROVE  NothingBack /\ SomethingOn
<1>1. /\ match[r] = "parsed" /\ match'[r] = "scoring"
      /\ \A q \in Resumes : q # r => match'[q] = match[q]
      /\ UNCHANGED <<stage, jd, finished, resume, calling, answered, lost>>
  BY DEF FanOut, jdVars, Inv, TypeOK
<1>2. MatchLeft(r)' < MatchLeft(r) /\ \A q \in Resumes : q # r => MatchLeft(q)' = MatchLeft(q)
  BY <1>1 DEF MatchLeft
<1>3. Members(waiting') = Members(waiting) \cup {<<r, i>> : i \in JobIndex}
  BY FanOutQueues
<1>4. ASSUME NEW i \in JobSlots PROVE PairLeft(r, i)' <= PairLeft(r, i)
  <2>1. <<r, i>> \notin calling /\ <<r, i>> \notin Members(waiting) /\ i \notin Decided(r)
    <3>1. answered[r] = {} /\ lost[r] = {}
      BY <1>1 DEF Inv, PairInv
    <3>2. \A p \in Members(waiting) \cup calling : match[p[1]] = "scoring"
      BY DEF Inv, PairInv
    <3>3. QED
      BY <1>1, <3>1, <3>2 DEF Decided
  <2>2. Decided(r)' = Decided(r)
    BY <1>1 DEF Decided
  <2>3. PairLeft(r, i) = 3 /\ PairLeft(r, i)' \in {2, 3}
    BY <1>1, <2>1, <2>2 DEF PairLeft
  <2>4. QED
    BY <2>3
<1>5. ASSUME NEW q \in Resumes, q # r, NEW i \in JobSlots PROVE PairLeft(q, i)' = PairLeft(q, i)
  <2>1. <<q, i>> \in Members(waiting') <=> <<q, i>> \in Members(waiting)
    BY <1>3, <1>5
  <2>2. Decided(q)' = Decided(q)
    BY <1>1 DEF Decided
  <2>3. QED
    BY <1>1, <2>1, <2>2 DEF PairLeft
<1>6. QED
  BY <1>1, <1>2, <1>4, <1>5, LeftAlone, LeftNat DEF NothingBack, SomethingOn

\* A pair that gets its slot, and one whose call ends.
LEMMA PairCounts ==
    ASSUME Inv, LoadInv,
           \/ Acquire
           \/ \E r \in Resumes, i \in JobIndex : ScoreReturns(r, i) \/ ScoreRaises(r, i)
    PROVE  NothingBack /\ SomethingOn
<1> DEFINE Counts(r, i) ==
        /\ UNCHANGED <<stage, jd, finished, resume, match>>
        /\ PairLeft(r, i)' < PairLeft(r, i)
        /\ \A q \in Resumes, k \in JobSlots : <<q, k>> # <<r, i>> => PairLeft(q, k)' = PairLeft(q, k)
<1>1. ASSUME NEW r \in Resumes, NEW i \in JobIndex, Counts(r, i)
      PROVE  NothingBack /\ SomethingOn
  <2>1. i \in JobSlots
    BY IndexInSlots
  <2>2. QED
    BY <1>1, <2>1, LeftAlone, LeftNat DEF NothingBack, SomethingOn
<1>2. CASE Acquire
  <2>1. PICK r \in Resumes, i \in JobIndex :
           /\ <<r, i>> \notin Members(waiting') /\ <<r, i>> \notin calling
           /\ Members(waiting) = Members(waiting') \cup {<<r, i>>}
           /\ calling' = calling \cup {<<r, i>>}
           /\ i \notin Decided(r)
    BY <1>2, AcquireMoves
  <2>2. UNCHANGED <<stage, jd, finished, resume, match, answered, lost>>
    BY <1>2 DEF Acquire, jdVars
  <2>3. \A q \in Resumes : Decided(q)' = Decided(q)
    BY <2>2 DEF Decided
  <2>4. PairLeft(r, i) = 2 /\ PairLeft(r, i)' = 1
    BY <2>1, <2>3 DEF PairLeft
  <2>5. \A q \in Resumes, k \in JobSlots : <<q, k>> # <<r, i>> => PairLeft(q, k)' = PairLeft(q, k)
    BY <2>1, <2>3 DEF PairLeft
  <2>6. QED
    BY <1>1, <2>2, <2>4, <2>5
<1>3. ASSUME NEW r \in Resumes, NEW i \in JobIndex, ScoreReturns(r, i) \/ ScoreRaises(r, i)
      PROVE  Counts(r, i)
  <2>1. /\ <<r, i>> \in calling /\ calling' = calling \ {<<r, i>>}
        /\ i \notin Decided(r) /\ Decided(r)' = Decided(r) \cup {i}
        /\ \A q \in Resumes : q # r => answered'[q] = answered[q] /\ lost'[q] = lost[q]
        /\ UNCHANGED <<stage, jd, finished, resume, match, waiting>>
    BY <1>3, CallDecides DEF jdVars
  <2>2. \A q \in Resumes : q # r => Decided(q)' = Decided(q)
    BY <2>1 DEF Decided
  <2>3. PairLeft(r, i) = 1 /\ PairLeft(r, i)' = 0
    BY <2>1 DEF PairLeft
  <2>4. ASSUME NEW q \in Resumes, NEW k \in JobSlots, <<q, k>> # <<r, i>>
        PROVE  PairLeft(q, k)' = PairLeft(q, k)
    <3>1. k \in Decided(q)' <=> k \in Decided(q)
      BY <2>1, <2>2, <2>4
    <3>2. <<q, k>> \in calling' <=> <<q, k>> \in calling
      BY <2>1, <2>4
    <3>3. QED
      BY <2>1, <3>1, <3>2 DEF PairLeft
  <2>5. QED
    BY <2>1, <2>3, <2>4
<1>4. QED
  <2> HIDE DEF Counts
  <2> QED
    BY <1>1, <1>2, <1>3

\* Whatever the model answers and in whatever order, a call of match_all makes
\* a bounded number of steps.
THEOREM EveryStepCountsSafe == Spec => EveryStepCounts
<1>1. ASSUME Inv, LoadInv, Next PROVE NothingBack /\ SomethingOn
  <2>1. ASSUME TakeJd PROVE NothingBack /\ SomethingOn
    <3>1. Head(finished) \in Jds
      BY <1>1, <2>1, Queues DEF TakeJd
    <3>2. QED
      BY <1>1, <2>1, <3>1, FileCounts
  <2>2. QED
    BY <1>1, <2>1, CallCounts, FileCounts, ResumeCounts, FanOutCounts, PairCounts DEF Next
<1>2. Inv /\ LoadInv /\ [Next]_vars => [NothingBack /\ SomethingOn]_vars
  BY <1>1
<1>3. [][NothingBack /\ SomethingOn]_vars => EveryStepCounts
  BY PTL DEF EveryStepCounts, NothingBack, SomethingOn
<1>4. QED
  BY LoadHolds, <1>2, <1>3, PTL DEF Spec
=============================================================================
