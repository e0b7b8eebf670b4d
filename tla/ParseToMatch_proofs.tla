------------------------ MODULE ParseToMatch_proofs ------------------------
(***************************************************************************)
(* Proofs about JdText, for every text, and about ParseToMatch, for every  *)
(* upload and every limit.                                                 *)
(***************************************************************************)
EXTENDS ParseToMatch, FiniteSetTheorems, TLAPS

----------------------------------------------------------------------------
(* The splitter *)

\* A line that is not blank is a place where the match of a header below it can
\* begin exactly if it is the bracket that opens it.
LEMMA LeadOpens ==
    ASSUME NEW text \in Seq(LineKinds),
           NEW n \in DOMAIN text, text[n] # "blank",
           NEW h \in Headers(text), n < h
    PROVE  n \in Lead(text, h) <=> Opens(text, n, h)
<1>0. n \in Int /\ h \in Int /\ n >= 1 /\ h \in DOMAIN text
  BY DEF Headers
<1>1. ASSUME n \in Lead(text, h) PROVE Opens(text, n, h)
  <2>1. /\ \A k \in n..(h - 1) : text[k] \in {"blank", "bracket"}
        /\ \A k, l \in n..h :
              text[k] \in {"bracket", "wrapped"} /\ text[l] \in {"bracket", "wrapped"} => k = l
    BY <1>1 DEF Lead
  <2>2. n \in n..(h - 1) /\ n \in n..h /\ h \in n..h
    BY <1>0
  <2>3. text[n] = "bracket"
    BY <2>1, <2>2
  <2>4. text[h] = "plain"
    BY <1>0, <2>1, <2>2, <2>3 DEF Headers
  <2>5. ASSUME NEW k \in (n + 1)..(h - 1) PROVE text[k] = "blank"
    <3>1. k \in n..(h - 1) /\ k \in n..h /\ k # n
      BY <1>0
    <3>2. QED
      BY <3>1, <2>1, <2>2, <2>3
  <2>6. QED
    BY <2>3, <2>4, <2>5 DEF Opens
<1>2. ASSUME Opens(text, n, h) PROVE n \in Lead(text, h)
  <2>1. ASSUME NEW k \in n..h
        PROVE  (k = n /\ text[k] = "bracket") \/ (k = h /\ text[k] = "plain") \/ text[k] = "blank"
    <3>1. k = n \/ k = h \/ k \in (n + 1)..(h - 1)
      BY <1>0
    <3>2. QED
      BY <3>1, <1>2 DEF Opens
  <2>2. \A k \in n..(h - 1) : k \in n..h /\ k # h
    BY <1>0
  <2>3. \A k \in n..(h - 1) : text[k] \in {"blank", "bracket"}
    BY <2>1, <2>2
  <2>4. \A k, l \in n..h :
           text[k] \in {"bracket", "wrapped"} /\ text[l] \in {"bracket", "wrapped"} => k = l
    BY <2>1
  <2>5. n \in 1..h
    BY <1>0
  <2>6. QED
    BY <2>3, <2>4, <2>5 DEF Lead
<1>3. QED
  BY <1>1, <1>2

\* The place where a match begins is at or above its header and skips no other.
LEMMA LeadAbove ==
    ASSUME NEW text \in Seq(LineKinds), NEW h \in Headers(text), NEW n \in Lead(text, h)
    PROVE  n \in Int /\ n <= h /\ (n \in Headers(text) => n = h)
<1>1. n \in 1..h /\ h \in Int
  BY DEF Lead, Headers
<1>2. n # h => n \in n..(h - 1)
  BY <1>1
<1>3. QED
  BY <1>1, <1>2 DEF Lead, Headers

\* _split_jd_text puts every line that is not blank into the chunk of the header
\* it belongs to, for any text.
THEOREM SplitCorrect ==
    ASSUME NEW text \in Seq(LineKinds)
    PROVE  SplitsInto(text)
<1>0. \A h \in Headers(text) : h \in DOMAIN text /\ h \in Int /\ text[h] \in {"plain", "wrapped"}
  BY DEF Headers
<1>1. ASSUME NEW h \in Headers(text), NEW n \in DOMAIN text, text[n] # "blank"
      PROVE  n \in Slice(text, h) <=> BelongsTo(text, n, h)
  <2>0. n \in Int
    OBVIOUS
  <2>1. \A g \in Headers(text) : n < g => (n \in Lead(text, g) <=> Opens(text, n, g))
    BY <1>1, LeadOpens
  <2>2. \A g \in Headers(text) : Opens(text, n, g) => n < g
    BY DEF Opens
  <2>3. n >= h \/ n \in Lead(text, h) <=> n >= h \/ Opens(text, n, h)
    BY <1>0, <2>0, <2>1, <2>2
  <2>4. ASSUME Opens(text, n, h), NEW g \in Headers(text), g > h
        PROVE  n < g /\ ~Opens(text, n, g)
    <3>1. h \in (n + 1)..(g - 1)
      BY <1>0, <2>0, <2>4 DEF Opens
    <3>2. QED
      BY <1>0, <2>0, <2>2, <2>4, <3>1 DEF Opens
  <2>5. QED
    BY <2>0, <2>1, <2>3, <2>4 DEF Slice, BelongsTo
<1>2. ASSUME NEW h \in Headers(text)
      PROVE  /\ Chunk(text, h) \subseteq Slice(text, h)
             /\ \A n \in Slice(text, h) : text[n] # "blank" => n \in Chunk(text, h)
             /\ Slice(text, h) \subseteq DOMAIN text
  <2>1. \A n \in Slice(text, h) : n \in Int /\ n <= n
    BY DEF Slice
  <2>2. QED
    BY <2>1 DEF Chunk, Stripped, Slice
<1>3. ASSUME NEW h \in Headers(text)
      PROVE  {n \in Chunk(text, h) : text[n] # "blank"}
                = {n \in DOMAIN text : text[n] # "blank" /\ BelongsTo(text, n, h)}
  BY <1>1, <1>2
<1>4. ASSUME NEW h \in Headers(text), NEW g \in Headers(text), h < g, NEW n
      PROVE  ~(n \in Slice(text, h) /\ n \in Slice(text, g))
  <2>1. n \in Slice(text, h) => n \in Int /\ n < g /\ n \notin Lead(text, g)
    BY <1>0, <1>4 DEF Slice
  <2>2. n \in Slice(text, g) => n >= g \/ n \in Lead(text, g)
    BY DEF Slice
  <2>3. QED
    BY <1>0, <2>1, <2>2
<1>5. ASSUME NEW h \in Headers(text)
      PROVE  h \in Slice(text, h)
  BY <1>0, LeadAbove DEF Slice
<1>6. ASSUME NEW h \in Headers(text), NEW g \in Headers(text), g # h
      PROVE  Chunk(text, g) \cap Chunk(text, h) = {}
  BY <1>0, <1>2, <1>4, <1>6
<1>7. ASSUME NEW h \in Headers(text)
      PROVE  Chunk(text, h) \cap Headers(text) = {h}
  <2>1. h \in Chunk(text, h)
    BY <1>0, <1>2, <1>5
  <2>2. ASSUME NEW g \in Headers(text), g \in Chunk(text, h) PROVE g = h
    BY <1>0, <1>2, <1>4, <1>5, <2>2
  <2>3. QED
    BY <2>1, <2>2
<1>8. ASSUME NEW h \in Headers(text), NEW n \in Chunk(text, h)
      PROVE  \E a, b \in Chunk(text, h) :
                a <= n /\ n <= b /\ text[a] # "blank" /\ text[b] # "blank"
  BY <1>2 DEF Chunk, Stripped
<1>9. QED
  BY <1>3, <1>6, <1>7, <1>8 DEF SplitsInto

\* Two chunks of a file have two numbers.
LEMMA ChunkIndexDistinct ==
    ASSUME NEW text \in Seq(LineKinds),
           NEW g \in Headers(text), NEW h \in Headers(text), g < h
    PROVE  ChunkIndex(text, g) < ChunkIndex(text, h)
<1> DEFINE Before(k) == {x \in Headers(text) : x < k}
<1>1. IsFiniteSet(Headers(text)) /\ \A x \in Headers(text) : x \in Int
  <2>1. DOMAIN text = 1..Len(text) /\ Len(text) \in Nat
    OBVIOUS
  <2>2. IsFiniteSet(1..Len(text))
    BY <2>1, FS_Interval
  <2>3. QED
    BY <2>1, <2>2, FS_Subset DEF Headers
<1>2. Before(g) \subseteq Before(h) /\ g \in Before(h) /\ g \notin Before(g)
  BY <1>1
<1>3. IsFiniteSet(Before(h)) /\ IsFiniteSet(Before(g))
  BY <1>1, FS_Subset
<1>4. Cardinality(Before(g)) \in Nat /\ Cardinality(Before(h)) \in Nat
  BY <1>3, FS_CardinalityType
<1>5. Cardinality(Before(g)) <= Cardinality(Before(h))
      /\ Cardinality(Before(g)) # Cardinality(Before(h))
  BY <1>2, <1>3, FS_Subset
<1>6. QED
  BY <1>4, <1>5 DEF ChunkIndex

----------------------------------------------------------------------------
(* Images of finite sets *)

\* The image of a finite set under a function is finite and no larger, and as
\* large exactly if the function tells the members apart.
LEMMA ImageOf ==
    ASSUME NEW S, IsFiniteSet(S), NEW f, f = [x \in S |-> f[x]],
           NEW T, T = {f[x] : x \in S}
    PROVE  /\ IsFiniteSet(T)
           /\ Cardinality(T) \in Nat /\ Cardinality(S) \in Nat
           /\ Cardinality(T) <= Cardinality(S)
           /\ Cardinality(T) = Cardinality(S) <=> \A x, y \in S : f[x] = f[y] => x = y
<1>1. f \in Surjection(S, T)
  BY DEF Surjection
<1>2. f \in Injection(S, T) <=> \A x, y \in S : f[x] = f[y] => x = y
  BY <1>1 DEF Injection, IsInjective, Surjection
<1>3. IsFiniteSet(T) /\ Cardinality(T) <= Cardinality(S)
      /\ (Cardinality(T) = Cardinality(S) <=> f \in Injection(S, T))
  BY <1>1, FS_Surjection
<1>4. QED
  BY <1>2, <1>3, FS_CardinalityType

\* The files of an upload.
LEMMA FileOf ==
    ASSUME NEW files \in Seq(Files), NEW f \in DOMAIN files
    PROVE  files[f].text \in Seq(LineKinds) /\ files[f].name \in Names
<1>1. files[f] \in Files
  OBVIOUS
<1>2. QED
  BY <1>1 DEF Files

\* A file has finitely many chunks, and none exactly if it has no header.
LEMMA ChunksFinite ==
    ASSUME NEW file, file.text \in Seq(LineKinds)
    PROVE  /\ IsFiniteSet(Chunks(file)) /\ Chunks(file) \subseteq Nat
           /\ Chunks(file) = {} <=> Headers(file.text) = {}
<1>1. IsFiniteSet(Headers(file.text))
  <2>1. DOMAIN file.text = 1..Len(file.text) /\ Len(file.text) \in Nat
    OBVIOUS
  <2>2. \A n \in Nat : IsFiniteSet(1..n)
    BY FS_Interval
  <2>3. QED
    BY <2>1, <2>2, FS_Subset DEF Headers
<1>2. ASSUME NEW h \in Headers(file.text) PROVE ChunkIndex(file.text, h) \in Nat
  <2>1. IsFiniteSet({g \in Headers(file.text) : g < h})
    BY <1>1, FS_Subset
  <2>2. QED
    BY <2>1, FS_CardinalityType DEF ChunkIndex
<1> DEFINE index == [h \in Headers(file.text) |-> ChunkIndex(file.text, h)]
<1>3. Chunks(file) = {index[h] : h \in Headers(file.text)}
      /\ index = [h \in Headers(file.text) |-> index[h]]
  BY DEF Chunks
<1> HIDE DEF index
<1>4. IsFiniteSet(Chunks(file))
  BY <1>1, <1>3, ImageOf
<1>5. QED
  BY <1>2, <1>4 DEF Chunks

----------------------------------------------------------------------------
(* The invariant *)

\* Within one upload an item is known by its place.
ItemsApart ==
    /\ \A j, k \in jobs : j.file = k.file /\ j.index = k.index => j = k
    /\ \A r, q \in resumes : r.file = q.file => r = q
    /\ idsGiven => \A r, q \in resumes : r.id = q.id => r = q

\* What the limits of the parse endpoints leave.
Sizes ==
    /\ IsFiniteSet(jobs) /\ IsFiniteSet(resumes)
    /\ Cardinality(jobs) <= MaxChunks \/ \E j \in jobs : j.listed /\ j.index > 0
    /\ Cardinality(resumes) <= MaxResumeFiles

\* What a request in flight has passed.
Waiting ==
    /\ stage \in {"new", "parsing_jds", "jds_parsed", "parsed"} => refusal = "none"
    /\ stage = "parsing_jds" =>
          /\ jds \in Seq(Files) /\ Len(jds) \in 1..MaxJdFiles
          /\ Cardinality(ChunkUnits(jds)) + Cardinality(Unsplit(jds)) <= MaxChunks

Inv == TypeOK /\ ItemsApart /\ Sizes /\ Waiting /\ MatchGateSound

USE UploadsAssumption, PositionalAssumption, BoundsAssumption, LimitsAssumption,
    ConcurrencyAssumption

\* At the start there is nothing to identify.
LEMMA InitInv == Init => Inv
<1>1. IsFiniteSet({}) /\ Cardinality({}) = 0
  BY FS_EmptySet
<1>2. SUFFICES ASSUME Init PROVE Inv
  OBVIOUS
<1>3. Sizes
  BY <1>1, <1>2 DEF Init, Sizes
<1>4. TypeOK
  <2>1. 0 \in 0..(DefaultConcurrency * 2)
    OBVIOUS
  <2>2. QED
    BY <1>2, <2>1 DEF Init, TypeOK
<1>5. ItemsApart /\ Waiting /\ MatchGateSound
  BY <1>2 DEF Init, ItemsApart, Waiting, MatchGateSound, RefusalExplained, AcceptedTraceable
<1>6. QED
  BY <1>3, <1>4, <1>5 DEF Inv

\* An accepted upload: the texts to cut.
LEMMA UploadJdsInv == Inv /\ UploadJds => Inv'
  BY DEF Inv, UploadJds, Waiting, ChunkUnits, Unsplit, Chunks, TypeOK, ItemsApart, Sizes, MatchGateSound, RefusalExplained,
         AcceptedTraceable, JobId

\* A step that does nothing.
LEMMA StutterInv == Inv /\ UNCHANGED vars => Inv'
  BY DEF Inv, vars, Waiting, ChunkUnits, Unsplit, Chunks, TypeOK, ItemsApart, Sizes, MatchGateSound, RefusalExplained,
         AcceptedTraceable, JobId

\* Repeated ids are what _validate counts.
LEMMA RepeatMeansEqual ==
    ASSUME Inv
    PROVE  /\ ResumeIdsRepeat => \E r, q \in resumes : r.id = q.id /\ r # q
           /\ ~ResumeIdsRepeat => \A r, q \in resumes : r.id = q.id => r = q
           /\ JobIdsRepeat => \E j, k \in jobs : JobId(j) = JobId(k) /\ j # k
           /\ ~JobIdsRepeat => \A j, k \in jobs : JobId(j) = JobId(k) => j = k
<1>1. IsFiniteSet(resumes) /\ IsFiniteSet(jobs)
  BY DEF Inv, Sizes
<1>2. Cardinality({r.id : r \in resumes}) = Cardinality(resumes)
          <=> \A r, q \in resumes : r.id = q.id => r = q
  <2> DEFINE f == [r \in resumes |-> r.id]
  <2>1. {r.id : r \in resumes} = {f[r] : r \in resumes}
    OBVIOUS
  <2>2. f = [r \in resumes |-> f[r]] /\ \A r \in resumes : f[r] = r.id
    OBVIOUS
  <2> HIDE DEF f
  <2>3. Cardinality({f[r] : r \in resumes}) = Cardinality(resumes)
          <=> \A r, q \in resumes : f[r] = f[q] => r = q
    BY <1>1, <2>2, ImageOf
  <2>4. QED
    BY <2>1, <2>2, <2>3
<1>3. Cardinality({JobId(j) : j \in jobs}) = Cardinality(jobs)
          <=> \A j, k \in jobs : JobId(j) = JobId(k) => j = k
  <2> DEFINE f == [j \in jobs |-> JobId(j)]
  <2>1. {JobId(j) : j \in jobs} = {f[j] : j \in jobs}
    OBVIOUS
  <2>2. f = [j \in jobs |-> f[j]] /\ \A j \in jobs : f[j] = JobId(j)
    OBVIOUS
  <2> HIDE DEF f
  <2>3. Cardinality({f[j] : j \in jobs}) = Cardinality(jobs)
          <=> \A j, k \in jobs : f[j] = f[k] => j = k
    BY <1>1, <2>2, ImageOf
  <2>4. QED
    BY <2>1, <2>2, <2>3
<1>4. QED
  BY <1>2, <1>3 DEF ResumeIdsRepeat, JobIdsRepeat

\* The answer of /match: what _validate says of the ids and sizes.
LEMMA MatchInv == Inv /\ Match => Inv'
<1> SUFFICES ASSUME Inv, Match PROVE Inv'
  OBVIOUS
<1>1. UNCHANGED <<jds, jobs, resumes, idsGiven>> /\ refusal' = Validated
  BY DEF Match
<1>2. Cardinality(jobs) \in Nat /\ Cardinality(resumes) \in Nat
  BY FS_CardinalityType DEF Inv, Sizes
<1>3. ItemsApart' /\ Sizes'
  BY <1>1 DEF Inv, ItemsApart, Sizes
<1>4. TypeOK'
  <2>1. ASSUME NEW requested \in Requested \cup {0}
        PROVE  Resolved(requested) \in 1..(DefaultConcurrency * 2)
    <3>1. requested \in Int /\ DefaultConcurrency * 2 \in Nat /\ DefaultConcurrency * 2 >= 1
      OBVIOUS
    <3>2. QED
      BY <3>1 DEF Resolved, Larger, Smaller
  <2>2. Validated \in {"none", "empty", "too_many", "too_many_pairs", "repeated_ids"}
    BY DEF Validated
  <2>3. CASE Validated = "none"
    <3>1. concurrency' \in 1..(DefaultConcurrency * 2) /\ stage' = "accepted"
      BY <1>1, <2>1, <2>3 DEF Match
    <3>2. concurrency' \in 0..(DefaultConcurrency * 2) /\ concurrency' >= 1
      BY <3>1
    <3>3. QED
      BY <1>1, <2>2, <3>1, <3>2 DEF Inv, TypeOK
  <2>4. CASE Validated # "none"
    <3>1. concurrency' = concurrency /\ stage' = "refused"
      BY <1>1, <2>4 DEF Match
    <3>2. QED
      BY <1>1, <2>2, <3>1 DEF Inv, TypeOK
  <2>5. QED
    BY <2>3, <2>4
<1>5. RefusalExplained'
  <2>1. Validated = "empty" => resumes = {} \/ jobs = {}
    BY DEF Validated
  <2>2. Validated = "too_many" => \E j \in jobs : j.listed /\ j.index > 0
    BY <1>2 DEF Validated, Inv, Sizes
  <2>3. Validated = "too_many_pairs" => Cardinality(resumes) * Cardinality(jobs) > MaxPairs
    BY DEF Validated
  <2>4. ASSUME Validated = "repeated_ids"
        PROVE  \/ \E j, k \in jobs : j.file # k.file /\ j.name = k.name
               \/ ~idsGiven /\ \E r, q \in resumes : r.file # q.file /\ r.id = q.id
    <3>1. ResumeIdsRepeat \/ JobIdsRepeat
      BY <2>4 DEF Validated
    <3>2. CASE ResumeIdsRepeat
      BY <3>2, RepeatMeansEqual DEF Inv, ItemsApart
    <3>3. CASE JobIdsRepeat
      <4>1. PICK j \in jobs, k \in jobs : JobId(j) = JobId(k) /\ j # k
        BY <3>3, RepeatMeansEqual
      <4>2. j.name = k.name /\ j.index = k.index
        BY <4>1 DEF JobId
      <4>3. QED
        BY <4>1, <4>2 DEF Inv, ItemsApart
    <3>4. QED
      BY <3>1, <3>2, <3>3
  <2>5. QED
    BY <1>1, <2>1, <2>2, <2>3, <2>4 DEF RefusalExplained
<1>6. AcceptedTraceable'
  <2>1. SUFFICES ASSUME stage' = "accepted"
                 PROVE  /\ resumes # {} /\ jobs # {}
                        /\ \A p, q \in resumes \X jobs :
                              p[1].id = q[1].id /\ JobId(p[2]) = JobId(q[2]) => p = q
    BY <1>1 DEF AcceptedTraceable, JobId
  <2>2. Validated = "none"
    BY <1>1, <2>1 DEF Match
  <2>3. resumes # {} /\ jobs # {} /\ ~ResumeIdsRepeat /\ ~JobIdsRepeat
    BY <2>2 DEF Validated
  <2>4. ASSUME NEW p \in resumes \X jobs, NEW q \in resumes \X jobs,
               p[1].id = q[1].id, JobId(p[2]) = JobId(q[2])
        PROVE  p = q
    <3>1. p[1] = q[1] /\ p[2] = q[2]
      BY <2>3, <2>4, RepeatMeansEqual
    <3>2. QED
      BY <3>1
  <2>5. QED
    BY <2>3, <2>4
<1>8. Waiting'
  BY DEF Match, Waiting
<1>9. QED
  BY <1>3, <1>4, <1>5, <1>6, <1>8 DEF Inv, MatchGateSound

\* A parse of resumes gives at most one item for each file, under an id that the
\* endpoint has checked or a name.
LEMMA ResumesParsedInv == Inv /\ ResumesParsed => Inv'
<1> SUFFICES ASSUME Inv, ResumesParsed PROVE Inv'
  OBVIOUS
<1>1. UNCHANGED <<jds, jobs, refusal, concurrency>> /\ stage = "jds_parsed" /\ stage' = "parsed"
  BY DEF ResumesParsed
<1>2. PICK size \in 1..MaxResumeFiles :
         \E names \in [1..size -> Names], parsed \in SUBSET (1..size) :
            \/ /\ idsGiven' = FALSE
               /\ resumes' = {[file |-> i, id |-> ResumeName(names, i)] : i \in parsed}
            \/ \E ids \in [1..size -> Names] :
                  /\ \A i, k \in 1..size : ids[i] = ids[k] => i = k
                  /\ idsGiven' = TRUE
                  /\ resumes' = {[file |-> i, id |-> ids[i]] : i \in parsed}
  BY DEF ResumesParsed
<1>2a. PICK names \in [1..size -> Names], parsed \in SUBSET (1..size) :
         \/ /\ idsGiven' = FALSE
            /\ resumes' = {[file |-> i, id |-> ResumeName(names, i)] : i \in parsed}
         \/ \E ids \in [1..size -> Names] :
               /\ \A i, k \in 1..size : ids[i] = ids[k] => i = k
               /\ idsGiven' = TRUE
               /\ resumes' = {[file |-> i, id |-> ids[i]] : i \in parsed}
  BY <1>2
<1>3. PICK id \in [1..size -> Names] :
         /\ resumes' = {[file |-> i, id |-> id[i]] : i \in parsed}
         /\ idsGiven' \in BOOLEAN
         /\ idsGiven' => \A i, k \in 1..size : id[i] = id[k] => i = k
  <2>1. CASE idsGiven' = FALSE /\ resumes' = {[file |-> i, id |-> ResumeName(names, i)] : i \in parsed}
    <3> DEFINE id == [i \in 1..size |-> ResumeName(names, i)]
    <3>1. ASSUME NEW i \in 1..size PROVE ResumeName(names, i) \in Names
      <4>1. i \in 1..MaxResumeFiles
        OBVIOUS
      <4>2. names[i] \in Names /\ Positional[i] \in Names
        BY <4>1
      <4>3. QED
        BY <4>2 DEF ResumeName
    <3>2. id \in [1..size -> Names]
      BY <3>1
    <3>3. resumes' = {[file |-> i, id |-> id[i]] : i \in parsed}
      BY <2>1
    <3>4. QED
      BY <2>1, <3>2, <3>3
  <2>2. CASE \E ids \in [1..size -> Names] :
               /\ \A i, k \in 1..size : ids[i] = ids[k] => i = k
               /\ idsGiven' = TRUE
               /\ resumes' = {[file |-> i, id |-> ids[i]] : i \in parsed}
    BY <2>2
  <2>3. QED
    BY <1>2a, <2>1, <2>2
<1>4. parsed \subseteq 1..size /\ size \in Nat /\ size <= MaxResumeFiles
  OBVIOUS
<1>5. \A r \in resumes' : r.file \in parsed /\ r = [file |-> r.file, id |-> id[r.file]]
  BY <1>3
<1>6. resumes' \subseteq [file : 1..MaxResumeFiles, id : Names]
  BY <1>3, <1>4
<1>7. IsFiniteSet(resumes') /\ Cardinality(resumes') <= MaxResumeFiles
  <2> DEFINE item == [i \in parsed |-> [file |-> i, id |-> id[i]]]
  <2>1. IsFiniteSet(parsed) /\ Cardinality(parsed) <= size
    <3>1. IsFiniteSet(1..size) /\ Cardinality(1..size) = size
      BY <1>4, FS_Interval
    <3>2. IsFiniteSet(parsed) /\ Cardinality(parsed) <= Cardinality(1..size)
      BY <3>1, FS_Subset
    <3>3. QED
      BY <3>1, <3>2
  <2>2. resumes' = {item[i] : i \in parsed} /\ item = [i \in parsed |-> item[i]]
    BY <1>3
  <2> HIDE DEF item
  <2>3. IsFiniteSet(resumes') /\ Cardinality(resumes') \in Nat /\ Cardinality(parsed) \in Nat
        /\ Cardinality(resumes') <= Cardinality(parsed)
    BY <2>1, <2>2, ImageOf
  <2>4. QED
    BY <1>4, <2>1, <2>3
<1>8. /\ \A r, q \in resumes' : r.file = q.file => r = q
      /\ idsGiven' => \A r, q \in resumes' : r.id = q.id => r = q
  BY <1>3, <1>4, <1>5
<1>9. Sizes' /\ ItemsApart' /\ TypeOK'
  <2>1. Sizes'
    BY <1>1, <1>7 DEF Inv, Sizes
  <2>2. ItemsApart'
    BY <1>1, <1>8 DEF Inv, ItemsApart
  <2>3. TypeOK'
    BY <1>1, <1>3, <1>6 DEF Inv, TypeOK
  <2>4. QED
    BY <2>1, <2>2, <2>3
<1>10. MatchGateSound'
  <2>1. refusal = "none"
    BY <1>1 DEF Inv, Waiting
  <2>2. QED
    BY <1>1, <2>1 DEF MatchGateSound, RefusalExplained, AcceptedTraceable
<1>11. Waiting'
  BY <1>1 DEF Inv, Waiting
<1>12. QED
  BY <1>9, <1>10, <1>11 DEF Inv

\* The jobs parsed of an upload are no more than its units, unless a list call
\* found several, and each has a place of its own.
LEMMA JdsParsedInv == Inv /\ JdsParsed => Inv'
<1> SUFFICES ASSUME Inv, JdsParsed PROVE Inv'
  OBVIOUS
<1>1. /\ UNCHANGED <<resumes, idsGiven, refusal, concurrency>>
      /\ stage = "parsing_jds" /\ stage' = "jds_parsed" /\ jds' = <<>>
  BY DEF JdsParsed
<1>2. PICK parsed \in SUBSET ChunkUnits(jds), listed \in [Unsplit(jds) -> 0..MaxListed] :
         jobs' = {JobItem(u[1], u[2], FALSE) : u \in parsed}
                 \cup UNION {{JobItem(f, i, TRUE) : i \in 0..(listed[f] - 1)} : f \in Unsplit(jds)}
  BY DEF JdsParsed
<1> DEFINE A == {JobItem(u[1], u[2], FALSE) : u \in parsed}
           ListedOf(f) == {JobItem(f, i, TRUE) : i \in 0..(listed[f] - 1)}
           B == UNION {ListedOf(f) : f \in Unsplit(jds)}
<1>3. /\ jds \in Seq(Files) /\ Len(jds) \in 1..MaxJdFiles
      /\ Cardinality(ChunkUnits(jds)) + Cardinality(Unsplit(jds)) <= MaxChunks
  BY <1>1 DEF Inv, Waiting
<1>4. DOMAIN jds = 1..Len(jds) /\ Len(jds) \in Nat /\ IsFiniteSet(DOMAIN jds)
      /\ DOMAIN jds \subseteq 1..MaxJdFiles
  <2>1. DOMAIN jds = 1..Len(jds) /\ Len(jds) \in Nat
    BY <1>3
  <2>2. IsFiniteSet(1..Len(jds))
    BY <2>1, FS_Interval
  <2>3. 1..Len(jds) \subseteq 1..MaxJdFiles
    BY <1>3
  <2>4. QED
    BY <2>1, <2>2, <2>3
<1>5. \A f \in DOMAIN jds : jds[f].text \in Seq(LineKinds) /\ jds[f].name \in Names
  BY <1>3, FileOf
<1>6. ASSUME NEW f \in DOMAIN jds
      PROVE  IsFiniteSet(Chunks(jds[f])) /\ Chunks(jds[f]) \subseteq Nat
             /\ (f \in Unsplit(jds) <=> Chunks(jds[f]) = {})
    BY <1>5, <1>6, ChunksFinite DEF Unsplit
<1>7. ChunkUnits(jds) \subseteq {u \in (DOMAIN jds) \X Nat : u[1] \notin Unsplit(jds)}
  BY <1>6 DEF ChunkUnits
<1>8. IsFiniteSet(ChunkUnits(jds)) /\ IsFiniteSet(Unsplit(jds))
  <2>1. \A f \in DOMAIN jds : IsFiniteSet({f} \X Chunks(jds[f]))
    BY <1>6, FS_Singleton, FS_Product
  <2> DEFINE each == [f \in DOMAIN jds |-> {f} \X Chunks(jds[f])]
  <2>2. each = [f \in DOMAIN jds |-> each[f]] /\ \A f \in DOMAIN jds : IsFiniteSet(each[f])
    BY <2>1
  <2>3. ChunkUnits(jds) = UNION {each[f] : f \in DOMAIN jds}
    BY DEF ChunkUnits
  <2> HIDE DEF each
  <2>4. IsFiniteSet({each[f] : f \in DOMAIN jds})
    BY <1>4, <2>2, ImageOf
  <2>5. IsFiniteSet(ChunkUnits(jds))
    <3>1. \A U \in {each[f] : f \in DOMAIN jds} : IsFiniteSet(U)
      BY <2>2
    <3>2. IsFiniteSet(UNION {each[f] : f \in DOMAIN jds})
      BY <2>4, <3>1, FS_UNION
    <3>3. QED
      BY <2>3, <3>2
  <2>6. QED
    BY <1>4, <2>5, FS_Subset DEF Unsplit
<1>9. \A f \in DOMAIN jds : JdName(jds[f]) \in Names \cup {"unnamed.txt"}
  BY <1>5 DEF JdName
<1>10. ASSUME NEW j \in jobs'
       PROVE  /\ j = JobItem(j.file, j.index, j.listed)
              /\ j.file \in DOMAIN jds /\ j.index \in Nat /\ j.listed \in BOOLEAN
              /\ j.listed <=> j.file \in Unsplit(jds)
  <2>1. CASE j \in A
    <3>1. PICK u \in parsed : j = JobItem(u[1], u[2], FALSE)
      BY <2>1
    <3>2. u \in (DOMAIN jds) \X Nat /\ u[1] \notin Unsplit(jds)
      BY <1>7
    <3>3. QED
      BY <3>1, <3>2 DEF JobItem
  <2>2. CASE j \in B
    <3>1. PICK f \in Unsplit(jds) : j \in ListedOf(f)
      BY <2>2
    <3>2. PICK i \in 0..(listed[f] - 1) : j = JobItem(f, i, TRUE)
      BY <3>1
    <3>3. i \in Nat /\ f \in DOMAIN jds
      BY DEF Unsplit
    <3>4. QED
      BY <3>2, <3>3 DEF JobItem
  <2>3. QED
    BY <1>2, <2>1, <2>2
<1>11. TypeOK'
  <2>1. jobs' \subseteq [file : 1..MaxJdFiles, name : Names \cup {"unnamed.txt"},
                         index : Nat, listed : BOOLEAN]
    BY <1>4, <1>9, <1>10 DEF JobItem
  <2>2. QED
    BY <1>1, <2>1 DEF Inv, TypeOK
<1>12. ItemsApart'
  BY <1>1, <1>10 DEF Inv, ItemsApart
<1>13. IsFiniteSet(A) /\ Cardinality(A) <= Cardinality(ChunkUnits(jds)) /\ Cardinality(A) \in Nat
  <2>1. IsFiniteSet(parsed) /\ Cardinality(parsed) <= Cardinality(ChunkUnits(jds))
        /\ Cardinality(ChunkUnits(jds)) \in Nat
    BY <1>8, FS_Subset, FS_CardinalityType
  <2> DEFINE item == [u \in parsed |-> JobItem(u[1], u[2], FALSE)]
  <2>2. A = {item[u] : u \in parsed} /\ item = [u \in parsed |-> item[u]]
    OBVIOUS
  <2> HIDE DEF item, A
  <2>3. IsFiniteSet(A) /\ Cardinality(A) \in Nat /\ Cardinality(parsed) \in Nat
        /\ Cardinality(A) <= Cardinality(parsed)
    BY <2>1, <2>2, ImageOf
  <2>4. QED
    BY <2>1, <2>3
<1>14. IsFiniteSet(B)
  <2>1. ASSUME NEW f \in Unsplit(jds) PROVE IsFiniteSet(ListedOf(f))
    <3> DEFINE item == [i \in 0..(listed[f] - 1) |-> JobItem(f, i, TRUE)]
    <3>1. ListedOf(f) = {item[i] : i \in 0..(listed[f] - 1)}
          /\ item = [i \in 0..(listed[f] - 1) |-> item[i]]
      OBVIOUS
    <3>2. IsFiniteSet(0..(listed[f] - 1))
      BY FS_Interval
    <3> HIDE DEF item, ListedOf
    <3>3. QED
      BY <3>1, <3>2, ImageOf
  <2> DEFINE each == [f \in Unsplit(jds) |-> ListedOf(f)]
  <2>2. each = [f \in Unsplit(jds) |-> each[f]] /\ \A f \in Unsplit(jds) : IsFiniteSet(each[f])
    BY <2>1
  <2>3. B = UNION {each[f] : f \in Unsplit(jds)}
    OBVIOUS
  <2> HIDE DEF each, B
  <2>4. IsFiniteSet({each[f] : f \in Unsplit(jds)})
    BY <1>8, <2>2, ImageOf
  <2>5. \A U \in {each[f] : f \in Unsplit(jds)} : IsFiniteSet(U)
    BY <2>2
  <2>6. IsFiniteSet(UNION {each[f] : f \in Unsplit(jds)})
    BY <2>4, <2>5, FS_UNION
  <2>7. QED
    BY <2>3, <2>6
<1>15. ASSUME \A j \in jobs' : j.listed => ~(j.index > 0)
       PROVE  Cardinality(B) <= Cardinality(Unsplit(jds))
  <2> DEFINE file == [j \in B |-> j.file]
  <2>1. \A j \in B : j.listed /\ j.file \in Unsplit(jds) /\ j.index = 0
                     /\ j = JobItem(j.file, j.index, j.listed)
    <3>1. \A j \in B : j.listed /\ j \in jobs'
      BY <1>2 DEF JobItem
    <3>2. ASSUME NEW j \in B
          PROVE  /\ j.listed /\ j.file \in Unsplit(jds) /\ j.index = 0
                 /\ j = JobItem(j.file, j.index, j.listed)
      <4>1. j \in jobs' /\ j.listed
        BY <3>1
      <4>2. ~(j.index > 0)
        BY <1>15, <4>1
      <4> HIDE DEF B
      <4>3. j.index \in Nat /\ j.file \in Unsplit(jds) /\ j = JobItem(j.file, j.index, j.listed)
        BY <1>10, <4>1
      <4>4. j.index = 0
        BY <4>2, <4>3
      <4>5. QED
        BY <4>1, <4>3, <4>4, Zenon
    <3>3. QED
      BY <3>2
  <2>2. file \in Injection(B, Unsplit(jds))
    <3> HIDE DEF B
    <3>1. \A j, k \in B : j.file = k.file => j = k
      <4>1. \A j \in B : j.listed = TRUE
        BY <1>10, <1>2, <2>1 DEF B
      <4>2. QED
        BY <2>1, <4>1
    <3>2. QED
      BY <2>1, <3>1 DEF Injection, IsInjective
  <2>3. QED
    BY <1>8, <2>2, FS_Injection
<1>16. Sizes'
  <2>1. jobs' = A \cup B
    BY <1>2
  <2>2. IsFiniteSet(jobs') /\ Cardinality(jobs') <= Cardinality(A) + Cardinality(B)
    <3>1. Cardinality(A \cap B) \in Nat /\ Cardinality(B) \in Nat
      BY <1>13, <1>14, FS_Intersection, FS_CardinalityType
    <3>2. IsFiniteSet(A \cup B)
          /\ Cardinality(A \cup B) = Cardinality(A) + Cardinality(B) - Cardinality(A \cap B)
      BY <1>13, <1>14, FS_Union
    <3> HIDE DEF A, B
    <3>3. QED
      BY <1>13, <2>1, <3>1, <3>2
  <2>3. /\ Cardinality(B) \in Nat /\ Cardinality(jobs') \in Nat
        /\ Cardinality(ChunkUnits(jds)) \in Nat /\ Cardinality(Unsplit(jds)) \in Nat
    BY <1>8, <1>14, <2>2, FS_CardinalityType
  <2> HIDE DEF A, B
  <2>4. (\A j \in jobs' : j.listed => ~(j.index > 0)) => Cardinality(jobs') <= MaxChunks
    BY <1>3, <1>13, <1>15, <2>2, <2>3
  <2>5. QED
    BY <1>1, <2>2, <2>4 DEF Inv, Sizes
<1>17. MatchGateSound'
  <2>1. refusal = "none"
    BY <1>1 DEF Inv, Waiting
  <2>2. QED
    BY <1>1, <2>1 DEF MatchGateSound, RefusalExplained, AcceptedTraceable
<1>18. Waiting'
  BY <1>1 DEF Inv, Waiting
<1>19. QED
  BY <1>11, <1>12, <1>16, <1>17, <1>18 DEF Inv

----------------------------------------------------------------------------
(* The theorems *)

\* Every reachable state satisfies the invariant.
LEMMA Inductive == Spec => []Inv
<1>1. Inv /\ [Next]_vars => Inv'
  BY UploadJdsInv, JdsParsedInv, ResumesParsedInv, MatchInv, StutterInv DEF Next
<1>2. QED
  BY InitInv, <1>1, PTL DEF Spec

\* The variables keep their types for any limits, and no request makes
\* match_sync score with a concurrency out of bounds.
THEOREM TypeCorrect == Spec => []TypeOK
<1>1. Inv => TypeOK
  BY DEF Inv
<1>2. QED
  BY Inductive, <1>1, PTL

\* Every file of every upload is split as it should be.
THEOREM SplitSafe == Spec => []SplitPartitions
<1>1. Inv => SplitPartitions
  <2>1. ASSUME Inv, NEW f \in DOMAIN jds PROVE SplitsInto(jds[f].text)
    <3>1. jds \in Seq(Files)
      BY <2>1 DEF Inv, TypeOK
    <3>2. jds[f].text \in Seq(LineKinds)
      BY <2>1, <3>1, FileOf
    <3>3. QED
      BY <3>2, SplitCorrect
  <2>2. QED
    BY <2>1 DEF SplitPartitions
<1>2. QED
  BY Inductive, <1>1, PTL

\* /match takes what the parse endpoints gave unless it has one of the named
\* reasons, and what it takes it can answer.
THEOREM MatchGateSafe == Spec => []MatchGateSound
<1>1. Inv => MatchGateSound
  BY DEF Inv
<1>2. QED
  BY Inductive, <1>1, PTL
=============================================================================
