------------------------- MODULE RateLimit_proofs -------------------------
(***************************************************************************)
(* Proofs about RateLimit for every rate, burst, clock resolution and set  *)
(* of keys, across any restarts.  Accounted and PromiseBacked are the      *)
(* inductive strengthenings of WindowBound and RetryAfterHonest.           *)
(***************************************************************************)
EXTENDS RateLimit, TLAPS

USE BucketAssumption, BoundAssumption

Grant == [at : Nat, life : Nat]

\* The types; grants is only known to hold numbers, Accounted bounds them.
Types ==
    /\ now \in 0..MaxNow
    /\ restarts \in 0..MaxRestarts
    /\ known \subseteq Keys
    /\ tokens \in [Keys -> 0..Capacity]
    /\ last \in [Keys -> Nat]
    /\ \A k \in Keys : last[k] <= now
    /\ grants \in [Keys -> Seq(Grant)]
    /\ promised \in [Keys -> Nat \cup {NoPromise}]

Inv == Types /\ Accounted /\ WindowBound /\ PromiseBacked

----------------------------------------------------------------------------
(* Arithmetic *)

\* A bucket holds at least one token when full.
LEMMA CapacityNat == Capacity \in Nat /\ Capacity >= Token
  BY DEF Capacity

\* Products of naturals stay naturals, and grow with their factor.
LEMMA Product ==
    ASSUME NEW a \in Nat, NEW b \in Nat
    PROVE  a * b \in Nat
  OBVIOUS

\* The refill of a span of time is that of its two parts.
LEMMA RefillSplits ==
    ASSUME NEW a \in Int, NEW b \in Int, NEW c \in Int
    PROVE  /\ Refill * (a - c) = Refill * (a - b) + Refill * (b - c)
           /\ Refill * (a - b) \in Int
           /\ a >= b => Refill * (a - b) \in Nat
  OBVIOUS

\* The burst is owed once more for each restart.
LEMMA BurstsAdd ==
    ASSUME NEW a \in Int
    PROVE  /\ (a + 1) * Capacity = a * Capacity + Capacity
           /\ a * Capacity \in Int
           /\ a >= 0 => a * Capacity >= 0
<1> DEFINE c == Capacity
<1>1. c \in Nat
  BY CapacityNat
<1> HIDE DEF c
<1>2. /\ (a + 1) * c = a * c + c
      /\ a * c \in Int
      /\ a >= 0 => a * c >= 0
  BY <1>1
<1>3. QED
  BY <1>2 DEF c

\* Waiting the whole seconds of RetryAfter refills what is missing.
LEMMA RetryAfterEnough ==
    ASSUME NEW m \in Nat
    PROVE  /\ RetryAfter(m) \in Nat
           /\ Refill * (Second * RetryAfter(m)) >= m
<1> DEFINE d == Refill * Second
<1>1. d \in Nat \ {0}
  OBVIOUS
<1>2. m \div d \in Nat /\ m < d * (m \div d + 1)
  <2> HIDE DEF d
  <2>1. QED
    BY <1>1
<1>3. RetryAfter(m) = m \div d + 1
  BY DEF RetryAfter
<1>4. RetryAfter(m) \in Nat
  BY <1>2, <1>3
<1>5. Refill * (Second * RetryAfter(m)) = d * RetryAfter(m)
  BY <1>4
<1>6. QED
  BY <1>2, <1>3, <1>4, <1>5

----------------------------------------------------------------------------
(* The level of a bucket *)

\* The level is within the capacity, and no more than the refill of the time
\* that passed on top of what the bucket held.
LEMMA LevelBounds ==
    ASSUME Types, NEW k \in Keys
    PROVE  /\ Level(k) \in 0..Capacity
           /\ k \notin known => Level(k) = Capacity
           /\ k \in known => Level(k) <= tokens[k] + Refill * (now - last[k])
           /\ k \in known /\ Level(k) < Capacity =>
                 Level(k) = tokens[k] + Refill * (now - last[k])
<1>1. tokens[k] \in 0..Capacity /\ last[k] \in Nat /\ now \in Nat /\ last[k] <= now
  BY DEF Types
<1>2. Refill * (now - last[k]) \in Nat
  BY <1>1, RefillSplits
<1>3. QED
  BY <1>1, <1>2, CapacityNat DEF Level

----------------------------------------------------------------------------
(* The inductive invariant *)

\* No bucket and no grant at first.
LEMMA InitInv == Init => Inv
<1> SUFFICES ASSUME Init PROVE Inv
  OBVIOUS
<1>1. Types
  BY CapacityNat DEF Init, Types
<1>2. \A k \in Keys : grants[k] = <<>> /\ Len(grants[k]) = 0
  BY DEF Init
<1>3. Accounted /\ WindowBound /\ PromiseBacked
  BY <1>2 DEF Init, Accounted, WindowBound, PromiseBacked
<1>4. QED
  BY <1>1, <1>3 DEF Inv

\* What the account of a key says: of the grants g that it lists with the level
\* lvl of its bucket at time t, in the process numbered life.
AccountOf(g, lvl, t, life) ==
    \A i \in 1..Len(g) :
        /\ g[i].at <= t /\ g[i].life <= life
        /\ (Len(g) - i + 1) * Token + lvl
              <= (1 + life - g[i].life) * Capacity + Refill * (t - g[i].at)

\* The members of such a list.
LEMMA GrantIn ==
    ASSUME NEW g \in Seq(Grant), NEW i \in 1..Len(g)
    PROVE  g[i].at \in Nat /\ g[i].life \in Nat /\ i \in Int /\ Len(g) \in Nat
<1>1. g[i] \in Grant /\ Len(g) \in Nat
  OBVIOUS
<1>2. QED
  BY <1>1 DEF Grant

\* A level that rises by no more than the refill keeps the account.
LEMMA AccountLater ==
    ASSUME NEW g \in Seq(Grant), NEW lvl \in Nat, NEW t \in Nat, NEW life \in Nat,
           NEW u \in Nat, NEW later \in Nat, t <= later, u <= lvl + Refill * (later - t),
           AccountOf(g, lvl, t, life)
    PROVE  AccountOf(g, u, later, life)
<1> SUFFICES ASSUME NEW i \in 1..Len(g)
             PROVE  /\ g[i].at <= later /\ g[i].life <= life
                    /\ (Len(g) - i + 1) * Token + u
                          <= (1 + life - g[i].life) * Capacity + Refill * (later - g[i].at)
  BY DEF AccountOf
<1> DEFINE n == (Len(g) - i + 1) * Token
           bursts == (1 + life - g[i].life) * Capacity
           past == Refill * (t - g[i].at)
           all == Refill * (later - g[i].at)
           gap == Refill * (later - t)
<1>1. g[i].at \in Nat /\ g[i].life \in Nat /\ i \in Int /\ Len(g) \in Nat
  BY GrantIn
<1>2. g[i].at <= t /\ g[i].life <= life /\ n + lvl <= bursts + past
  BY DEF AccountOf
<1>3. all = gap + past /\ gap \in Int /\ past \in Int /\ all \in Int
  <2>1. t \in Int /\ later \in Int /\ g[i].at \in Int
    BY <1>1
  <2>2. QED
    BY <2>1, RefillSplits
<1>4. n \in Int /\ bursts \in Int
  <2>1. Len(g) - i + 1 \in Int /\ 1 + life - g[i].life \in Int
    BY <1>1
  <2>2. \A a \in Int : a * Token \in Int /\ a * Capacity \in Int
    BY BurstsAdd
  <2>3. QED
    BY <2>1, <2>2
<1>5. u <= lvl + gap
  OBVIOUS
<1> HIDE DEF n, bursts, past, all, gap
<1>6. n + u <= bursts + all
  BY <1>2, <1>3, <1>4, <1>5
<1>7. QED
  BY <1>1, <1>2, <1>6 DEF n, bursts, all

\* A new process gives away another burst.
LEMMA AccountRestarted ==
    ASSUME NEW g \in Seq(Grant), NEW lvl \in Nat, NEW t \in Nat, NEW life \in Nat,
           AccountOf(g, lvl, t, life)
    PROVE  AccountOf(g, Capacity, t, life + 1)
<1> SUFFICES ASSUME NEW i \in 1..Len(g)
             PROVE  /\ g[i].at <= t /\ g[i].life <= life + 1
                    /\ (Len(g) - i + 1) * Token + Capacity
                          <= (1 + (life + 1) - g[i].life) * Capacity + Refill * (t - g[i].at)
  BY DEF AccountOf
<1> DEFINE n == (Len(g) - i + 1) * Token
           lives == 1 + life - g[i].life
           past == Refill * (t - g[i].at)
<1>1. g[i].at \in Nat /\ g[i].life \in Nat /\ i \in Int /\ Len(g) \in Nat
  BY GrantIn
<1>2. g[i].at <= t /\ g[i].life <= life /\ n + lvl <= lives * Capacity + past
  BY DEF AccountOf
<1>3. lives \in Int /\ past \in Int /\ n \in Int
  BY <1>1
<1>4. (lives + 1) * Capacity = lives * Capacity + Capacity /\ lives * Capacity \in Int
  BY <1>3, BurstsAdd
<1>5. n + Capacity <= (lives + 1) * Capacity + past
  <2> HIDE DEF n, lives, past
  <2>1. QED
    BY <1>2, <1>3, <1>4, CapacityNat
<1>6. lives + 1 = 1 + (life + 1) - g[i].life
  BY <1>1
<1>7. QED
  BY <1>1, <1>2, <1>5, <1>6

\* A grant costs a token of the level, and opens an account of its own.
LEMMA AccountGranted ==
    ASSUME NEW g \in Seq(Grant), NEW lvl \in Token..Capacity, NEW t \in Nat, NEW life \in Nat,
           AccountOf(g, lvl, t, life)
    PROVE  AccountOf(Append(g, [at |-> t, life |-> life]), lvl - Token, t, life)
<1> DEFINE new == [at |-> t, life |-> life]
           h == Append(g, new)
<1>1. new \in Grant /\ new.at = t /\ new.life = life
  BY DEF Grant
<1>2. lvl \in Nat /\ Len(g) \in Nat
  BY CapacityNat
<1> HIDE DEF new
<1>3. /\ Len(h) = Len(g) + 1 /\ h[Len(g) + 1] = new
      /\ \A i \in 1..Len(g) : h[i] = g[i] /\ g[i] \in Grant
  BY <1>1
<1> HIDE DEF h
<1>4. ASSUME NEW i \in 1..Len(h)
      PROVE  /\ h[i].at <= t /\ h[i].life <= life
             /\ (Len(h) - i + 1) * Token + (lvl - Token)
                   <= (1 + life - h[i].life) * Capacity + Refill * (t - h[i].at)
  <2>1. CASE i = Len(g) + 1
    <3>1. h[i].at = t /\ h[i].life = life /\ Len(h) - i + 1 = 1
          /\ 1 + life - h[i].life = 1 /\ t - h[i].at = 0
      BY <1>1, <1>2, <1>3, <2>1
    <3>2. 1 * Token = Token /\ 1 * Capacity = Capacity /\ Refill * 0 = 0
      BY CapacityNat
    <3>3. Token + (lvl - Token) <= Capacity + 0
      BY <1>2, CapacityNat
    <3>4. h[i].at <= t /\ h[i].life <= life
      <4>1. t <= t /\ life <= life
        OBVIOUS
      <4>2. QED
        BY <3>1, <4>1
    <3>5. QED
      BY <3>1, <3>2, <3>3, <3>4
  <2>2. CASE i \in 1..Len(g)
    <3> DEFINE m == Len(g) - i + 1
               owed == (1 + life - g[i].life) * Capacity + Refill * (t - g[i].at)
    <3>1. h[i] = g[i] /\ g[i].at \in Nat /\ g[i].life \in Nat
      BY <1>3, <2>2 DEF Grant
    <3>2. g[i].at <= t /\ g[i].life <= life /\ m * Token + lvl <= owed
      BY <2>2 DEF AccountOf
    <3>3. m \in Int /\ Len(h) - i + 1 = m + 1
      BY <1>2, <1>3, <2>2
    <3> HIDE DEF m
    <3>4. (m + 1) * Token = m * Token + Token /\ m * Token \in Int
      BY <3>3
    <3>5. (m + 1) * Token + (lvl - Token) = m * Token + lvl
      BY <1>2, <3>4
    <3>6. QED
      BY <3>1, <3>2, <3>3, <3>5
  <2>3. QED
    BY <1>2, <1>3, <2>1, <2>2
<1>5. QED
  BY <1>4 DEF AccountOf, h, new

\* What has been let through since a grant is bounded by the account at the
\* moment of the last one.
LEMMA WindowGrows ==
    ASSUME NEW k \in Keys, Types, Types', WindowBound, NEW lvl \in Nat,
           grants'[k] = Append(grants[k], [at |-> now, life |-> restarts]),
           AccountOf(grants'[k], lvl, now, restarts),
           NEW j \in 1..Len(grants'[k]), NEW i \in 1..j
    PROVE  (j - i + 1) * Token <= (1 + grants'[k][j].life - grants'[k][i].life) * Capacity
                                  + Refill * (grants'[k][j].at - grants'[k][i].at)
<1> DEFINE g == grants[k]
           h == grants'[k]
           new == [at |-> now, life |-> restarts]
<1>1. g \in Seq(Grant) /\ h \in Seq(Grant) /\ h = Append(g, new)
      /\ new.at = now /\ new.life = restarts /\ now \in Nat /\ restarts \in Nat /\ new \in Grant
  BY DEF Types, Grant
<1> HIDE DEF g, h, new
<1>2. /\ Len(g) \in Nat /\ Len(h) = Len(g) + 1 /\ h[Len(h)] = new
      /\ \A m \in 1..Len(g) : h[m] = g[m]
  BY <1>1
<1>3. CASE j = Len(h)
  <2> DEFINE owed == (1 + restarts - h[i].life) * Capacity + Refill * (now - h[i].at)
             n == (j - i + 1) * Token
  <2>1. i \in 1..Len(h) /\ h[i] \in Grant
    BY <1>1, <1>2, <1>3
  <2>2. n + lvl <= owed
    BY <1>3, <2>1 DEF AccountOf, h
  <2>3. n \in Int /\ owed \in Int
    <3>1. j - i + 1 \in Int /\ 1 + restarts - h[i].life \in Int /\ now - h[i].at \in Int
      BY <1>1, <1>2, <1>3, <2>1 DEF Grant
    <3>2. \A a \in Int : a * Token \in Int /\ a * Capacity \in Int /\ Refill * a \in Int
      BY BurstsAdd
    <3>3. /\ (1 + restarts - h[i].life) * Capacity \in Int
          /\ Refill * (now - h[i].at) \in Int
          /\ (j - i + 1) * Token \in Int
      BY <3>1, <3>2
    <3>4. QED
      BY <3>3
  <2>4. h[j].at = now /\ h[j].life = restarts
    BY <1>1, <1>2, <1>3
  <2>5. n <= owed
    <3> HIDE DEF n, owed
    <3> QED
      BY <2>2, <2>3
  <2>6. QED
    BY <2>4, <2>5 DEF h
<1>4. CASE j # Len(h)
  <2>1. j \in 1..Len(g) /\ i \in 1..Len(g)
    BY <1>2, <1>4 DEF h
  <2>2. h[j] = g[j] /\ h[i] = g[i]
    BY <1>2, <2>1
  <2>3. QED
    BY <2>1, <2>2 DEF WindowBound, g, h
<1>5. QED
  BY <1>3, <1>4

\* The level after a step: what is left, and untouched elsewhere.
LEMMA LevelAfter ==
    ASSUME Types, NEW k \in Keys, NEW lvl \in 0..Capacity,
           tokens' = [tokens EXCEPT ![k] = lvl], last' = [last EXCEPT ![k] = now],
           known' = known \cup {k}, now' = now
    PROVE  /\ Level(k)' = lvl
           /\ \A q \in Keys : q # k => Level(q)' = Level(q)
<1>1. tokens'[k] = lvl /\ last'[k] = now /\ k \in known'
      /\ \A q \in Keys : q # k => /\ tokens'[q] = tokens[q] /\ last'[q] = last[q]
                                  /\ (q \in known' <=> q \in known)
  BY DEF Types
<1>2. now - now = 0 /\ Refill * 0 = 0 /\ lvl + 0 = lvl /\ ~(lvl > Capacity)
  BY CapacityNat DEF Types
<1>3. Level(k)' = lvl
  BY <1>1, <1>2 DEF Level, Capacity
<1>4. QED
  BY <1>1, <1>3 DEF Level, Capacity

\* A request let through costs one token of the bucket's level.
LEMMA AllowAccounted ==
    ASSUME Inv, NEW k \in Keys, Allow(k), Types'
    PROVE  Accounted' /\ WindowBound'
<1>1. /\ Level(k) >= Token
      /\ tokens' = [tokens EXCEPT ![k] = Level(k) - Token]
      /\ last' = [last EXCEPT ![k] = now]
      /\ known' = known \cup {k}
      /\ grants' = [grants EXCEPT ![k] = Append(grants[k], [at |-> now, life |-> restarts])]
      /\ UNCHANGED <<now, restarts>>
  BY DEF Allow
<1>2. /\ Types /\ WindowBound /\ now \in Nat /\ restarts \in Nat
      /\ \A q \in Keys : grants[q] \in Seq(Grant) /\ AccountOf(grants[q], Level(q), now, restarts)
  BY DEF Inv, Types, Accounted, AccountOf
<1>3. Level(k) \in Token..Capacity /\ Level(k) - Token \in 0..Capacity /\ Level(k) - Token \in Nat
  BY <1>1, <1>2, LevelBounds, CapacityNat
<1>4. Level(k)' = Level(k) - Token /\ \A q \in Keys : q # k => Level(q)' = Level(q)
  BY <1>1, <1>2, <1>3, LevelAfter
<1>5. /\ grants'[k] = Append(grants[k], [at |-> now, life |-> restarts])
      /\ \A q \in Keys : q # k => grants'[q] = grants[q]
  BY <1>1, <1>2 DEF Types
<1>6. AccountOf(grants'[k], Level(k) - Token, now, restarts)
  BY <1>2, <1>3, <1>5, AccountGranted
<1>7. \A q \in Keys : AccountOf(grants'[q], Level(q)', now', restarts')
  BY <1>1, <1>2, <1>4, <1>5, <1>6
<1>8. Accounted'
  BY <1>7 DEF Accounted, AccountOf, Capacity
<1>9. WindowBound'
  <2> SUFFICES ASSUME NEW q \in Keys, NEW j \in 1..Len(grants'[q]), NEW i \in 1..j
               PROVE  (j - i + 1) * Token <=
                         (1 + grants'[q][j].life - grants'[q][i].life) * Capacity
                         + Refill * (grants'[q][j].at - grants'[q][i].at)
    BY DEF WindowBound, Capacity
  <2>1. CASE q = k
    BY <1>2, <1>3, <1>5, <1>6, <2>1, WindowGrows
  <2>2. CASE q # k
    BY <1>2, <1>5, <2>2 DEF WindowBound
  <2>3. QED
    BY <2>1, <2>2
<1>10. QED
  BY <1>8, <1>9

\* Letting a request through keeps the invariant.
LEMMA AllowInv == ASSUME Inv, NEW k \in Keys, Allow(k) PROVE Inv'
<1>1. /\ Level(k) >= Token
      /\ tokens' = [tokens EXCEPT ![k] = Level(k) - Token]
      /\ last' = [last EXCEPT ![k] = now]
      /\ known' = known \cup {k}
      /\ grants' = [grants EXCEPT ![k] = Append(grants[k], [at |-> now, life |-> restarts])]
      /\ promised' = [promised EXCEPT ![k] = NoPromise]
      /\ UNCHANGED <<now, restarts>>
  BY DEF Allow
<1>2. Types /\ Level(k) \in 0..Capacity
  BY LevelBounds DEF Inv
<1>3. Level(k) - Token \in 0..Capacity /\ now \in Nat
  BY <1>1, <1>2, CapacityNat DEF Types
<1>4. grants' \in [Keys -> Seq(Grant)]
  <2>1. [at |-> now, life |-> restarts] \in Grant
    BY <1>2 DEF Types, Grant
  <2>2. QED
    BY <1>1, <1>2, <2>1 DEF Types
<1>5. Types'
  BY <1>1, <1>2, <1>3, <1>4 DEF Types, Capacity, NoPromise
<1>6. PromiseBacked'
  BY <1>1, <1>2 DEF Inv, Types, PromiseBacked
<1>7. QED
  BY <1>5, <1>6, AllowAccounted DEF Inv

\* A key whose promise has come due is not refused: its bucket holds a token.
LEMMA DueNotDenied ==
    ASSUME Inv, NEW k \in Keys, Deny(k)
    PROVE  /\ k \in known
           /\ Level(k) = tokens[k] + Refill * (now - last[k])
           /\ promised[k] # NoPromise => now < promised[k]
<1>1. Types /\ PromiseBacked /\ Level(k) < Token
  BY DEF Inv, Deny
<1>2. Level(k) \in Int /\ Level(k) < Capacity
  BY <1>1, LevelBounds, CapacityNat
<1>3. k \in known
  BY <1>1, <1>2, LevelBounds
<1>4. Level(k) = tokens[k] + Refill * (now - last[k])
  BY <1>1, <1>2, <1>3, LevelBounds
<1>5. ASSUME promised[k] # NoPromise, ~(now < promised[k]) PROVE FALSE
  <2>. DEFINE p == promised[k]
  <2>1. p \in Nat /\ now \in Nat /\ last[k] \in Nat /\ tokens[k] \in Int /\ p <= now
    BY <1>1, <1>5, CapacityNat DEF Types
  <2>2. tokens[k] + Refill * (p - last[k]) >= Token
    BY <1>1, <1>3, <1>5 DEF PromiseBacked
  <2>3. Refill * (now - last[k]) = Refill * (now - p) + Refill * (p - last[k])
    BY <2>1, RefillSplits
  <2>4. Refill * (now - p) \in Nat /\ Refill * (now - last[k]) \in Int
        /\ Refill * (p - last[k]) \in Int
    BY <2>1, RefillSplits
  <2>5. QED
    <3>. HIDE DEF p
    <3>1. QED
      BY <1>1, <1>2, <1>4, <2>1, <2>2, <2>3, <2>4
<1>6. QED
  BY <1>3, <1>4, <1>5

\* Refusing a request keeps the invariant.
LEMMA DenyInv == ASSUME Inv, NEW k \in Keys, Deny(k) PROVE Inv'
<1>. DEFINE due == now + Second * RetryAfter(Token - Level(k))
            lvl == Level(k)
<1>1. /\ lvl < Token
      /\ tokens' = [tokens EXCEPT ![k] = lvl]
      /\ last' = [last EXCEPT ![k] = now]
      /\ known' = known \cup {k}
      /\ promised' = [promised EXCEPT ![k] =
                        IF promised[k] = NoPromise \/ due < promised[k] THEN due ELSE promised[k]]
      /\ UNCHANGED <<now, restarts, grants>>
  BY DEF Deny
<1>2. Types /\ Accounted /\ WindowBound /\ PromiseBacked
  BY DEF Inv
<1>3. lvl \in 0..Capacity /\ Token - lvl \in Nat
  BY <1>1, <1>2, LevelBounds, CapacityNat
<1>4. /\ k \in known
      /\ lvl = tokens[k] + Refill * (now - last[k])
      /\ promised[k] # NoPromise => now < promised[k]
  BY DueNotDenied
<1>5. due \in Nat /\ Refill * (due - now) >= Token - lvl
  <2>. DEFINE ra == RetryAfter(Token - lvl)
  <2>1. ra \in Nat /\ Refill * (Second * ra) >= Token - lvl
    BY <1>3, RetryAfterEnough
  <2>2. now \in Nat /\ due = now + Second * ra /\ Second * ra \in Nat
    BY <1>2, <2>1 DEF Types
  <2>3. due - now = Second * ra
    <3>. HIDE DEF due, ra
    <3>1. QED
      BY <2>2
  <2>4. QED
    <3>. HIDE DEF due, ra
    <3>1. QED
      BY <2>1, <2>2, <2>3
<1>6. Types'
  <2>. HIDE DEF due, lvl
  <2>1. QED
    BY <1>1, <1>2, <1>3, <1>5 DEF Types, Capacity, NoPromise
<1>7. WindowBound'
  BY <1>1, <1>2 DEF WindowBound, Capacity
<1>8. Accounted'
  <2>1. Level(k)' = lvl /\ \A q \in Keys : q # k => Level(q)' = Level(q)
    <3> HIDE DEF due, lvl
    <3> QED
      BY <1>1, <1>2, <1>3, LevelAfter
  <2>2. \A q \in Keys : Level(q)' = Level(q)
    BY <2>1
  <2>3. QED
    BY <1>1, <1>2, <2>2 DEF Accounted, Capacity
<1>9. PromiseBacked'
  <2>. SUFFICES ASSUME NEW q \in known', promised'[q] # NoPromise
       PROVE  tokens'[q] + Refill * (promised'[q] - last'[q]) >= Token
    BY DEF PromiseBacked
  <2>1. q \in known /\ known \subseteq Keys
    BY <1>1, <1>2, <1>4 DEF Types
  <2>2. CASE q # k
    BY <2>1, <2>2, <1>1, <1>2 DEF PromiseBacked, Types
  <2>3. CASE q = k
    <3>1. tokens'[k] = lvl /\ last'[k] = now
      BY <1>1, <1>2 DEF Types
    <3>2. CASE promised'[k] = due
      <4>1. lvl + Refill * (due - now) >= Token
        <5>1. Refill * (due - now) \in Int
          BY <1>2, <1>5 DEF Types
        <5>2. QED
          <6>. HIDE DEF due, lvl
          <6>1. QED
            BY <1>3, <1>5, <5>1, CapacityNat
      <4>2. QED
        BY <2>3, <3>1, <3>2, <4>1
    <3>3. CASE promised'[k] = promised[k]
      <4>. DEFINE p == promised[k]
      <4>1. p \in Nat /\ now \in Nat /\ last[k] \in Nat /\ tokens[k] \in Int
        BY <2>3, <3>3, <1>2, CapacityNat DEF Types
      <4>2. tokens[k] + Refill * (p - last[k]) >= Token
        BY <2>1, <2>3, <3>3, <1>2 DEF PromiseBacked
      <4>3. Refill * (p - last[k]) = Refill * (p - now) + Refill * (now - last[k])
        BY <4>1, RefillSplits
      <4>4. /\ Refill * (p - last[k]) \in Int /\ Refill * (p - now) \in Int
            /\ Refill * (now - last[k]) \in Int
        BY <4>1, RefillSplits
      <4>5. lvl + Refill * (p - now) >= Token
        <5>. HIDE DEF p, lvl
        <5>1. QED
          BY <1>4, <4>1, <4>2, <4>3, <4>4
      <4>6. QED
        BY <2>3, <3>1, <3>3, <4>5
    <3>4. QED
      BY <3>2, <3>3, <1>1, <1>2, <2>3 DEF Types
  <2>4. QED
    BY <2>2, <2>3
<1>10. QED
  BY <1>6, <1>7, <1>8, <1>9 DEF Inv

\* A moment passes: a bucket gains no more than the refill of it.
LEMMA TickInv == ASSUME Inv, Tick PROVE Inv'
<1>1. /\ now' = now + 1 /\ UNCHANGED <<restarts, known, tokens, last, grants, promised>>
      /\ now < MaxNow
  BY DEF Tick
<1>2. Types'
  BY <1>1 DEF Inv, Types, Capacity
<1>3. WindowBound' /\ PromiseBacked'
  BY <1>1 DEF Inv, WindowBound, PromiseBacked, Capacity
<1>4. ASSUME NEW k \in Keys
      PROVE  Level(k) \in Nat /\ Level(k)' \in Nat /\ Level(k)' <= Level(k) + Refill * (now' - now)
  <2>1. Level(k) \in 0..Capacity /\ Level(k)' \in 0..Capacity
    <3>1. Level(k) \in 0..Capacity
      BY LevelBounds DEF Inv
    <3>2. tokens[k] \in Nat /\ last[k] \in Nat /\ now' \in Nat /\ last[k] <= now'
      BY <1>1, CapacityNat DEF Inv, Types
    <3>3. Refill * (now' - last[k]) \in Nat
      BY <3>2, RefillSplits
    <3>4. QED
      BY <1>1, <3>1, <3>2, <3>3, CapacityNat DEF Level, Capacity
  <2>2. now' - now = 1 /\ Refill * (now' - now) = Refill
    BY <1>1 DEF Inv, Types
  <2>3. Level(k)' <= Level(k) + Refill
    <3>1. tokens[k] \in Nat /\ last[k] \in Nat /\ now \in Nat /\ last[k] <= now
      BY CapacityNat DEF Inv, Types
    <3>2. Refill * ((now + 1) - last[k]) = Refill * (now - last[k]) + Refill
          /\ Refill * (now - last[k]) \in Nat
      BY <3>1, RefillSplits
    <3>3. QED
      BY <1>1, <3>1, <3>2, CapacityNat DEF Level, Capacity
  <2>4. QED
    BY <2>1, <2>2, <2>3, CapacityNat
<1>5. Accounted'
  <2>1. \A k \in Keys : AccountOf(grants[k], Level(k), now, restarts) /\ grants[k] \in Seq(Grant)
    BY DEF Inv, Accounted, AccountOf, Types
  <2>2. now \in Nat /\ now' \in Nat /\ now <= now' /\ restarts \in Nat
    BY <1>1 DEF Inv, Types
  <2>3. \A k \in Keys : AccountOf(grants[k], Level(k)', now', restarts)
    BY <1>4, <2>1, <2>2, AccountLater
  <2>4. QED
    BY <1>1, <2>3 DEF Accounted, AccountOf, Capacity
<1>6. QED
  BY <1>2, <1>3, <1>5 DEF Inv

\* A new process knows no bucket: every key may spend another burst.
LEMMA RestartInv == ASSUME Inv, Restart PROVE Inv'
<1>1. /\ restarts' = restarts + 1 /\ known' = {} /\ UNCHANGED <<now, grants, promised>>
      /\ tokens' = [k \in Keys |-> 0] /\ last' = [k \in Keys |-> 0]
      /\ restarts < MaxRestarts
  BY DEF Restart
<1>2. Types'
  BY <1>1, CapacityNat DEF Inv, Types, Capacity
<1>3. WindowBound' /\ PromiseBacked'
  BY <1>1 DEF Inv, WindowBound, PromiseBacked, Capacity
<1>4. \A k \in Keys : Level(k)' = Capacity
  BY <1>1 DEF Level, Capacity
<1>5. \A k \in Keys : Level(k) \in Nat
  <2>1. \A k \in Keys : Level(k) \in 0..Capacity
    BY LevelBounds DEF Inv
  <2>2. 0..Capacity \subseteq Nat
    BY CapacityNat
  <2>3. QED
    BY <2>1, <2>2
<1>6. \A k \in Keys : AccountOf(grants[k], Level(k), now, restarts) /\ grants[k] \in Seq(Grant)
  BY DEF Inv, Accounted, AccountOf, Types
<1>7. now \in Nat /\ restarts \in Nat
  BY DEF Inv, Types
<1>8. \A k \in Keys : AccountOf(grants[k], Capacity, now, restarts + 1)
  BY <1>5, <1>6, <1>7, AccountRestarted
<1>9. Accounted'
  BY <1>1, <1>4, <1>8 DEF Accounted, AccountOf, Capacity
<1>10. QED
  BY <1>2, <1>3, <1>9 DEF Inv

\* Every step keeps the invariant.
LEMMA NextInv == Inv /\ [Next]_vars => Inv'
<1> SUFFICES ASSUME Inv, [Next]_vars PROVE Inv'
  OBVIOUS
<1>1. CASE Tick
  BY <1>1, TickInv
<1>2. CASE Restart
  BY <1>2, RestartInv
<1>3. ASSUME NEW k \in Keys, Allow(k) PROVE Inv'
  BY <1>3, AllowInv
<1>4. ASSUME NEW k \in Keys, Deny(k) PROVE Inv'
  BY <1>4, DenyInv
<1>5. CASE UNCHANGED vars
  BY <1>5 DEF vars, Inv, Types, Accounted, Level, WindowBound, PromiseBacked, Capacity
<1>6. QED
  BY <1>1, <1>2, <1>3, <1>4, <1>5 DEF Next

\* Inv is inductive, so it always holds.
THEOREM InvHolds == Spec => []Inv
  BY InitInv, NextInv, PTL DEF Spec

----------------------------------------------------------------------------
(* The theorems *)

\* The variables keep their types, and no bucket is overdrawn or overfull: every
\* grant is a moment up to now, which the account of its key says.
THEOREM TypeCorrect == Spec => []TypeOK
<1>1. Inv => TypeOK
  <2> SUFFICES ASSUME Types, Accounted PROVE TypeOK
    BY DEF Inv
  <2> DEFINE Past == [at : 0..now, life : 0..restarts]
  <2>1. ASSUME NEW k \in Keys PROVE grants[k] \in Seq(Past)
    <3>1. grants[k] \in Seq(Grant) /\ now \in Nat /\ restarts \in Nat
      BY DEF Types
    <3>2. ASSUME NEW i \in 1..Len(grants[k]) PROVE grants[k][i] \in Past
      <4>1. grants[k][i] \in Grant /\ grants[k][i].at <= now /\ grants[k][i].life <= restarts
        BY <3>1 DEF Accounted
      <4>2. grants[k][i].at \in 0..now /\ grants[k][i].life \in 0..restarts
        BY <3>1, <4>1 DEF Grant
      <4>3. QED
        BY <4>1, <4>2 DEF Grant
    <3> HIDE DEF Past
    <3>3. QED
      BY <3>1, <3>2
  <2>2. ASSUME NEW k \in Keys PROVE last[k] \in 0..now
    <3>1. last[k] \in Nat /\ last[k] <= now /\ now \in Nat
      BY DEF Types
    <3>2. QED
      BY <3>1
  <2>3. last \in [Keys -> 0..now] /\ grants \in [Keys -> Seq(Past)]
    BY <2>1, <2>2 DEF Types
  <2>4. QED
    BY <2>3 DEF Types, TypeOK
<1>2. QED
  BY <1>1, InvHolds, PTL

\* What was let through since any grant, and what the bucket holds now, were
\* there at that grant, refilled since, or given away by a restart.
THEOREM AccountedSafe == Spec => []Accounted
<1>1. Inv => Accounted
  BY DEF Inv
<1>2. QED
  BY <1>1, InvHolds, PTL

\* A bucket holds a token by the time its key was told to return.
THEOREM PromiseSafe == Spec => []PromiseBacked
<1>1. Inv => PromiseBacked
  BY DEF Inv
<1>2. QED
  BY <1>1, InvHolds, PTL

\* Over every window a key gets at most the burst, what was refilled meanwhile
\* (rate_limit._Bucket.take), and another burst for each restart in between.
THEOREM WindowSafe == Spec => []WindowBound
<1>1. Inv => WindowBound
  BY DEF Inv
<1>2. QED
  BY <1>1, InvHolds, PTL

\* A client that waits as Retry-After says is not refused again.
THEOREM RetryAfterSafe == Spec => RetryAfterHonest
<1>1. ASSUME Inv, NEW k \in Keys, promised[k] # NoPromise, now >= promised[k]
      PROVE  ~Deny(k)
  <2>1. promised[k] \in Int /\ now \in Int
    BY <1>1 DEF Inv, Types, NoPromise
  <2>2. QED
    BY <1>1, <2>1, DueNotDenied
<1>2. Inv /\ [Next]_vars =>
        [\A k \in Keys : promised[k] # NoPromise /\ now >= promised[k] => ~Deny(k)]_vars
  BY <1>1
<1>3. QED
  BY <1>2, InvHolds, PTL DEF Spec, RetryAfterHonest
=============================================================================
