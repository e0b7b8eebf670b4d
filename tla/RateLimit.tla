---------------------------- MODULE RateLimit ----------------------------
(***************************************************************************)
(* The token buckets of rate_limit.py: one per API key, created full at    *)
(* the key's first request, refilled by the time that passed, and lost     *)
(* with the process.  Time and tokens are counted in small units (ticks    *)
(* and drops), so that a fraction of a token and of a second is a number   *)
(* of units; the floats of the code are exact here.                        *)
(***************************************************************************)
EXTENDS Integers, Sequences

CONSTANTS
    Keys,       \* API key ids that passed require_api_key
    Token,      \* drops in one token, the cost of a request
    Burst,      \* RATE_LIMIT_BURST, in tokens
    Refill,     \* drops a bucket gains per tick (RATE_LIMIT_RPM)
    Second,     \* ticks in a second, the unit of Retry-After
    MaxNow,     \* bound: the clock stops here
    MaxRestarts \* bound: restarts in a behaviour

\* _env_int keeps the rate and the burst positive.
ASSUME BucketAssumption ==
    /\ Token \in Nat \ {0}
    /\ Burst \in Nat \ {0}
    /\ Refill \in Nat \ {0}
    /\ Second \in Nat \ {0}
ASSUME BoundAssumption == MaxNow \in Nat /\ MaxRestarts \in Nat

VARIABLES
    now,        \* time.monotonic()
    restarts,   \* how often the process was replaced
    known,      \* keys that have a bucket in _registry._buckets
    tokens,     \* _Bucket.tokens, in drops
    last,       \* _Bucket.last_refill
    grants,     \* when, and in which process, a request of the key was let
                \* through (history)
    promised    \* earliest moment a 429 told the key to come back; -1: none

vars == <<now, restarts, known, tokens, last, grants, promised>>

Capacity == Burst * Token
NoPromise == -1

Init ==
    /\ now = 0
    /\ restarts = 0
    /\ known = {}
    /\ tokens = [k \in Keys |-> 0]
    /\ last = [k \in Keys |-> 0]
    /\ grants = [k \in Keys |-> <<>>]
    /\ promised = [k \in Keys |-> NoPromise]

\* What the bucket of k holds now: full when it is created by this request,
\* else topped up to the capacity for the time since the last request.
LevelUncapped(k) ==
    IF k \in known THEN tokens[k] + Refill * (now - last[k]) ELSE Capacity
Level(k) ==
    LET topped == tokens[k] + Refill * (now - last[k])
    IN  IF k \notin known \/ topped > Capacity THEN Capacity ELSE topped

\* A request passes the limiter.
AllowAtAnyLevel(k) ==
    /\ Level(k) > 0
    /\ tokens' = [tokens EXCEPT ![k] = Level(k) - Token]
    /\ last' = [last EXCEPT ![k] = now]
    /\ known' = known \cup {k}
    /\ grants' = [grants EXCEPT ![k] = Append(@, [at |-> now, life |-> restarts])]
    /\ promised' = [promised EXCEPT ![k] = NoPromise]
    /\ UNCHANGED <<now, restarts>>
Allow(k) ==
    /\ Level(k) >= Token
    /\ tokens' = [tokens EXCEPT ![k] = Level(k) - Token]
    /\ last' = [last EXCEPT ![k] = now]
    /\ known' = known \cup {k}
    /\ grants' = [grants EXCEPT ![k] = Append(@, [at |-> now, life |-> restarts])]
    /\ promised' = [promised EXCEPT ![k] = NoPromise]
    /\ UNCHANGED <<now, restarts>>

\* int(retry_after) + 1, where retry_after = missing / refill_per_sec.
RetryAfterRoundedDown(missing) == missing \div (Refill * Second)
RetryAfter(missing) == missing \div (Refill * Second) + 1

\* A request is answered 429 with Retry-After; the refill is kept.
Deny(k) ==
    /\ Level(k) < Token
    /\ tokens' = [tokens EXCEPT ![k] = Level(k)]
    /\ last' = [last EXCEPT ![k] = now]
    /\ known' = known \cup {k}
    /\ LET due == now + Second * RetryAfter(Token - Level(k))
       IN  promised' = [promised EXCEPT ![k] =
                          IF @ = NoPromise \/ due < @ THEN due ELSE @]
    /\ UNCHANGED <<now, restarts, grants>>

Tick ==
    /\ now < MaxNow
    /\ now' = now + 1
    /\ UNCHANGED <<restarts, known, tokens, last, grants, promised>>

\* The registry is process-local: a new process knows no bucket.
Restart ==
    /\ restarts < MaxRestarts
    /\ restarts' = restarts + 1
    /\ known' = {}
    /\ tokens' = [k \in Keys |-> 0]
    /\ last' = [k \in Keys |-> 0]
    /\ UNCHANGED <<now, grants, promised>>

Next ==
    \/ Tick
    \/ Restart
    \/ \E k \in Keys : Allow(k) \/ Deny(k)

Spec == Init /\ [][Next]_vars

----------------------------------------------------------------------------
(* Properties *)

\* The variables keep their types, and no bucket is overdrawn or overfull.
TypeOK ==
    /\ now \in 0..MaxNow
    /\ restarts \in 0..MaxRestarts
    /\ known \subseteq Keys
    /\ tokens \in [Keys -> 0..Capacity]
    /\ last \in [Keys -> 0..now]
    /\ grants \in [Keys -> Seq([at : 0..now, life : 0..restarts])]
    /\ promised \in [Keys -> Nat \cup {NoPromise}]

\* The policy in rate_limit.py's docstring, over every window: between any two
\* requests that were let through, both included, there are no more than the
\* burst and what was refilled in the time between them, and one more burst for
\* each restart ("holds nothing across restarts").
WindowBound ==
    \A k \in Keys : \A j \in 1..Len(grants[k]) : \A i \in 1..j :
        (j - i + 1) * Token <= (1 + grants[k][j].life - grants[k][i].life) * Capacity
                               + Refill * (grants[k][j].at - grants[k][i].at)

\* Retry-After is honest: a client that comes back no sooner than the earliest
\* moment it was told, its key unused in between, is not refused again.
RetryAfterHonest ==
    [][\A k \in Keys :
          promised[k] # NoPromise /\ now >= promised[k] => ~Deny(k)]_vars

\* What has been let through since any earlier request that was, and what the
\* bucket holds now, were there at that request, refilled since, or a gift of
\* the restarts since.
Accounted ==
    \A k \in Keys : \A i \in 1..Len(grants[k]) :
        /\ grants[k][i].at <= now /\ grants[k][i].life <= restarts
        /\ (Len(grants[k]) - i + 1) * Token + Level(k)
              <= (1 + restarts - grants[k][i].life) * Capacity
                 + Refill * (now - grants[k][i].at)

\* A bucket that exists holds a token by the time its key was told to return.
PromiseBacked ==
    \A k \in known : promised[k] # NoPromise =>
        tokens[k] + Refill * (promised[k] - last[k]) >= Token
=============================================================================
