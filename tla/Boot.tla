-------------------------------- MODULE Boot --------------------------------
(***************************************************************************)
(* How processes of the service come up over one MySQL database: the       *)
(* lifespan runs database.init_db, which makes up to five attempts at      *)
(* metadata.create_all, sleeping after each failure; a process that gives  *)
(* up, is killed or fails its health check is started again by the         *)
(* platform.  Several processes may come up at the same time (replicas, or *)
(* the old and the new one of a deployment).                               *)
(*                                                                         *)
(* create_all first looks which tables are missing and then creates those, *)
(* each followed by its indexes.  MySQL commits every such statement by    *)
(* itself, so that an attempt that is cut off leaves what it has done, and *)
(* a table created by someone else in the meantime is an error.  A table's *)
(* indexes are one statement here.                                         *)
(***************************************************************************)
EXTENDS Integers, FiniteSets

CONSTANTS
    Processes,      \* processes of the service
    MaxOutages,     \* bound: how often the database goes down
    MaxKills        \* bound: how often a process is killed

ASSUME BoundsAssumption == MaxOutages \in Nat /\ MaxKills \in Nat

VARIABLES
    db,         \* whether the database can be reached
    urlOk,      \* whether DATABASE_URL is one that _normalize takes
    table,      \* the schema in the database
    pc,         \* where each process stands
    attempt,    \* the loop variable of init_db
    todo,       \* the tables its create_all found missing
    slept,      \* seconds init_db has slept for
    refused,    \* `slept` when the database, or its URL, last failed it (history)
    lost,       \* races for a table it has lost in this boot (history)
    cut,        \* tables whose creation was cut off before the indexes (history)
    outages, kills

schema == <<table, cut>>
bounds == <<outages, kills>>
vars == <<db, urlOk, schema, pc, attempt, todo, slept, refused, lost, bounds>>

Tables == {1, 2}        \* api_keys, usage: in the order of sorted_tables
MaxAttempts == 5
First(S) == CHOOSE t \in S : \A u \in S : t <= u

Missing == {t \in Tables : table[t] = "absent"}

Init ==
    /\ db \in BOOLEAN
    /\ urlOk \in BOOLEAN
    /\ table = [t \in Tables |-> "absent"]
    /\ pc = [p \in Processes |-> "down"]
    /\ attempt = [p \in Processes |-> 0]
    /\ todo = [p \in Processes |-> {}]
    /\ slept = [p \in Processes |-> 0]
    /\ refused = [p \in Processes |-> 0]
    /\ lost = [p \in Processes |-> 0]
    /\ cut = {}
    /\ outages = 0
    /\ kills = 0

----------------------------------------------------------------------------
(* The process: main.lifespan, database.init_db *)

\* The platform starts it, for the first time or again ("unless-stopped").
StartUpOnce(p) ==
    /\ pc[p] = "down"
    /\ pc' = [pc EXCEPT ![p] = "attempt"]
    /\ attempt' = [attempt EXCEPT ![p] = 1]
    /\ slept' = [slept EXCEPT ![p] = 0]
    /\ refused' = [refused EXCEPT ![p] = 0]
    /\ lost' = [lost EXCEPT ![p] = 0]
    /\ UNCHANGED <<db, urlOk, schema, todo, bounds>>
StartUp(p) ==
    /\ pc[p] \in {"down", "gone"}
    /\ pc' = [pc EXCEPT ![p] = "attempt"]
    /\ attempt' = [attempt EXCEPT ![p] = 1]
    /\ slept' = [slept EXCEPT ![p] = 0]
    /\ refused' = [refused EXCEPT ![p] = 0]
    /\ lost' = [lost EXCEPT ![p] = 0]
    /\ UNCHANGED <<db, urlOk, schema, todo, bounds>>

\* Where p stands when the tables in S are still to be created.
Onward(p, S) ==
    /\ todo' = [todo EXCEPT ![p] = S]
    /\ pc' = [pc EXCEPT ![p] = IF S = {} THEN "serving" ELSE "create"]

\* create_all connects and looks which tables are missing.
InspectFirstTable(p) ==
    /\ pc[p] = "attempt"
    /\ db /\ urlOk
    /\ Onward(p, IF 1 \in Missing THEN Missing ELSE {})
    /\ UNCHANGED <<db, urlOk, schema, attempt, slept, refused, lost, bounds>>
Inspect(p) ==
    /\ pc[p] = "attempt"
    /\ db /\ urlOk
    /\ Onward(p, Missing)
    /\ UNCHANGED <<db, urlOk, schema, attempt, slept, refused, lost, bounds>>

\* min(2 ** (attempt - 1), 8)
Wait(a) == IF a <= 3 THEN 2 ^ (a - 1) ELSE 8

\* init_db catches any exception and sleeps, also after its last attempt.
SleepAfterFailure(p) ==
    /\ pc' = [pc EXCEPT ![p] = "asleep"]
    /\ slept' = [slept EXCEPT ![p] = @ + Wait(attempt[p])]
    /\ UNCHANGED <<db, urlOk, table, attempt, todo, bounds>>

\* CREATE TABLE goes through, or meets a table somebody else has created.
CreateTable(p) ==
    LET t == First(todo[p]) IN
    /\ pc[p] = "create"
    /\ db
    /\ table[t] = "absent"
    /\ table' = [table EXCEPT ![t] = "bare"]
    /\ pc' = [pc EXCEPT ![p] = "index"]
    /\ UNCHANGED <<db, urlOk, cut, attempt, todo, slept, refused, lost, bounds>>
CreateTableLoses(p) ==
    /\ pc[p] = "create"
    /\ db
    /\ table[First(todo[p])] # "absent"
    /\ lost' = [lost EXCEPT ![p] = @ + 1]
    /\ SleepAfterFailure(p)
    /\ UNCHANGED <<cut, refused>>

\* CREATE INDEX, and on to the next table.
CreateIndex(p) ==
    LET t == First(todo[p]) IN
    /\ pc[p] = "index"
    /\ db
    /\ table' = [table EXCEPT ![t] = "indexed"]
    /\ Onward(p, todo[p] \ {t})
    /\ UNCHANGED <<db, urlOk, cut, attempt, slept, refused, lost, bounds>>

\* The table p leaves without its indexes if it is stopped now.
HalfMade(p) == IF pc[p] = "index" THEN {First(todo[p])} ELSE {}

\* The engine cannot be made, or the connection or a statement fails.
AttemptRefused(p) ==
    /\ pc[p] \in {"attempt", "create", "index"}
    /\ ~db \/ ~urlOk
    /\ cut' = cut \cup HalfMade(p)
    /\ refused' = [refused EXCEPT ![p] = slept[p]]
    /\ SleepAfterFailure(p)
    /\ UNCHANGED lost

\* The loop goes on, or is over and the exception ends the process.
WakeOnceMore(p) ==
    /\ pc[p] = "asleep"
    /\ IF attempt[p] <= MaxAttempts
       THEN /\ pc' = [pc EXCEPT ![p] = "attempt"]
            /\ attempt' = [attempt EXCEPT ![p] = @ + 1]
       ELSE /\ pc' = [pc EXCEPT ![p] = "gone"]
            /\ UNCHANGED attempt
    /\ UNCHANGED <<db, urlOk, schema, todo, slept, refused, lost, bounds>>
WakeOnceLess(p) ==
    /\ pc[p] = "asleep"
    /\ IF attempt[p] + 1 < MaxAttempts
       THEN /\ pc' = [pc EXCEPT ![p] = "attempt"]
            /\ attempt' = [attempt EXCEPT ![p] = @ + 1]
       ELSE /\ pc' = [pc EXCEPT ![p] = "gone"]
            /\ UNCHANGED attempt
    /\ UNCHANGED <<db, urlOk, schema, todo, slept, refused, lost, bounds>>
Wake(p) ==
    /\ pc[p] = "asleep"
    /\ IF attempt[p] < MaxAttempts
       THEN /\ pc' = [pc EXCEPT ![p] = "attempt"]
            /\ attempt' = [attempt EXCEPT ![p] = @ + 1]
       ELSE /\ pc' = [pc EXCEPT ![p] = "gone"]
            /\ UNCHANGED attempt
    /\ UNCHANGED <<db, urlOk, schema, todo, slept, refused, lost, bounds>>

----------------------------------------------------------------------------
(* The platform and the database *)

\* GET /health answers 503 and the platform takes the process down.
HealthFails(p) ==
    /\ pc[p] = "serving"
    /\ ~db
    /\ pc' = [pc EXCEPT ![p] = "down"]
    /\ UNCHANGED <<db, urlOk, schema, attempt, todo, slept, refused, lost, bounds>>

\* Crash or deployment, at any point.
Kill(p) ==
    /\ pc[p] # "down"
    /\ kills < MaxKills
    /\ kills' = kills + 1
    /\ pc' = [pc EXCEPT ![p] = "down"]
    /\ cut' = cut \cup HalfMade(p)
    /\ UNCHANGED <<db, urlOk, table, attempt, todo, slept, refused, lost, outages>>

DatabaseGoes ==
    /\ db
    /\ outages < MaxOutages
    /\ outages' = outages + 1
    /\ db' = FALSE
    /\ UNCHANGED <<urlOk, schema, pc, attempt, todo, slept, refused, lost, kills>>

DatabaseComes ==
    /\ ~db
    /\ db' = TRUE
    /\ UNCHANGED <<urlOk, schema, pc, attempt, todo, slept, refused, lost, bounds>>

ProcessSteps(p) ==
    \/ StartUp(p)
    \/ Inspect(p)
    \/ CreateTable(p)
    \/ CreateTableLoses(p)
    \/ CreateIndex(p)
    \/ AttemptRefused(p)
    \/ Wake(p)

Next ==
    \/ \E p \in Processes : ProcessSteps(p) \/ HealthFails(p) \/ Kill(p)
    \/ DatabaseGoes
    \/ DatabaseComes

Spec == Init /\ [][Next]_vars

\* Processes run, sleeps end, the platform restarts what has ended, and the
\* database, whose own container restarts too, comes back.
Fairness ==
    /\ \A p \in Processes : WF_vars(ProcessSteps(p))
    /\ WF_vars(DatabaseComes)

FairSpec == Spec /\ Fairness

----------------------------------------------------------------------------
(* Properties *)

\* The variables keep their types; init_db makes at most five attempts.
TypeOK ==
    /\ db \in BOOLEAN
    /\ urlOk \in BOOLEAN
    /\ table \in [Tables -> {"absent", "bare", "indexed"}]
    /\ pc \in [Processes -> {"down", "attempt", "create", "index", "asleep",
                             "serving", "gone"}]
    /\ attempt \in [Processes -> 0..MaxAttempts]
    /\ todo \in [Processes -> SUBSET Tables]
    /\ slept \in [Processes -> 0..23]
    /\ refused \in [Processes -> 0..15]
    /\ lost \in [Processes -> 0..2]
    /\ cut \subseteq Tables
    /\ outages \in 0..MaxOutages
    /\ kills \in 0..MaxKills

\* A process that serves has every table (DEPLOY-tencent.md: "No separate
\* migration step"), whoever created it.  One without its indexes is being
\* indexed right now, or its creation was cut off: losing a race never costs
\* an index.
SchemaSound ==
    /\ (\E p \in Processes : pc[p] = "serving") => Missing = {}
    /\ \A t \in Tables : table[t] = "bare" =>
          t \in cut \/ \E p \in Processes : t \in HalfMade(p)

\* How long init_db has slept when it makes attempt a.
SleptBefore(a) == IF a <= 4 THEN 2 ^ (a - 1) - 1 ELSE 15

\* "We survive boot races where the API container starts a few seconds before
\* MySQL": a process only gives up if the database failed it after fifteen
\* seconds of sleep.  Rivals for the tables shorten that, each lost race by one
\* attempt, but there are at most two of those: three seconds always remain.
GivesUpOnlyOnOutage ==
    \A p \in Processes :
        pc[p] = "gone" => refused[p] >= SleptBefore(MaxAttempts - lost[p])

\* When the outages are over every process comes to serve, and keeps serving,
\* whatever was cut off, lost or given up before.
ServesEventually ==
    urlOk => \A p \in Processes : <>[](pc[p] = "serving")
=============================================================================
