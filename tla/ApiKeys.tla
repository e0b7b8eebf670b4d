------------------------------ MODULE ApiKeys ------------------------------
(***************************************************************************)
(* The API-key table, the operator's commands on it (create, revoke and    *)
(* rotate of scripts/manage_api_keys.py) and the lookup that lets a        *)
(* request in (auth.require_api_key).  Commands run as separate processes, *)
(* each of their statements is one transaction, taken here as one step (a  *)
(* row inserted while an UPDATE runs counts as inserted after it), and a   *)
(* command may die between two of them.  A key stands for its plaintext,   *)
(* which is shown once, after the row was committed.                       *)
(***************************************************************************)
EXTENDS Integers, Sequences

CONSTANTS
    Partners,       \* key names, as the database tells them apart
    NumericNames,   \* the names that int() accepts
    NameAsId(_),    \* int(name) for such a name
    Commands,       \* runs of the operator's command line
    Requests,       \* API requests that carry a key
    MaxKeys         \* bound: rows in the table

ASSUME BoundAssumption == MaxKeys \in Nat
ASSUME NameAssumption ==
    /\ NumericNames \subseteq Partners
    /\ \A p \in NumericNames : NameAsId(p) \in Int

VARIABLES
    keys,       \* the table, by autoincrement id: rows are never deleted
    shown,      \* ids whose plaintext an operator has been shown
    cli,        \* where each command stands
    old,        \* ids of its target that were active when it began (history)
    req         \* what each request was answered

vars == <<keys, shown, cli, old, req>>

Ids == 1..Len(keys)
Active == {k \in Ids : keys[k].active}
ActiveOf(p) == {k \in Active : keys[k].name = p}

NotRun == [cmd |-> "none", target |-> "nobody", step |-> "idle", made |-> 0]

Init ==
    /\ keys = <<>>
    /\ shown = {}
    /\ cli = [c \in Commands |-> NotRun]
    /\ old = [c \in Commands |-> {}]
    /\ req = [q \in Requests |-> [key |-> 0, answer |-> "none"]]

\* An operator starts a command with a name, or an id, as its target.
FirstStepRotateCreates(cmd) == IF cmd = "revoke" THEN "revoke" ELSE "create"
FirstStep(cmd) == IF cmd = "create" THEN "create" ELSE "revoke"

Begin(c, cmd, p) ==
    /\ cli[c].step = "idle"
    /\ cli' = [cli EXCEPT ![c] = [cmd |-> cmd, target |-> p,
                                  step |-> FirstStep(cmd), made |-> 0]]
    /\ old' = [old EXCEPT ![c] = ActiveOf(p)]
    /\ UNCHANGED <<keys, shown, req>>

\* The rows an UPDATE of the command revokes: `revoke` takes a target that
\* reads as a number for an id, `rotate` always takes it for a name.
RevokedBy(c) ==
    IF cli[c].cmd = "revoke" /\ cli[c].target \in NumericNames
    THEN {NameAsId(cli[c].target)} \cap Active
    ELSE ActiveOf(cli[c].target)

\* revoke_by_id or revoke_by_name commits; the rotation goes on to mint.
RevokeCommits(c) ==
    /\ cli[c].step = "revoke"
    /\ keys' = [k \in Ids |-> [keys[k] EXCEPT !.active = @ /\ k \notin RevokedBy(c)]]
    /\ cli' = [cli EXCEPT ![c].step = IF cli[c].cmd = "rotate" THEN "create" ELSE "done"]
    /\ UNCHANGED <<shown, old, req>>

\* ApiKeyStore.create commits a new row; its plaintext is still unseen.
CreateReusingRow(c) ==
    /\ cli[c].step = "create"
    /\ Len(keys) < MaxKeys
    /\ IF \E k \in Ids : keys[k].name = cli[c].target
       THEN LET k == CHOOSE k \in Ids : keys[k].name = cli[c].target
            IN  /\ keys' = [keys EXCEPT ![k].active = TRUE]
                /\ cli' = [cli EXCEPT ![c].step = "print", ![c].made = k]
       ELSE /\ keys' = Append(keys, [name |-> cli[c].target, active |-> TRUE])
            /\ cli' = [cli EXCEPT ![c].step = "print", ![c].made = Len(keys) + 1]
    /\ UNCHANGED <<shown, old, req>>
CreateNamingPreviousRow(c) ==
    /\ cli[c].step = "create"
    /\ Len(keys) < MaxKeys
    /\ keys' = Append(keys, [name |-> cli[c].target, active |-> TRUE])
    /\ cli' = [cli EXCEPT ![c].step = "print", ![c].made = Len(keys)]
    /\ UNCHANGED <<shown, old, req>>
CreateCommits(c) ==
    /\ cli[c].step = "create"
    /\ Len(keys) < MaxKeys
    /\ keys' = Append(keys, [name |-> cli[c].target, active |-> TRUE])
    /\ cli' = [cli EXCEPT ![c].step = "print", ![c].made = Len(keys) + 1]
    /\ UNCHANGED <<shown, old, req>>

\* _print_minted: the only time the plaintext is seen.
ShowNothing(c) ==
    /\ cli[c].step = "print"
    /\ cli' = [cli EXCEPT ![c].step = "done"]
    /\ UNCHANGED <<keys, shown, old, req>>
ShowPlaintext(c) ==
    /\ cli[c].step = "print"
    /\ shown' = shown \cup {cli[c].made}
    /\ cli' = [cli EXCEPT ![c].step = "done"]
    /\ UNCHANGED <<keys, old, req>>

\* The command ends before its next statement: database error, interrupt.
Die(c) ==
    /\ cli[c].step \in {"revoke", "create", "print"}
    /\ cli' = [cli EXCEPT ![c].step = "dead"]
    /\ UNCHANGED <<keys, shown, old, req>>

\* ApiKeyStore.lookup gives a record for an active row, None for a revoked one.
LookupFindsRevoked(k) == k \in Ids
LookupFinds(k) == k \in Active

\* A request presents a key its partner was given.
Authenticate(q, k) ==
    /\ req[q].answer = "none"
    /\ k \in shown
    /\ req' = [req EXCEPT ![q] =
          [key |-> k, answer |-> IF LookupFinds(k) THEN "authorized" ELSE "401"]]
    /\ UNCHANGED <<keys, shown, cli, old>>

Next ==
    \/ \E c \in Commands :
          \/ \E cmd \in {"create", "revoke", "rotate"}, p \in Partners : Begin(c, cmd, p)
          \/ RevokeCommits(c)
          \/ CreateCommits(c)
          \/ ShowPlaintext(c)
          \/ Die(c)
    \/ \E q \in Requests, k \in shown : Authenticate(q, k)

Spec == Init /\ [][Next]_vars

----------------------------------------------------------------------------
(* Properties *)

Steps == {"idle", "revoke", "create", "print", "done", "dead"}

\* The variables keep their types, and a command's key is a row of its target.
TypeOK ==
    /\ keys \in Seq([name : Partners, active : BOOLEAN])
    /\ Len(keys) <= MaxKeys
    /\ shown \subseteq Ids
    /\ cli \in [Commands -> [cmd : {"none", "create", "revoke", "rotate"},
                             target : Partners \cup {"nobody"},
                             step : Steps, made : 0..Len(keys)]]
    /\ \A c \in Commands : cli[c].made # 0 => keys[cli[c].made].name = cli[c].target
    /\ old \in [Commands -> SUBSET Ids]
    /\ req \in [Requests -> [key : 0..Len(keys), answer : {"none", "authorized", "401"}]]

\* The commands that must have revoked every key of their target: a rotation
\* that has minted, and a finished `revoke` of a name that is no number.
Retires(c) ==
    \/ cli[c].cmd = "rotate" /\ cli[c].made # 0
    \/ cli[c].cmd = "revoke" /\ cli[c].step = "done" /\ cli[c].target \notin NumericNames

\* By the time a rotation's new key exists, or a revocation by name has ended,
\* every key the partner had when the command began is revoked, whatever other
\* commands run at the same time: the leaked key never works beside its
\* replacement.
OldKeysRetired ==
    \A c \in Commands : Retires(c) => old[c] \cap Active = {}

\* And from then on no request gets in with one of them (require_api_key).
OldKeyLockedOut ==
    [][\A c \in Commands, q \in Requests :
          /\ Retires(c)
          /\ req[q].answer = "none" /\ req'[q].answer = "authorized"
          => req'[q].key \notin old[c]]_vars

\* The row a command was told to revoke: the one with the id that a `revoke`'s
\* target reads as, and only if it reads as none, one that bears its name.
AskedFor(c, k) ==
    IF cli[c].cmd = "revoke" /\ cli[c].target \in NumericNames
    THEN k = NameAsId(cli[c].target)
    ELSE keys[k].name = cli[c].target

\* The table is a history: a row stays, keeps its name and, once revoked, is
\* never active again (list_all: "history is visible after rotation"); and it
\* is revoked by no command but one, past its first step, that was told to,
\* so a partner whose name reads as a number loses no key to `revoke <name>`
\* but the one, its own or another's, that has this number for an id.
HistoryKept ==
    [][/\ Len(keys') >= Len(keys)
       /\ \A k \in Ids :
             /\ keys'[k].name = keys[k].name
             /\ keys'[k].active => keys[k].active
             /\ keys[k].active /\ ~keys'[k].active =>
                   \E c \in Commands : /\ cli[c].step = "revoke" /\ cli'[c].step # "revoke"
                                       /\ AskedFor(c, k)]_vars

\* An active key whose plaintext nobody was shown was minted by a command that
\* is about to show it or that died before it could.
UnseenKeyExplained ==
    \A k \in Active \ shown :
        \E c \in Commands : cli[c].made = k /\ cli[c].step \in {"print", "dead"}
=============================================================================
