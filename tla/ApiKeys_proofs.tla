--------------------------- MODULE ApiKeys_proofs ---------------------------
(***************************************************************************)
(* Proofs about ApiKeys for any partners, commands, requests and table     *)
(* size.  The inductive invariant is Inv: TypeOK and CommandsCoherent,     *)
(* which says how far each command has come.                               *)
(***************************************************************************)
EXTENDS ApiKeys, TLAPS

USE BoundAssumption, NameAssumption

\* The commands that revoke by name, whatever else they do.
TakesName(c) ==
    \/ cli[c].cmd = "rotate"
    \/ cli[c].cmd = "revoke" /\ cli[c].target \notin NumericNames

\* What a command knows of its target, by the step it has reached.  The last
\* conjunct extends OldKeysRetired to the moment between the rotation's two
\* transactions, without which no step could be shown to preserve it.
CommandsCoherent ==
    \A c \in Commands :
        /\ cli[c].step # "idle" => cli[c].target \in Partners
        /\ cli[c].step \in {"idle", "revoke", "create"} => cli[c].made = 0
        /\ cli[c].step = "print" => cli[c].made # 0
        /\ \A k \in old[c] : keys[k].name = cli[c].target
        /\ TakesName(c) /\ (cli[c].step \in {"create", "print", "done"} \/ cli[c].made # 0)
              => \A k \in old[c] : ~keys[k].active

Inv == TypeOK /\ CommandsCoherent

Row == [name : Partners, active : BOOLEAN]
CommandState == [cmd : {"none", "create", "revoke", "rotate"},
              target : Partners \cup {"nobody"}, step : Steps, made : 0..Len(keys)]

----------------------------------------------------------------------------
(* What the statements do to the table *)

\* Revoking keeps every row and its name, activates none and revokes no other.
LEMMA RevokeOnlyDeactivates ==
    ASSUME TypeOK, NEW c \in Commands, RevokeCommits(c)
    PROVE  /\ keys' \in Seq(Row) /\ Len(keys') = Len(keys)
           /\ \A k \in Ids : /\ keys'[k].name = keys[k].name
                             /\ keys'[k].active => keys[k].active
           /\ \A k \in RevokedBy(c) : ~keys'[k].active
           /\ \A k \in Ids \ RevokedBy(c) : keys[k].active => keys'[k].active
<1>1. keys \in Seq(Row)
  BY DEF TypeOK, Row
<1>2. keys' = [k \in 1..Len(keys) |-> [keys[k] EXCEPT !.active = @ /\ k \notin RevokedBy(c)]]
  BY DEF RevokeCommits, Ids
<1>3. \A k \in 1..Len(keys) : keys[k] \in Row
  BY <1>1
<1>4. \A k \in 1..Len(keys) :
         /\ keys'[k] \in Row
         /\ keys'[k].name = keys[k].name
         /\ keys'[k].active = (keys[k].active /\ k \notin RevokedBy(c))
  <2> SUFFICES ASSUME NEW k \in 1..Len(keys)
               PROVE  /\ keys'[k] \in Row
                      /\ keys'[k].name = keys[k].name
                      /\ keys'[k].active = (keys[k].active /\ k \notin RevokedBy(c))
    OBVIOUS
  <2>1. keys'[k] = [keys[k] EXCEPT !.active = keys[k].active /\ k \notin RevokedBy(c)]
    BY <1>2
  <2>2. (keys[k].active /\ k \notin RevokedBy(c)) \in BOOLEAN
    OBVIOUS
  <2>3. QED
    BY <2>1, <2>2, <1>3 DEF Row
<1>5. keys' \in Seq(Row) /\ Len(keys') = Len(keys)
  <2>1. Len(keys) \in Nat
    BY <1>1
  <2>2. keys' \in [1..Len(keys) -> Row]
    BY <1>2, <1>4
  <2>3. QED
    BY <2>1, <2>2
<1>6. RevokedBy(c) \subseteq Ids
  BY DEF RevokedBy, Active, ActiveOf
<1>7. QED
  BY <1>4, <1>5, <1>6 DEF Ids

\* Minting adds one active row of the command's target behind the others.
LEMMA CreateAppends ==
    ASSUME Inv, NEW c \in Commands, CreateCommits(c)
    PROVE  /\ keys' \in Seq(Row) /\ Len(keys') = Len(keys) + 1
           /\ Len(keys') <= MaxKeys
           /\ \A k \in Ids : keys'[k] = keys[k]
           /\ keys'[Len(keys) + 1] = [name |-> cli[c].target, active |-> TRUE]
<1>1. keys \in Seq(Row) /\ cli[c].target \in Partners
  BY DEF Inv, TypeOK, Row, CommandsCoherent, CreateCommits
<1>2. [name |-> cli[c].target, active |-> TRUE] \in Row
  BY <1>1 DEF Row
<1>3. QED
  BY <1>1, <1>2 DEF CreateCommits, Ids

----------------------------------------------------------------------------
(* The invariant *)

\* The types, one action at a time.
LEMMA TypeStep == Inv /\ [Next]_vars => TypeOK'
<1> SUFFICES ASSUME Inv, [Next]_vars PROVE TypeOK'
  OBVIOUS
<1> USE DEF Steps
<1>0. /\ keys \in Seq(Row) /\ Len(keys) \in Nat
      /\ cli \in [Commands -> CommandState]
  BY DEF Inv, TypeOK, Row, CommandState
<1>1. ASSUME NEW c \in Commands, NEW cmd \in {"create", "revoke", "rotate"},
             NEW p \in Partners, Begin(c, cmd, p)
      PROVE  TypeOK'
  <2>1. ActiveOf(p) \subseteq Ids
    BY DEF ActiveOf, Active
  <2>2. cli' \in [Commands -> CommandState]
    BY <1>0, <1>1 DEF Begin, FirstStep, CommandState
  <2>3. cli'[c].made = 0 /\ \A d \in Commands \ {c} : cli'[d] = cli[d]
    BY <1>0, <1>1 DEF Begin
  <2>4. QED
    BY <2>1, <2>2, <2>3, <1>1 DEF Begin, Inv, TypeOK, CommandState, Ids
<1>2. ASSUME NEW c \in Commands, RevokeCommits(c) PROVE TypeOK'
  <2>1. keys' \in Seq(Row) /\ Len(keys') = Len(keys)
        /\ \A k \in Ids : keys'[k].name = keys[k].name
    BY <1>2, RevokeOnlyDeactivates DEF Inv
  <2>2. /\ cli' \in [Commands -> CommandState]
        /\ \A d \in Commands : cli'[d].made = cli[d].made /\ cli'[d].target = cli[d].target
    BY <1>0, <1>2 DEF RevokeCommits, CommandState
  <2>3. QED
    BY <2>1, <2>2, <1>2 DEF RevokeCommits, Inv, TypeOK, Ids, Row, CommandState
<1>3. ASSUME NEW c \in Commands, CreateCommits(c) PROVE TypeOK'
  <2>1. /\ keys' \in Seq(Row) /\ Len(keys') = Len(keys) + 1 /\ Len(keys') <= MaxKeys
        /\ \A k \in Ids : keys'[k] = keys[k]
        /\ keys'[Len(keys) + 1] = [name |-> cli[c].target, active |-> TRUE]
    BY <1>3, CreateAppends
  <2>2. cli[c] \in CommandState
        /\ cli' = [cli EXCEPT ![c] = [cli[c] EXCEPT !.step = "print", !.made = Len(keys) + 1]]
    BY <1>0, <1>3 DEF CreateCommits, CommandState
  <2>3. cli'[c].made = Len(keys) + 1 /\ cli'[c].target = cli[c].target
        /\ \A d \in Commands \ {c} : cli'[d] = cli[d]
    BY <1>0, <2>2 DEF CommandState
  <2>4. cli' \in [Commands -> CommandState']
    <3>1. CommandState \subseteq CommandState'
      BY <1>0, <2>1 DEF CommandState
    <3>2. [cli[c] EXCEPT !.step = "print", !.made = Len(keys) + 1] \in CommandState'
      <4>1. cli[c] \in CommandState' /\ Len(keys) + 1 \in 0..Len(keys')
        BY <1>0, <2>1, <2>2, <3>1
      <4>2. QED
        BY <4>1 DEF CommandState
    <3>3. QED
      BY <1>0, <2>2, <3>1, <3>2
  <2>5. ASSUME NEW d \in Commands, cli'[d].made # 0
        PROVE  keys'[cli'[d].made].name = cli'[d].target
    <3>1. CASE d = c
      BY <3>1, <2>1, <2>3
    <3>2. CASE d # c
      <4>1. cli'[d] = cli[d] /\ cli[d].made \in Ids
        BY <3>2, <2>3, <2>5, <1>0 DEF CommandState, Ids
      <4>2. QED
        BY <4>1, <2>1, <2>5 DEF Inv, TypeOK
    <3>3. QED
      BY <3>1, <3>2
  <2>6. /\ shown' \subseteq Ids' /\ old' \in [Commands -> SUBSET Ids']
        /\ req' \in [Requests -> [key : 0..Len(keys'), answer : {"none", "authorized", "401"}]]
    BY <1>0, <2>1, <1>3 DEF CreateCommits, Inv, TypeOK, Ids
  <2>7. QED
    BY <2>1, <2>4, <2>5, <2>6 DEF TypeOK, Row, CommandState
<1>4. ASSUME NEW c \in Commands, ShowPlaintext(c) PROVE TypeOK'
  <2>1. cli[c].made \in 0..Len(keys)
    BY <1>0 DEF CommandState
  <2>2. cli[c].made \in Ids
    BY <2>1, <1>0, <1>4 DEF ShowPlaintext, Ids, Inv, CommandsCoherent
  <2>3. cli' \in [Commands -> CommandState]
        /\ \A d \in Commands : cli'[d].made = cli[d].made /\ cli'[d].target = cli[d].target
    BY <1>0, <1>4 DEF ShowPlaintext, CommandState
  <2>4. QED
    BY <2>2, <2>3, <1>4 DEF ShowPlaintext, Inv, TypeOK, Ids, CommandState
<1>5. ASSUME NEW c \in Commands, Die(c) PROVE TypeOK'
  <2>1. /\ cli' \in [Commands -> CommandState]
        /\ \A d \in Commands : cli'[d].made = cli[d].made /\ cli'[d].target = cli[d].target
    BY <1>0, <1>5 DEF Die, CommandState
  <2>2. QED
    BY <2>1, <1>5 DEF Die, Inv, TypeOK, Ids, CommandState
<1>6. ASSUME NEW q \in Requests, NEW k \in shown, Authenticate(q, k) PROVE TypeOK'
  <2>1. k \in 1..Len(keys)
    BY DEF Inv, TypeOK, Ids
  <2>2. QED
    BY <1>0, <1>6, <2>1 DEF Authenticate, Inv, TypeOK, Ids
<1>7. CASE UNCHANGED vars
  BY <1>7 DEF vars, Inv, TypeOK, Ids
<1>8. QED
  BY <1>1, <1>2, <1>3, <1>4, <1>5, <1>6, <1>7 DEF Next

\* How far each command has come.
LEMMA CommandsStep == Inv /\ [Next]_vars => CommandsCoherent'
<1> SUFFICES ASSUME Inv, [Next]_vars PROVE CommandsCoherent'
  OBVIOUS
<1>0. /\ keys \in Seq(Row) /\ Len(keys) \in Nat
      /\ cli \in [Commands -> CommandState]
      /\ old \in [Commands -> SUBSET Ids]
      /\ CommandsCoherent
  BY DEF Inv, TypeOK, Row, CommandState
<1>1. ASSUME NEW c \in Commands, NEW cmd \in {"create", "revoke", "rotate"},
             NEW p \in Partners, Begin(c, cmd, p)
      PROVE  CommandsCoherent'
  <2>1. cli'[c] = [cmd |-> cmd, target |-> p, step |-> FirstStep(cmd), made |-> 0]
        /\ old'[c] = ActiveOf(p) /\ keys' = keys
        /\ \A d \in Commands \ {c} : cli'[d] = cli[d] /\ old'[d] = old[d]
    BY <1>0, <1>1 DEF Begin
  <2>2. FirstStep(cmd) \in {"create", "revoke"} /\ (cmd # "create" => FirstStep(cmd) = "revoke")
    BY DEF FirstStep
  <2>3. \A k \in ActiveOf(p) : keys[k].name = p
    BY DEF ActiveOf
  <2>4. QED
    BY <1>0, <2>1, <2>2, <2>3 DEF CommandsCoherent, TakesName
<1>2. ASSUME NEW c \in Commands, RevokeCommits(c) PROVE CommandsCoherent'
  <2>1. /\ \A k \in Ids : keys'[k].name = keys[k].name /\ (keys'[k].active => keys[k].active)
        /\ \A k \in RevokedBy(c) : ~keys'[k].active
    BY <1>2, RevokeOnlyDeactivates DEF Inv
  <2>2. /\ cli[c].step = "revoke" /\ old' = old
        /\ cli'[c].step = IF cli[c].cmd = "rotate" THEN "create" ELSE "done"
        /\ cli'[c].cmd = cli[c].cmd /\ cli'[c].target = cli[c].target /\ cli'[c].made = cli[c].made
        /\ \A d \in Commands \ {c} : cli'[d] = cli[d]
    BY <1>0, <1>2 DEF RevokeCommits, CommandState
  <2>3. ASSUME TakesName(c), NEW k \in old[c] PROVE ~keys'[k].active
    <3>1. k \in Ids /\ keys[k].name = cli[c].target
      BY <1>0 DEF CommandsCoherent
    <3>2. CASE keys[k].active
      <4>1. k \in RevokedBy(c)
        BY <2>3, <3>1, <3>2 DEF RevokedBy, ActiveOf, Active, TakesName
      <4>2. QED
        BY <4>1, <2>1
    <3>3. QED
      BY <3>1, <3>2, <2>1
  <2>4. \A d \in Commands : \A k \in old[d] : k \in Ids
    BY <1>0
  <2>5. QED
    BY <1>0, <2>1, <2>2, <2>3, <2>4 DEF CommandsCoherent, TakesName
<1>3. ASSUME NEW c \in Commands, CreateCommits(c) PROVE CommandsCoherent'
  <2>1. \A k \in Ids : keys'[k] = keys[k]
    BY <1>3, CreateAppends
  <2>2. /\ cli[c].step = "create" /\ old' = old
        /\ cli'[c].step = "print" /\ cli'[c].made = Len(keys) + 1
        /\ cli'[c].cmd = cli[c].cmd /\ cli'[c].target = cli[c].target
        /\ \A d \in Commands \ {c} : cli'[d] = cli[d]
    BY <1>0, <1>3 DEF CreateCommits, CommandState
  <2>3. \A d \in Commands : \A k \in old[d] : keys'[k] = keys[k]
    BY <1>0, <2>1
  <2>4. Len(keys) + 1 # 0
    BY <1>0
  <2>5. QED
    BY <1>0, <2>2, <2>3, <2>4 DEF CommandsCoherent, TakesName
<1>4. ASSUME NEW c \in Commands, ShowPlaintext(c) PROVE CommandsCoherent'
  <2>1. /\ cli[c].step = "print" /\ cli'[c].step = "done" /\ old' = old /\ keys' = keys
        /\ cli'[c].cmd = cli[c].cmd /\ cli'[c].target = cli[c].target /\ cli'[c].made = cli[c].made
        /\ \A d \in Commands \ {c} : cli'[d] = cli[d]
    BY <1>0, <1>4 DEF ShowPlaintext, CommandState
  <2>2. QED
    BY <1>0, <2>1 DEF CommandsCoherent, TakesName
<1>5. ASSUME NEW c \in Commands, Die(c) PROVE CommandsCoherent'
  <2>1. /\ cli[c].step # "idle" /\ cli'[c].step = "dead" /\ old' = old /\ keys' = keys
        /\ cli'[c].cmd = cli[c].cmd /\ cli'[c].target = cli[c].target /\ cli'[c].made = cli[c].made
        /\ \A d \in Commands \ {c} : cli'[d] = cli[d]
    BY <1>0, <1>5 DEF Die, CommandState
  <2>2. QED
    BY <1>0, <2>1 DEF CommandsCoherent, TakesName
<1>6. ASSUME NEW q \in Requests, NEW k \in shown, Authenticate(q, k) PROVE CommandsCoherent'
  BY <1>0, <1>6 DEF Authenticate, CommandsCoherent, TakesName
<1>7. CASE UNCHANGED vars
  BY <1>0, <1>7 DEF vars, CommandsCoherent, TakesName
<1>8. QED
  BY <1>1, <1>2, <1>3, <1>4, <1>5, <1>6, <1>7 DEF Next

\* Nothing has happened to the key table at first, so all of Inv holds.
LEMMA InvInit == Init => Inv
  BY DEF Init, Inv, TypeOK, CommandsCoherent, NotRun, Ids, Steps

\* Inv is inductive: each transaction, command step and request keeps it.
LEMMA InvHolds == Spec => []Inv
<1>1. Inv /\ [Next]_vars => Inv'
  BY TypeStep, CommandsStep DEF Inv
<1>2. QED
  BY InvInit, <1>1, PTL DEF Spec

\* The types hold for any partners, commands and requests.
THEOREM TypeCorrect == Spec => []TypeOK
  BY InvHolds, PTL DEF Inv

----------------------------------------------------------------------------
(* Rotation *)

\* Whatever other commands run and wherever commands die: once a rotation has
\* minted its key, no key its partner had when it began is active.
THEOREM RotationSafe == Spec => []OldKeysRetired
<1>1. Inv => OldKeysRetired
  BY DEF Inv, TypeOK, CommandsCoherent, OldKeysRetired, Retires, TakesName, Active
<1>2. QED
  BY InvHolds, <1>1, PTL

\* From that moment on require_api_key lets no request in with an old key.
THEOREM LockOutSafe == Spec => OldKeyLockedOut
<1> DEFINE Step == \A c \in Commands, q \in Requests :
                      /\ Retires(c)
                      /\ req[q].answer = "none" /\ req'[q].answer = "authorized"
                      => req'[q].key \notin old[c]
<1>1. Inv /\ [Next]_vars => [Step]_vars
  <2> SUFFICES ASSUME Inv, Next,
                      NEW c \in Commands, NEW q \in Requests,
                      Retires(c),
                      req[q].answer = "none", req'[q].answer = "authorized"
               PROVE  req'[q].key \notin old[c]
    OBVIOUS
  <2>1. req' # req
    OBVIOUS
  <2>2. PICK r \in Requests, k \in shown : Authenticate(r, k)
    BY <2>1 DEF Next, Begin, RevokeCommits, CreateCommits, ShowPlaintext, Die
  <2>3. r = q /\ req'[q].key = k /\ k \in Active
    BY <2>2 DEF Authenticate, LookupFinds, Inv, TypeOK
  <2>4. QED
    BY <2>3 DEF Inv, TypeOK, CommandsCoherent, Retires, TakesName, Active
<1>2. QED
  BY InvHolds, <1>1, PTL DEF Spec, OldKeyLockedOut

----------------------------------------------------------------------------
(* The table *)

\* Rows stay, keep their names, and a revoked one is never active again; one is
\* revoked only by a command that was told to revoke this row.
THEOREM HistorySafe == Spec => HistoryKept
<1> DEFINE Kept(k) ==
               /\ keys'[k].name = keys[k].name
               /\ keys'[k].active => keys[k].active
               /\ keys[k].active /\ ~keys'[k].active =>
                     \E c \in Commands : /\ cli[c].step = "revoke" /\ cli'[c].step # "revoke"
                                         /\ AskedFor(c, k)
           Step == Len(keys') >= Len(keys) /\ \A k \in Ids : Kept(k)
<1>1. Inv /\ [Next]_vars => [Step]_vars
  <2> SUFFICES ASSUME Inv, Next PROVE Step
    OBVIOUS
  <2>0. Len(keys) \in Nat /\ cli \in [Commands -> CommandState]
    BY DEF Inv, TypeOK, CommandState
  <2>1. ASSUME NEW c \in Commands, RevokeCommits(c) PROVE Step
    <3>1. /\ Len(keys') = Len(keys)
          /\ \A k \in Ids : keys'[k].name = keys[k].name /\ (keys'[k].active => keys[k].active)
      BY <2>1, RevokeOnlyDeactivates DEF Inv
    <3>2. ASSUME NEW k \in Ids, keys[k].active, ~keys'[k].active PROVE k \in RevokedBy(c)
      BY <2>1, <3>2, RevokeOnlyDeactivates DEF Inv
    <3>3. \A k \in RevokedBy(c) : AskedFor(c, k)
      BY DEF RevokedBy, ActiveOf, AskedFor
    <3>4. cli[c].step = "revoke" /\ cli'[c].step # "revoke"
      BY <2>0, <2>1 DEF RevokeCommits, CommandState
    <3>5. QED
      BY <2>0, <3>1, <3>2, <3>3, <3>4
  <2>2. ASSUME NEW c \in Commands, CreateCommits(c) PROVE Step
    <3>1. Len(keys') = Len(keys) + 1 /\ \A k \in Ids : keys'[k] = keys[k]
      BY <2>2, CreateAppends
    <3>2. QED
      BY <2>0, <3>1
  <2>3. CASE UNCHANGED keys
    BY <2>0, <2>3
  <2>4. QED
    BY <2>1, <2>2, <2>3 DEF Next, Begin, ShowPlaintext, Die, Authenticate
<1>2. QED
  BY InvHolds, <1>1, PTL DEF Spec, HistoryKept

\* An active key nobody was shown belongs to a command that is about to show
\* it or died before it could.
THEOREM UnseenKeySafe == Spec => []UnseenKeyExplained
<1>1. Init => UnseenKeyExplained
  BY DEF Init, UnseenKeyExplained, Active, Ids
<1>2. Inv /\ UnseenKeyExplained /\ [Next]_vars => UnseenKeyExplained'
  <2> SUFFICES ASSUME Inv, UnseenKeyExplained, [Next]_vars,
                      NEW k \in Active' \ shown'
               PROVE  \E c \in Commands : cli'[c].made = k /\ cli'[c].step \in {"print", "dead"}
    BY DEF UnseenKeyExplained
  <2>0. /\ Len(keys) \in Nat
        /\ cli \in [Commands -> CommandState]
        /\ CommandsCoherent
    BY DEF Inv, TypeOK, CommandState
  <2>1. ASSUME NEW c \in Commands, CreateCommits(c), k = Len(keys) + 1
        PROVE  cli'[c].made = k /\ cli'[c].step = "print"
    BY <2>0, <2>1 DEF CreateCommits, CommandState
  <2>2. CASE k \in Active \ shown
    <3>1. PICK c \in Commands : cli[c].made = k /\ cli[c].step \in {"print", "dead"}
      BY <2>2 DEF UnseenKeyExplained
    <3>2. CASE cli'[c] = cli[c]
      BY <3>1, <3>2
    <3>3. CASE cli'[c] # cli[c]
      <4>1. PICK d \in Commands :
               \/ \E cmd \in {"create", "revoke", "rotate"}, p \in Partners : Begin(d, cmd, p)
               \/ RevokeCommits(d) \/ CreateCommits(d) \/ ShowPlaintext(d) \/ Die(d)
        BY <3>3 DEF Next, Authenticate, vars
      <4>2. d = c
        BY <4>1, <3>3, <2>0 DEF Begin, RevokeCommits, CreateCommits, ShowPlaintext, Die
      <4>3. ~ShowPlaintext(c)
        BY <3>1, <2>2 DEF ShowPlaintext
      <4>4. Die(c)
        BY <4>1, <4>2, <4>3, <3>1 DEF Begin, RevokeCommits, CreateCommits
      <4>5. cli'[c].made = k /\ cli'[c].step = "dead"
        BY <4>4, <3>1, <2>0 DEF Die, CommandState
      <4>6. QED
        BY <4>5
    <3>4. QED
      BY <3>2, <3>3
  <2>3. CASE k \notin Active \ shown
    <3>1. k \notin Active
      BY <2>3 DEF Next, Begin, RevokeCommits, CreateCommits, ShowPlaintext, Die,
                  Authenticate, vars
    <3>2. ASSUME NEW c \in Commands, CreateCommits(c) PROVE k = Len(keys) + 1
      <4>1. /\ Len(keys') = Len(keys) + 1
            /\ \A i \in Ids : keys'[i] = keys[i]
        BY <3>2, CreateAppends
      <4>2. k \in 1..(Len(keys) + 1) /\ keys'[k].active
        BY <4>1 DEF Active, Ids
      <4>3. k \notin 1..Len(keys)
        BY <4>1, <4>2, <3>1 DEF Active, Ids
      <4>4. QED
        BY <4>2, <4>3, <2>0
    <3>3. ASSUME NEW c \in Commands, RevokeCommits(c) PROVE FALSE
      BY <3>3, <3>1, RevokeOnlyDeactivates DEF Inv, Active, Ids
    <3>4. PICK c \in Commands : CreateCommits(c)
      BY <3>1, <3>3 DEF Next, Begin, ShowPlaintext, Die, Authenticate, vars, Active, Ids
    <3>5. QED
      BY <3>2, <3>4, <2>1
  <2>4. QED
    BY <2>2, <2>3
<1>3. QED
  BY InvHolds, <1>1, <1>2, PTL DEF Spec
=============================================================================
