--------------------------- MODULE AccountOwners ---------------------------
(***************************************************************************)
(* DB.StoreAccountOwner (pkg/storage/db.go) as POST /v1/account/owner runs *)
(* it: every request in a transaction and a goroutine of its own, at       *)
(* READ COMMITTED.  An action is one SQL statement; the upsert of a person *)
(* is two, because it locks the login before it meets the unique index on  *)
(* e-mails.                                                                *)
(***************************************************************************)
EXTENDS Integers, Sequences

CONSTANTS
  Txn,      \* the calls of StoreAccountOwner
  Account, Login, Email, Name,
  Request,  \* the requests a client may send
  NULL

Details == [email : Email, name : Name]   \* name stands for name and valid
Entry == [login : Login, details : Details]
RequestShape == [account : Account, owner : Entry, champions : Seq(Entry)]

ASSUME RequestAssumption == Request \subseteq RequestShape
ASSUME NullAssumption == NULL \notin Login /\ NULL \notin Details /\ NULL \notin Request

VARIABLES
  person,     \* person[l]: the committed details of l, NULL when there is no row
  accounts,   \* the committed keys of aws_account
  owner,      \* owner[a]: the committed row of a in account_owner, or NULL
  champions,  \* champions[a]: the committed rows of a in account_champion
  req,        \* req[t]: the request that t stores
  pc,         \* pc[t]: the statement that t is at, or how it ended
  n,          \* n[t]: the person that t stores, 1 for the owner
  locked,     \* locked[t]: the logins whose row t has locked or claimed
  wrote,      \* wrote[t][l]: the details of l that t did not commit yet
  created,    \* created[t]: t inserted its account and did not commit yet
  linked,     \* linked[t]: t wrote the account_owner row of its account
  revoked,    \* revoked[t]: the champions of its account that t deleted
  granted     \* granted[t]: the champions of its account that t inserted

tables == <<person, accounts, owner, champions>>
writes == <<locked, wrote, created, linked, revoked, granted>>
vars == <<tables, req, pc, n, writes>>

Statement == {"account", "lock", "write", "link", "clear", "grant"}
Active    == Statement \cup {"commit", "rollback", "orphan"}
Committed == {"created", "unknown"}   \* the client got 201, or lost the answer
Ended     == Committed \cup {"failed"}

\* The persons of a request in the order in which they are stored.
Persons(q) == <<q.owner>> \o q.champions

NoDetails == [l \in Login |-> NULL]

TypeOK ==
  /\ person \in [Login -> Details \cup {NULL}]
  /\ accounts \in SUBSET Account
  /\ owner \in [Account -> Login \cup {NULL}]
  /\ champions \in [Account -> SUBSET Login]
  /\ req \in [Txn -> Request \cup {NULL}]
  /\ pc \in [Txn -> {"idle"} \cup Active \cup Ended]
  /\ n \in [Txn -> Nat]
  /\ \A t \in Txn : pc[t] \in Active => n[t] \in 1..Len(Persons(req[t]))
  /\ locked \in [Txn -> SUBSET Login]
  /\ wrote \in [Txn -> [Login -> Details \cup {NULL}]]
  /\ created \in [Txn -> BOOLEAN]
  /\ linked \in [Txn -> BOOLEAN]
  /\ revoked \in [Txn -> SUBSET Login]
  /\ granted \in [Txn -> SUBSET Login]

Init ==
  /\ person = NoDetails
  /\ accounts = {}
  /\ owner = [a \in Account |-> NULL]
  /\ champions = [a \in Account |-> {}]
  /\ req = [t \in Txn |-> NULL]
  /\ pc = [t \in Txn |-> "idle"]
  /\ n = [t \in Txn |-> 1]
  /\ locked = [t \in Txn |-> {}]
  /\ wrote = [t \in Txn |-> NoDetails]
  /\ created = [t \in Txn |-> FALSE]
  /\ linked = [t \in Txn |-> FALSE]
  /\ revoked = [t \in Txn |-> {}]
  /\ granted = [t \in Txn |-> {}]

-----------------------------------------------------------------------------
Goto(t, label) == pc' = [pc EXCEPT ![t] = label]

Current(t) == Persons(req[t])[n[t]]

\* What t sees: the committed rows, under its own writes.
PersonSeen(t, l) == IF wrote[t][l] # NULL THEN wrote[t][l] ELSE person[l]
AccountSeen(t) == req[t].account \in accounts \/ created[t]

\* The others that work on the same account.
Rivals(t) == {u \in Txn \ {t} : req[u] # NULL /\ req[u].account = req[t].account}

\* The transactions that hold what the statement of t needs: the key of the
\* account, the row of the login, an index entry of the e-mail, the row of the
\* account in account_owner.
Holders(t) ==
  CASE pc[t] = "account" -> {u \in Rivals(t) : created[u]}
    [] pc[t] = "lock"    -> {u \in Txn \ {t} : Current(t).login \in locked[u]}
    [] pc[t] = "write"   ->
         {u \in Txn \ {t} : \E l \in Login \ {Current(t).login} :
            /\ wrote[u][l] # NULL
            /\ \/ wrote[u][l].email = Current(t).details.email
               \/ person[l] # NULL /\ person[l].email = Current(t).details.email}
    [] pc[t] = "link"    -> {u \in Rivals(t) : linked[u]}
    [] OTHER             -> {}

\* Mutant: the loop ends one champion late.
NextPersonOneMore(t) ==
  IF n[t] <= Len(Persons(req[t]))
  THEN /\ Goto(t, "lock")
       /\ n' = [n EXCEPT ![t] = @ + 1]
  ELSE /\ Goto(t, "commit")
       /\ n' = n

\* The loop over champions: the next one, or the end.
NextPerson(t) ==
  IF n[t] < Len(Persons(req[t]))
  THEN /\ Goto(t, "lock")
       /\ n' = [n EXCEPT ![t] = @ + 1]
  ELSE /\ Goto(t, "commit")
       /\ n' = n

\* The server forgets the transaction: its writes and its locks.
Forget(t) ==
  /\ n' = [n EXCEPT ![t] = 1]
  /\ locked' = [locked EXCEPT ![t] = {}]
  /\ wrote' = [wrote EXCEPT ![t] = NoDetails]
  /\ created' = [created EXCEPT ![t] = FALSE]
  /\ linked' = [linked EXCEPT ![t] = FALSE]
  /\ revoked' = [revoked EXCEPT ![t] = {}]
  /\ granted' = [granted EXCEPT ![t] = {}]

-----------------------------------------------------------------------------
\* tx, err := db.sqldb.Begin()
Begin(t, q) ==
  /\ pc[t] = "idle"
  /\ req' = [req EXCEPT ![t] = q]
  /\ Goto(t, "account")
  /\ UNCHANGED <<tables, n, writes>>

\* Mutant: looks whether somebody creates the account, and does not wait.
InsertAccountNoWait(t) ==
  /\ pc[t] = "account"
  /\ created' = [created EXCEPT ![t] = Holders(t) = {} /\ req[t].account \notin accounts]
  /\ Goto(t, "lock")
  /\ UNCHANGED <<tables, req, n, locked, wrote, linked, revoked, granted>>

\* INSERT INTO aws_account .. ON CONFLICT DO NOTHING
InsertAccount(t) ==
  /\ pc[t] = "account"
  /\ Holders(t) = {}
  /\ created' = [created EXCEPT ![t] = req[t].account \notin accounts]
  /\ Goto(t, "lock")
  /\ UNCHANGED <<tables, req, n, locked, wrote, linked, revoked, granted>>

\* insertPersonQuery: the row of the login is inserted or locked ..
LockPerson(t) ==
  /\ pc[t] = "lock"
  /\ Holders(t) = {}
  /\ locked' = [locked EXCEPT ![t] = @ \cup {Current(t).login}]
  /\ Goto(t, "write")
  /\ UNCHANGED <<tables, req, n, wrote, created, linked, revoked, granted>>

\* .. and gets its details, unless somebody else has the e-mail.
EmailTaken(t) ==
  \E l \in Login \ {Current(t).login} :
    PersonSeen(t, l) # NULL /\ PersonSeen(t, l).email = Current(t).details.email

WritePerson(t) ==
  /\ pc[t] = "write"
  /\ Holders(t) = {}
  /\ IF EmailTaken(t)
     THEN Goto(t, "rollback") /\ UNCHANGED wrote
     ELSE /\ wrote' = [wrote EXCEPT ![t][Current(t).login] = Current(t).details]
          /\ Goto(t, IF n[t] = 1 THEN "link" ELSE "grant")
  /\ UNCHANGED <<tables, req, n, locked, created, linked, revoked, granted>>

\* Mutant: a known owner is kept, as aws_account and account_champion keep theirs.
LinkOwnerKeepsOwner(t) ==
  /\ pc[t] = "link"
  /\ Holders(t) = {}
  /\ linked' = [linked EXCEPT ![t] = owner[req[t].account] = NULL]
  /\ Goto(t, "clear")
  /\ UNCHANGED <<tables, req, n, locked, wrote, created, revoked, granted>>

\* SELECT id FROM person, SELECT id FROM aws_account, and the upsert of the row
\* of the account in account_owner.
LinkOwner(t) ==
  /\ pc[t] = "link"
  /\ IF AccountSeen(t) /\ PersonSeen(t, req[t].owner.login) # NULL
     THEN /\ Holders(t) = {}
          /\ linked' = [linked EXCEPT ![t] = TRUE]
          /\ Goto(t, "clear")
     ELSE Goto(t, "rollback") /\ UNCHANGED linked
  /\ UNCHANGED <<tables, req, n, locked, wrote, created, revoked, granted>>

\* DELETE FROM account_champion: t holds the row of account_owner, so nobody
\* else has champions of this account in flight.
ClearChampions(t) ==
  /\ pc[t] = "clear"
  /\ revoked' = [revoked EXCEPT ![t] = champions[req[t].account]]
  /\ NextPerson(t)
  /\ UNCHANGED <<tables, req, locked, wrote, created, linked, granted>>

\* INSERT INTO account_champion .. ON CONFLICT DO NOTHING
GrantChampion(t) ==
  /\ pc[t] = "grant"
  /\ granted' = [granted EXCEPT ![t] = @ \cup {Current(t).login}]
  /\ NextPerson(t)
  /\ UNCHANGED <<tables, req, locked, wrote, created, linked, revoked>>

\* tx.Commit(): the answer may be lost on the way back.
Commit(t) ==
  /\ pc[t] = "commit"
  /\ person' = [l \in Login |-> PersonSeen(t, l)]
  /\ accounts' = accounts \cup (IF created[t] THEN {req[t].account} ELSE {})
  /\ owner' = IF linked[t] THEN [owner EXCEPT ![req[t].account] = req[t].owner.login]
                           ELSE owner
  /\ champions' = [champions EXCEPT ![req[t].account] = (@ \ revoked[t]) \cup granted[t]]
  /\ \E end \in Committed : Goto(t, end)
  /\ Forget(t)
  /\ UNCHANGED req

\* A statement returns an error: a cancelled context, a time-out, a conflict.
StatementFails(t) ==
  /\ pc[t] \in Statement
  /\ Goto(t, "rollback")
  /\ UNCHANGED <<tables, req, n, writes>>

\* Mutant: the error is returned without a rollback.
RollbackForgotten(t) ==
  /\ pc[t] = "rollback"
  /\ Goto(t, "failed")
  /\ UNCHANGED <<tables, req, n, writes>>

\* tx.Rollback()
Rollback(t) ==
  /\ pc[t] = "rollback"
  /\ Forget(t)
  /\ Goto(t, "failed")
  /\ UNCHANGED <<tables, req>>

\* The process dies, the connection breaks, or COMMIT or ROLLBACK returns an
\* error: nobody ends the transaction until the server notices.
LoseConnection(t) ==
  /\ pc[t] \in Active \ {"orphan"}
  /\ Goto(t, "orphan")
  /\ UNCHANGED <<tables, req, n, writes>>

ServerAborts(t) ==
  /\ pc[t] = "orphan"
  /\ Forget(t)
  /\ Goto(t, "failed")
  /\ UNCHANGED <<tables, req>>

Deadlocked(t) ==
  \E cycle \in SUBSET Txn :
    /\ t \in cycle
    /\ \A u \in cycle : /\ \E v \in cycle : v \in Holders(u)
                        /\ \E v \in cycle : u \in Holders(v)

DetectDeadlock(t) == Deadlocked(t) /\ StatementFails(t)

Proceed(t) ==
  \/ InsertAccount(t) \/ LockPerson(t) \/ WritePerson(t)
  \/ LinkOwner(t) \/ ClearChampions(t) \/ GrantChampion(t)
  \/ Commit(t) \/ Rollback(t) \/ ServerAborts(t)

Step(t) ==
  \/ \E q \in Request : Begin(t, q)
  \/ Proceed(t)
  \/ StatementFails(t)
  \/ LoseConnection(t)

Next == \E t \in Txn : Step(t)

Spec == Init /\ [][Next]_vars

\* A transaction that can go on does, and the server breaks deadlocks.
Fairness == \A t \in Txn : WF_vars(Proceed(t)) /\ WF_vars(DetectDeadlock(t))

FairSpec == Spec /\ Fairness

-----------------------------------------------------------------------------
(***************************************************************************)
(* Properties.                                                             *)
(***************************************************************************)
\* The SELECTs of ids, statements with snapshots of their own, find the account
\* and the owner that the statements before them made sure of.
IdsFound ==
  \A t \in Txn : pc[t] = "link" =>
    AccountSeen(t) /\ PersonSeen(t, req[t].owner.login) # NULL

\* Every StoreAccountOwner that starts ends: persons locked in opposite orders,
\* exchanged e-mails, failures and lost connections keep nobody waiting for ever.
EveryStoreEnds == \A t \in Txn : pc[t] \in Active ~> pc[t] \in Ended

\* StoreAccountOwner implements the atomic directory: however the statements of
\* requests interleave, the owner and the champions of an account are those of
\* one request, the last that was committed; no two persons share an e-mail;
\* and a request that failed has changed nothing.
Directory ==
  INSTANCE AccountDirectory
    WITH accepted <- [t \in Txn |-> IF pc[t] \in Committed THEN req[t] ELSE NULL]

ImplementsDirectory == Directory!Spec
=============================================================================
