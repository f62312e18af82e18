------------------------------ MODULE StoreTx ------------------------------
(***************************************************************************)
(* DB.Store (pkg/storage/db.go) as POST /v1/cloud/change runs it: every    *)
(* request in a transaction and a goroutine of its own, against one        *)
(* PostgreSQL database at its default isolation level, READ COMMITTED.     *)
(*                                                                         *)
(* An action is one SQL statement, or the part of a statement between two  *)
(* waits: an UPDATE takes its targets from a snapshot, then locks them row *)
(* by row, waits for a transaction that holds one and tests its WHERE      *)
(* clause again on what that transaction left; an INSERT waits while a     *)
(* running transaction holds a row that its unique index may conflict with.*)
(* A transaction sees the committed rows and what it wrote itself; all it  *)
(* wrote becomes visible at COMMIT, or never.                              *)
(***************************************************************************)
EXTENDS AssignmentRows, Sequences, FiniteSets

CONSTANTS
  Txn,         \* the calls of Store, retries of a client included
  Key,         \* regions, accounts, resource types and resources
  Registered,  \* the keys that earlier requests left in the registry tables
  Request,     \* the requests a client may send
  MaxOps       \* bound: the operations of one request

RequestShape == [names : SUBSET Key, resource : Key, time : Time, ops : Seq(Op)]

ASSUME NullAssumption ==
  NULL \notin Nat /\ NULL \notin Row /\ NULL \notin Request

ASSUME RequestAssumption ==
  /\ MaxOps \in Nat
  /\ Registered \subseteq Key
  /\ \A q \in Request : q \in RequestShape /\ Len(q.ops) <= MaxOps

VARIABLES
  table,    \* table[r]: the committed version of row r, NULL when there is none
  pend,     \* pend[t][r]: the version that t wrote and did not commit yet; its
            \* being there is the row lock of t
  known,    \* the committed keys of aws_region, aws_account, aws_resource_type
            \* and aws_resource
  claims,   \* claims[t]: the keys that t inserted and did not commit yet
  req,      \* req[t]: the request that t stores
  pc,       \* pc[t]: the statement that t is at, or how it ended
  op,       \* op[t]: the index of the operation that t applies
  missing,  \* missing[t]: the names t found missing and has yet to insert
  todo,     \* todo[t]: the targets t has yet to update
  updated   \* updated[t]: the UPDATE of the operation has changed a row

vars == <<table, pend, known, claims, req, pc, op, missing, todo, updated>>
registryVars == <<known, claims, missing>>
rowVars == <<table, pend, todo, updated>>

\* The row that operation i of t inserts, if it inserts one.
RowId == Txn \X (1..MaxOps)

Preparing == {"ensure", "names", "resolve"}
Applying  == {"update", "scan", "insert"}
Statement == Preparing \cup Applying
Active    == Statement \cup {"commit", "rollback", "orphan"}
Committed == {"created", "unknown"}   \* the client got 201, or lost the answer
Ended     == Committed \cup {"failed"}

TypeOK ==
  /\ table \in [RowId -> Row \cup {NULL}]
  /\ pend \in [Txn -> [RowId -> Row \cup {NULL}]]
  /\ known \in SUBSET Key
  /\ claims \in [Txn -> SUBSET Key]
  /\ req \in [Txn -> Request \cup {NULL}]
  /\ pc \in [Txn -> {"idle"} \cup Active \cup Ended]
  /\ op \in [Txn -> Nat]
  /\ missing \in [Txn -> SUBSET Key]
  /\ todo \in [Txn -> SUBSET RowId]
  /\ updated \in [Txn -> BOOLEAN]

NoRows == [r \in RowId |-> NULL]

Init ==
  /\ table = NoRows
  /\ pend = [t \in Txn |-> NoRows]
  /\ known = Registered
  /\ claims = [t \in Txn |-> {}]
  /\ req = [t \in Txn |-> NULL]
  /\ pc = [t \in Txn |-> "idle"]
  /\ op = [t \in Txn |-> 1]
  /\ missing = [t \in Txn |-> {}]
  /\ todo = [t \in Txn |-> {}]
  /\ updated = [t \in Txn |-> FALSE]

-----------------------------------------------------------------------------
Goto(t, label) == pc' = [pc EXCEPT ![t] = label]

\* What t sees: the committed rows, under its own writes.
View(t) == [r \in RowId |-> IF pend[t][r] # NULL THEN pend[t][r] ELSE table[r]]

CurrentOp(t) == req[t].ops[op[t]]

HeldByOther(t, r) == \E u \in Txn \ {t} : pend[u][r] # NULL
ClaimedByOther(t, k) == \E u \in Txn \ {t} : k \in claims[u]

Targets(t) ==
  {r \in RowId : View(t)[r] # NULL /\ IsTarget(View(t)[r], CurrentOp(t), req[t].time)}

\* The rows of running transactions whose fate an INSERT of t has to wait for.
ConflictsInFlight(t, row) ==
  {r \in RowId :
     \E u \in Txn \ {t} :
       /\ pend[u][r] # NULL
       /\ \/ Conflict(row, pend[u][r])
          \/ table[r] # NULL /\ Conflict(row, table[r])}

\* Mutant: tables without the unique indexes.
ConflictsSeenNoIndex(t, row) == {}

\* The rows that make the INSERT of t do nothing.
ConflictsSeen(t, row) ==
  {r \in RowId : View(t)[r] # NULL /\ Conflict(row, View(t)[r])}

\* Mutant: the loop ends one operation early.
NextOpOneShort(t) ==
  IF op[t] + 1 < Len(req[t].ops)
  THEN /\ Goto(t, "update")
       /\ op' = [op EXCEPT ![t] = @ + 1]
  ELSE /\ Goto(t, "commit")
       /\ op' = op

\* t leaves operation op[t]: the next change, IP, hostname or related resource.
NextOp(t) ==
  IF op[t] < Len(req[t].ops)
  THEN /\ Goto(t, "update")
       /\ op' = [op EXCEPT ![t] = @ + 1]
  ELSE /\ Goto(t, "commit")
       /\ op' = op

\* The server forgets the transaction: its writes, its locks, its snapshot.
Forget(t) ==
  /\ pend' = [pend EXCEPT ![t] = NoRows]
  /\ claims' = [claims EXCEPT ![t] = {}]
  /\ op' = [op EXCEPT ![t] = 1]
  /\ missing' = [missing EXCEPT ![t] = {}]
  /\ todo' = [todo EXCEPT ![t] = {}]
  /\ updated' = [updated EXCEPT ![t] = FALSE]

-----------------------------------------------------------------------------
\* tx, err := db.sqldb.Begin()
Begin(t, q) ==
  /\ pc[t] = "idle"
  /\ req' = [req EXCEPT ![t] = q]
  /\ Goto(t, "ensure")
  /\ UNCHANGED <<registryVars, rowVars, op>>

\* ensureResourceExists: "sel" reads which names have no row yet.
EnsureResource(t) ==
  /\ pc[t] = "ensure"
  /\ missing' = [missing EXCEPT ![t] = req[t].names \ known]
  /\ Goto(t, "names")
  /\ UNCHANGED <<known, claims, rowVars, req, op>>

\* One of ins_aws_region, ins_aws_account and ins_aws_resource_type: a plain
\* insert, which waits for a running insert of the same name and fails when
\* the name has been committed since "sel" was read.
CreateName(t, n) ==
  /\ pc[t] = "names"
  /\ n \in missing[t]
  /\ ~ClaimedByOther(t, n)
  /\ IF n \in known
     THEN /\ Goto(t, "rollback")
          /\ UNCHANGED <<claims, missing>>
     ELSE /\ claims' = [claims EXCEPT ![t] = @ \cup {n}]
          /\ missing' = [missing EXCEPT ![t] = @ \ {n}]
          /\ UNCHANGED pc
  /\ UNCHANGED <<known, rowVars, req, op>>

\* Mutant: looks whether somebody creates the resource, and does not wait.
CreateResourceNoWait(t) ==
  /\ pc[t] = "names"
  /\ missing[t] = {}
  /\ claims' = [claims EXCEPT ![t] =
       @ \cup IF ClaimedByOther(t, req[t].resource) THEN {} ELSE {req[t].resource} \ known]
  /\ Goto(t, "resolve")
  /\ UNCHANGED <<known, missing, rowVars, req, op>>

\* insert into aws_resource .. on conflict do nothing
CreateResource(t) ==
  /\ pc[t] = "names"
  /\ missing[t] = {}
  /\ ~ClaimedByOther(t, req[t].resource)
  /\ claims' = [claims EXCEPT ![t] = @ \cup ({req[t].resource} \ known)]
  /\ Goto(t, "resolve")
  /\ UNCHANGED <<known, missing, rowVars, req, op>>

\* getResourceID: an error when the resource has no row.
GetResourceID(t) ==
  /\ pc[t] = "resolve"
  /\ Goto(t, IF {req[t].resource} \cup req[t].names \subseteq known \cup claims[t]
             THEN IF req[t].ops = <<>> THEN "commit" ELSE "update"
             ELSE "rollback")
  /\ UNCHANGED <<registryVars, rowVars, req, op>>

\* assign* and release*: the UPDATE takes its snapshot.
StartUpdate(t) ==
  /\ pc[t] = "update"
  /\ todo' = [todo EXCEPT ![t] = Targets(t)]
  /\ updated' = [updated EXCEPT ![t] = FALSE]
  /\ Goto(t, "scan")
  /\ UNCHANGED <<registryVars, table, pend, req, op>>

\* Mutant: the rows are read first and then changed by their id.
UpdateRowById(t, r) ==
  /\ pc[t] = "scan"
  /\ r \in todo[t]
  /\ ~HeldByOther(t, r)
  /\ todo' = [todo EXCEPT ![t] = @ \ {r}]
  /\ pend' = [pend EXCEPT ![t][r] = Updated(View(t)[r], CurrentOp(t), req[t].time)]
  /\ updated' = [updated EXCEPT ![t] = TRUE]
  /\ UNCHANGED <<registryVars, table, req, pc, op>>

\* It locks a target, tests the WHERE clause again and changes the row.
UpdateRow(t, r) ==
  /\ pc[t] = "scan"
  /\ r \in todo[t]
  /\ ~HeldByOther(t, r)
  /\ todo' = [todo EXCEPT ![t] = @ \ {r}]
  /\ IF IsTarget(View(t)[r], CurrentOp(t), req[t].time)
     THEN /\ pend' = [pend EXCEPT ![t][r] =
                        Updated(View(t)[r], CurrentOp(t), req[t].time)]
          /\ updated' = [updated EXCEPT ![t] = TRUE]
     ELSE UNCHANGED <<pend, updated>>
  /\ UNCHANGED <<registryVars, table, req, pc, op>>

\* RowsAffected: the operation is done, or goes on to its INSERT.
EndUpdate(t) ==
  /\ pc[t] = "scan"
  /\ todo[t] = {}
  /\ IF updated[t] THEN NextOp(t)
                   ELSE Goto(t, "insert") /\ op' = op
  /\ UNCHANGED <<registryVars, rowVars, req>>

\* Mutant: the INSERT runs outside of the transaction.
InsertRowAutoCommit(t) ==
  LET new == NewRow(CurrentOp(t), req[t].time)
  IN /\ pc[t] = "insert"
     /\ ConflictsInFlight(t, new) = {}
     /\ table' = IF ConflictsSeen(t, new) = {}
                 THEN [table EXCEPT ![<<t, op[t]>>] = new]
                 ELSE table
     /\ NextOp(t)
     /\ UNCHANGED <<registryVars, pend, todo, updated, req>>

\* insert into aws_.._assignment .. on conflict do nothing
InsertRow(t) ==
  LET new == NewRow(CurrentOp(t), req[t].time)
  IN /\ pc[t] = "insert"
     /\ ConflictsInFlight(t, new) = {}
     /\ pend' = IF ConflictsSeen(t, new) = {}
                THEN [pend EXCEPT ![t][<<t, op[t]>>] = new]
                ELSE pend
     /\ NextOp(t)
     /\ UNCHANGED <<registryVars, table, todo, updated, req>>

\* tx.Commit(): the answer may be lost on the way back.
Commit(t) ==
  /\ pc[t] = "commit"
  /\ table' = View(t)
  /\ known' = known \cup claims[t]
  /\ \E end \in Committed : Goto(t, end)
  /\ Forget(t)
  /\ UNCHANGED req

\* A statement returns an error: a cancelled context, a time-out, a conflict.
\* The server may drop the locks at once; keeping them up to the ROLLBACK
\* covers that too.
StatementFails(t) ==
  /\ pc[t] \in Statement
  /\ Goto(t, "rollback")
  /\ UNCHANGED <<registryVars, rowVars, req, op>>

\* Mutant: Store returns the error without a rollback.
RollbackForgotten(t) ==
  /\ pc[t] = "rollback"
  /\ Goto(t, "failed")
  /\ UNCHANGED <<registryVars, rowVars, req, op>>

\* tx.Rollback()
Rollback(t) ==
  /\ pc[t] = "rollback"
  /\ Forget(t)
  /\ Goto(t, "failed")
  /\ UNCHANGED <<table, known, req>>

\* The process dies, the connection breaks, or COMMIT or ROLLBACK returns an
\* error: nobody ends the transaction until the server notices.
LoseConnection(t) ==
  /\ pc[t] \in Active \ {"orphan"}
  /\ Goto(t, "orphan")
  /\ UNCHANGED <<registryVars, rowVars, req, op>>

ServerAborts(t) ==
  /\ pc[t] = "orphan"
  /\ Forget(t)
  /\ Goto(t, "failed")
  /\ UNCHANGED <<table, known, req>>

\* The server's deadlock detector: t waits for a transaction that waits for t.
WaitsFor(t, u) ==
  /\ u # t
  /\ \/ pc[t] = "names" /\ missing[t] \cap claims[u] # {}
     \/ pc[t] = "names" /\ missing[t] = {} /\ req[t].resource \in claims[u]
     \/ pc[t] = "scan" /\ \E r \in todo[t] : pend[u][r] # NULL
     \/ /\ pc[t] = "insert"
        /\ \E r \in ConflictsInFlight(t, NewRow(CurrentOp(t), req[t].time)) :
             pend[u][r] # NULL

Deadlocked(t) ==
  \E cycle \in SUBSET Txn :
    /\ t \in cycle
    /\ \A u \in cycle : /\ \E v \in cycle : WaitsFor(u, v)
                        /\ \E v \in cycle : WaitsFor(v, u)

DetectDeadlock(t) == Deadlocked(t) /\ StatementFails(t)

Proceed(t) ==
  \/ EnsureResource(t)
  \/ \E n \in Key : CreateName(t, n)
  \/ CreateResource(t)
  \/ GetResourceID(t)
  \/ StartUpdate(t)
  \/ \E r \in RowId : UpdateRow(t, r)
  \/ EndUpdate(t)
  \/ InsertRow(t)
  \/ Commit(t)
  \/ Rollback(t)
  \/ ServerAborts(t)

Step(t) ==
  \/ \E q \in Request : Begin(t, q)
  \/ Proceed(t)
  \/ StatementFails(t)
  \/ LoseConnection(t)

Next == \E t \in Txn : Step(t)

Spec == Init /\ [][Next]_vars

\* A transaction that can go on does, and the server breaks deadlocks.  No
\* request has to be sent, and nothing has to fail.
Fairness == \A t \in Txn : WF_vars(Proceed(t)) /\ WF_vars(DetectDeadlock(t))

FairSpec == Spec /\ Fairness

-----------------------------------------------------------------------------
(***************************************************************************)
(* Properties.                                                             *)
(***************************************************************************)
\* An operation of a request that t committed is recorded by the row.
RecordedBy(t, i, row) == Records(row, req[t].ops[i], req[t].time)

\* Every operation of a committed request is recorded by a committed row, and
\* stays so: neither the conflict clause that drops an INSERT, nor an UPDATE of
\* another request, nor a failure loses an event that Store accepted.
NoEventLost ==
  \A t \in Txn : pc[t] \in Committed =>
    \A i \in 1..Len(req[t].ops) :
      \E r \in RowId : table[r] # NULL /\ RecordedBy(t, i, table[r])

\* Every start and every end in the tables was reported by a request that was
\* committed: a Store that fails at any statement, loses its connection or is
\* the victim of a deadlock leaves nothing behind (the rollback of Store).
NoTraceOfFailure ==
  \A r \in RowId : table[r] # NULL =>
    /\ table[r].not_before # EPOCH =>
         \E t \in Txn : /\ pc[t] \in Committed
                        /\ \E i \in 1..Len(req[t].ops) :
                             /\ req[t].ops[i].kind = "ADDED"
                             /\ RecordedBy(t, i, table[r])
    /\ table[r].not_after # NULL =>
         \E t \in Txn : /\ pc[t] \in Committed
                        /\ \E i \in 1..Len(req[t].ops) :
                             /\ req[t].ops[i].kind = "DELETED"
                             /\ RecordedBy(t, i, table[r])

\* A committed row is never removed, and a start or an end it has is never
\* overwritten, whichever statements of concurrent requests interleave: what a
\* lookup said of a past instant is refined, not rewritten.
HistoryOnlyGrows ==
  [][\A r \in RowId : table[r] # NULL =>
       table'[r] # NULL /\ Extends(table[r], table'[r])]_vars

\* The partial unique indexes hold in every committed state.  The UPDATEs have
\* no "on conflict": if one of them could make two rows conflict it would fail
\* a request that has nothing wrong.
UniqueOpenRows ==
  \A r, s \in RowId :
    r # s /\ table[r] # NULL /\ table[s] # NULL => ~Conflict(table[r], table[s])

\* getResourceID, a statement with a snapshot of its own, always finds the row
\* that ensureResourceExists has just made sure of, whoever inserted it.
ResourceResolves ==
  \A t \in Txn : pc[t] = "resolve" =>
    {req[t].resource} \cup req[t].names \subseteq known \cup claims[t]

\* Every Store that starts ends: no lock of a failed or abandoned request is
\* kept for ever, and no cycle of waits stands.
EveryStoreEnds == \A t \in Txn : pc[t] \in Active ~> pc[t] \in Ended

\* An epoch row is for "release events w/o known assignment" (db.go:565): an
\* assignment and its release are never kept as two halves.
NoHalves ==
  \A r, s \in RowId :
    table[r] # NULL /\ table[s] # NULL => ~Halves(table[r], table[s])

\* Store implements the atomic history: the committed rows are the history,
\* and a request is accepted by the COMMIT of its transaction.
History ==
  INSTANCE AssignmentHistory
    WITH rows <- table,
         accepted <- [t \in Txn |-> IF pc[t] \in Committed THEN req[t] ELSE NULL]

ImplementsHistory == History!Spec

-----------------------------------------------------------------------------
(***************************************************************************)
(* The inductive invariant of the proofs (StoreTxProofs).                  *)
(***************************************************************************)
HasRequest ==
  \A t \in Txn :
    /\ pc[t] # "idle" => req[t] \in Request
    /\ pc[t] \in {"idle"} \cup Preparing => op[t] = 1
    /\ pc[t] \in Applying => op[t] \in 1..Len(req[t].ops)

\* A row is locked by one transaction at most.
OneWriter ==
  \A t, u \in Txn, r \in RowId :
    pend[t][r] # NULL /\ pend[u][r] # NULL => t = u

\* What t has written is what committing its request may do to the row.
PendTouches ==
  \A t \in Txn, r \in RowId : pend[t][r] # NULL =>
    pc[t] # "idle" /\ Touched(table[r], pend[t][r], req[t])

\* The row named after an operation belongs to it: before t has applied the
\* operation there is none, and others see it only once t has committed.
RowsAreOwned ==
  \A t \in Txn, i \in 1..MaxOps :
    /\ table[<<t, i>>] # NULL => pc[t] \in Committed
    /\ pend[t][<<t, i>>] # NULL => i < op[t] \/ pc[t] \in Active \ Statement
    /\ \A u \in Txn \ {t} : pend[u][<<t, i>>] # NULL => pc[t] \in Committed

\* The targets of a running UPDATE are rows that t sees.
TargetsSeen ==
  \A t \in Txn, r \in RowId : r \in todo[t] => View(t)[r] # NULL

\* t sees a row that records its operation i.
Seen(t, i) == \E r \in RowId : View(t)[r] # NULL /\ RecordedBy(t, i, View(t)[r])

\* The operations that t has applied are recorded in what t sees.
AppliedIsSeen(t) ==
  /\ pc[t] \in Applying => \A i \in 1..(op[t] - 1) : Seen(t, i)
  /\ pc[t] = "scan" /\ updated[t] => Seen(t, op[t])
  /\ pc[t] = "commit" => \A i \in 1..Len(req[t].ops) : Seen(t, i)

AppliedAreSeen == \A t \in Txn : AppliedIsSeen(t)

IInv ==
  /\ TypeOK /\ HasRequest /\ OneWriter /\ PendTouches
  /\ RowsAreOwned /\ TargetsSeen /\ AppliedAreSeen /\ NoEventLost
=============================================================================
