--------------------------- MODULE StoreTxProofs ---------------------------
(***************************************************************************)
(* Proofs about StoreTx, for any number of concurrent calls of Store, any  *)
(* requests, any number of operations in a request and any registry.       *)
(***************************************************************************)
EXTENDS StoreTx, TLAPS

-----------------------------------------------------------------------------
(***************************************************************************)
(* Rows: what the statements of AssignmentRows return and keep.            *)
(***************************************************************************)

\* An operation and a time as a request carries them.
LEMMA RequestParts ==
  ASSUME NEW q \in Request
  PROVE  /\ q.time \in Time /\ q.time # EPOCH /\ q.time # NULL
         /\ q.ops \in Seq(Op) /\ Len(q.ops) \in Nat /\ Len(q.ops) <= MaxOps
         /\ \A i \in 1..Len(q.ops) : q.ops[i] \in Op
         /\ DOMAIN q.ops = 1..Len(q.ops)
         /\ q.names \subseteq Key /\ q.resource \in Key
         /\ q # NULL
BY NullAssumption, RequestAssumption DEF RequestShape, Time, EPOCH

\* The SET clause yields a row that records the operation and keeps the rest.
LEMMA UpdatedRow ==
  ASSUME NEW row \in Row, NEW o \in Op, NEW when \in Time, IsTarget(row, o, when)
  PROVE  /\ Updated(row, o, when) \in Row
         /\ Extends(row, Updated(row, o, when))
         /\ Records(Updated(row, o, when), o, when)
         /\ Updated(row, o, when).subject = o.subject
         /\ row.subject = o.subject
         /\ o.kind = "ADDED" \/ o.kind = "DELETED"
         /\ o.kind # "ADDED" => Updated(row, o, when).not_before = row.not_before
         /\ o.kind # "DELETED" => Updated(row, o, when).not_after = row.not_after
<1>1. CASE o.kind = "ADDED"
  BY <1>1 DEF Row, Op, Time, IsTarget, AssignTarget, Updated, Extends, Records
<1>2. CASE o.kind # "ADDED"
  BY <1>2 DEF Row, Op, Time, IsTarget, ReleaseTarget, Updated, Extends, Records
<1> QED BY <1>1, <1>2

\* The VALUES clause yields a row that records the operation.
LEMMA NewRowRecords ==
  ASSUME NEW o \in Op, NEW when \in Time
  PROVE  /\ NewRow(o, when) \in Row
         /\ Records(NewRow(o, when), o, when)
         /\ NewRow(o, when).subject = o.subject
         /\ o.kind = "ADDED" \/ NewRow(o, when).not_before = EPOCH
         /\ o.kind = "DELETED" \/ NewRow(o, when).not_after = NULL
BY DEF Row, Op, Time, EPOCH, NewRow, Records

\* The row that keeps an INSERT from inserting records the operation itself.
LEMMA ConflictRecords ==
  ASSUME NEW o \in Op, NEW when \in Time, NEW row \in Row,
         SlotsDistinct, NULL \notin Nat, Conflict(NewRow(o, when), row)
  PROVE  Records(row, o, when)
BY DEF Row, Op, Time, NewRow, Records, Conflict, SlotsDistinct

\* A row that grows goes on recording what it recorded.
LEMMA RecordsKept ==
  ASSUME NEW o \in Op, NEW when \in Time, NEW old, NEW new,
         NULL \notin Nat, Extends(old, new), Records(old, o, when)
  PROVE  Records(new, o, when)
BY DEF Time, EPOCH, Extends, Records

LEMMA ExtendsRefl == ASSUME NEW row PROVE Extends(row, row)
BY DEF Extends

-----------------------------------------------------------------------------
(***************************************************************************)
(* Type correctness.                                                       *)
(***************************************************************************)
Typed == TypeOK /\ HasRequest /\ TargetsSeen

\* The request and the operation of a transaction that applies its request.
LEMMA CurrentParts ==
  ASSUME Typed, NEW t \in Txn, pc[t] # "idle"
  PROVE  /\ req[t] \in Request /\ req[t].time \in Time /\ Len(req[t].ops) \in Nat
         /\ Len(req[t].ops) <= MaxOps
         /\ req[t].names \subseteq Key /\ req[t].resource \in Key
         /\ pc[t] \in Applying => /\ op[t] \in 1..Len(req[t].ops)
                                  /\ CurrentOp(t) \in Op
                                  /\ <<t, op[t]>> \in RowId
<1>1. req[t] \in Request
  BY DEF Typed, HasRequest
<1>2. pc[t] \in Applying => op[t] \in 1..Len(req[t].ops)
  BY DEF Typed, HasRequest
<1>3. MaxOps \in Nat
  BY RequestAssumption
<1> QED BY <1>1, <1>2, <1>3, RequestParts DEF CurrentOp, RowId

LEMMA ViewType ==
  ASSUME TypeOK, NEW t \in Txn
  PROVE  /\ View(t) \in [RowId -> Row \cup {NULL}]
         /\ \A r \in RowId : View(t)[r] = IF pend[t][r] # NULL THEN pend[t][r] ELSE table[r]
BY DEF TypeOK, View

LEMMA NextOpType ==
  ASSUME Typed, NEW t \in Txn, pc[t] \in Applying, NextOp(t)
  PROVE  /\ op' \in [Txn -> Nat]
         /\ pc' \in [Txn -> {"idle"} \cup Active \cup Ended]
         /\ req' = req => HasRequest'
<1>1. /\ pc[t] # "idle" /\ op[t] \in 1..Len(req[t].ops) /\ Len(req[t].ops) \in Nat
  BY CurrentParts DEF Applying
<1>2. op' \in [Txn -> Nat] /\ pc' \in [Txn -> {"idle"} \cup Active \cup Ended]
  <2>1. CASE op[t] < Len(req[t].ops)
    BY <1>1, <2>1 DEF Typed, TypeOK, NextOp, Goto, Applying, Statement, Active
  <2>2. CASE ~(op[t] < Len(req[t].ops))
    BY <1>1, <2>2 DEF Typed, TypeOK, NextOp, Goto, Active
  <2> QED BY <2>1, <2>2
<1>3. ASSUME req' = req PROVE HasRequest'
  BY <1>1, <1>2, <1>3 DEF Typed, TypeOK, HasRequest, NextOp, Goto, Applying, Preparing
<1> QED BY <1>2, <1>3

LEMMA InitTyped == Init => Typed
<1> SUFFICES ASSUME Init PROVE Typed
  OBVIOUS
<1>1. TypeOK
  BY RequestAssumption DEF Init, TypeOK, NoRows, RowId
<1>2. HasRequest
  BY DEF Init, HasRequest, Preparing, Applying
<1>3. TargetsSeen
  BY DEF Init, TargetsSeen
<1> QED BY <1>1, <1>2, <1>3 DEF Typed

LEMMA ForgetType ==
  ASSUME Typed, NEW t \in Txn, Forget(t), req' = req,
         NEW end \in Ended, pc' = [pc EXCEPT ![t] = end], pc[t] # "idle"
  PROVE  /\ pend' \in [Txn -> [RowId -> Row \cup {NULL}]]
         /\ claims' \in [Txn -> SUBSET Key]
         /\ op' \in [Txn -> Nat]
         /\ missing' \in [Txn -> SUBSET Key]
         /\ todo' \in [Txn -> SUBSET RowId]
         /\ updated' \in [Txn -> BOOLEAN]
         /\ pc' \in [Txn -> {"idle"} \cup Active \cup Ended]
         /\ HasRequest'
<1>1. NoRows \in [RowId -> Row \cup {NULL}]
  BY DEF NoRows
<1>2. HasRequest'
  BY DEF Typed, TypeOK, HasRequest, Forget, Ended, Committed, Preparing, Applying
<1> QED BY <1>1, <1>2 DEF Typed, TypeOK, Forget

LEMMA NextTyped == Typed /\ [Next]_vars => TypeOK' /\ HasRequest'
<1> SUFFICES ASSUME Typed, [Next]_vars PROVE TypeOK' /\ HasRequest'
  OBVIOUS
<1>1. TypeOK /\ HasRequest /\ TargetsSeen
  BY DEF Typed
<1>2. CASE UNCHANGED vars
  BY <1>1, <1>2 DEF vars, registryVars, rowVars, Typed, TypeOK, HasRequest
<1>3. ASSUME NEW t \in Txn, NEW q \in Request, Begin(t, q) PROVE TypeOK' /\ HasRequest'
  BY <1>1, <1>3 DEF Begin, Goto, registryVars, rowVars, Typed, TypeOK, HasRequest,
     Preparing, Applying, Statement, Active
<1>4. ASSUME NEW t \in Txn, EnsureResource(t) PROVE TypeOK' /\ HasRequest'
  <2>1. req[t].names \subseteq Key
    BY <1>4, CurrentParts DEF EnsureResource
  <2> QED BY <1>1, <1>4, <2>1 DEF EnsureResource, Goto, rowVars, Typed, TypeOK, HasRequest,
         Preparing, Applying, Statement, Active
<1>5. ASSUME NEW t \in Txn, NEW n \in Key, CreateName(t, n) PROVE TypeOK' /\ HasRequest'
  <2>1. CASE n \in known
    BY <1>1, <1>5, <2>1 DEF CreateName, Goto, rowVars, Typed, TypeOK, HasRequest,
       Preparing, Applying, Statement, Active
  <2>2. CASE n \notin known
    <3>1. /\ claims[t] \cup {n} \in SUBSET Key
          /\ missing[t] \ {n} \in SUBSET Key
      BY <1>1 DEF TypeOK
    <3>2. TypeOK'
      BY <1>1, <1>5, <2>2, <3>1 DEF CreateName, rowVars, TypeOK
    <3> QED BY <1>1, <1>5, <2>2, <3>2 DEF CreateName, HasRequest
  <2> QED BY <2>1, <2>2
<1>6. ASSUME NEW t \in Txn, CreateResource(t) PROVE TypeOK' /\ HasRequest'
  <2>1. req[t].resource \in Key
    BY <1>6, CurrentParts DEF CreateResource
  <2> QED BY <1>1, <1>6, <2>1 DEF CreateResource, Goto, rowVars, Typed, TypeOK, HasRequest,
         Preparing, Applying, Statement, Active
<1>7. ASSUME NEW t \in Txn, GetResourceID(t) PROVE TypeOK' /\ HasRequest'
  <2>1. req[t] \in Request /\ Len(req[t].ops) \in Nat /\ req[t].ops \in Seq(Op)
    BY <1>7, CurrentParts, RequestParts DEF GetResourceID
  <2>2. req[t].ops # <<>> => 1 \in 1..Len(req[t].ops)
    BY <2>1
  <2> QED BY <1>1, <1>7, <2>2 DEF GetResourceID, Goto, registryVars, rowVars, Typed, TypeOK,
         HasRequest, Preparing, Applying, Statement, Active
<1>8. ASSUME NEW t \in Txn, StartUpdate(t) PROVE TypeOK' /\ HasRequest'
  <2>1. Targets(t) \subseteq RowId
    BY DEF Targets
  <2> QED BY <1>1, <1>8, <2>1 DEF StartUpdate, Goto, registryVars, Typed, TypeOK,
         HasRequest, Preparing, Applying, Statement, Active
<1>9. ASSUME NEW t \in Txn, NEW r \in RowId, UpdateRow(t, r) PROVE TypeOK' /\ HasRequest'
  <2>1. req[t].time \in Time /\ CurrentOp(t) \in Op
    BY <1>9, CurrentParts DEF UpdateRow, Applying
  <2>2. View(t)[r] \in Row
    BY <1>1, <1>9, ViewType DEF UpdateRow, TargetsSeen
  <2>3. ASSUME IsTarget(View(t)[r], CurrentOp(t), req[t].time)
        PROVE  Updated(View(t)[r], CurrentOp(t), req[t].time) \in Row
    BY <2>1, <2>2, <2>3, UpdatedRow
  <2>4. pend' \in [Txn -> [RowId -> Row \cup {NULL}]] /\ updated' \in [Txn -> BOOLEAN]
    <3>1. CASE IsTarget(View(t)[r], CurrentOp(t), req[t].time)
      <4>1. /\ pend' = [pend EXCEPT ![t][r] = Updated(View(t)[r], CurrentOp(t), req[t].time)]
            /\ updated' = [updated EXCEPT ![t] = TRUE]
        BY <1>9, <3>1 DEF UpdateRow
      <4>2. Updated(View(t)[r], CurrentOp(t), req[t].time) \in Row
        BY <2>3, <3>1
      <4>3. pend' \in [Txn -> [RowId -> Row \cup {NULL}]]
        BY <1>1, <4>1, <4>2 DEF TypeOK
      <4>4. updated' \in [Txn -> BOOLEAN]
        BY <1>1, <4>1 DEF TypeOK
      <4> QED BY <4>3, <4>4
    <3>2. CASE ~IsTarget(View(t)[r], CurrentOp(t), req[t].time)
      BY <1>1, <1>9, <3>2 DEF UpdateRow, TypeOK
    <3> QED BY <3>1, <3>2
  <2> QED BY <1>1, <1>9, <2>4 DEF UpdateRow, registryVars, TypeOK, HasRequest
<1>10. ASSUME NEW t \in Txn, EndUpdate(t) PROVE TypeOK' /\ HasRequest'
  BY <1>1, <1>10, NextOpType DEF EndUpdate, Goto, registryVars, rowVars, Typed, TypeOK,
     HasRequest, Preparing, Applying, Statement, Active
<1>11. ASSUME NEW t \in Txn, InsertRow(t) PROVE TypeOK' /\ HasRequest'
  <2>1. req[t].time \in Time /\ CurrentOp(t) \in Op /\ <<t, op[t]>> \in RowId
    BY <1>11, CurrentParts DEF InsertRow, Applying
  <2>2. NewRow(CurrentOp(t), req[t].time) \in Row
    BY <2>1, NewRowRecords
  <2>3. pend' \in [Txn -> [RowId -> Row \cup {NULL}]]
    BY <1>1, <1>11, <2>1, <2>2 DEF InsertRow, TypeOK
  <2> QED BY <1>1, <1>11, <2>3, NextOpType DEF InsertRow, registryVars, Typed, TypeOK, Applying
<1>12. ASSUME NEW t \in Txn, Commit(t) PROVE TypeOK' /\ HasRequest'
  BY <1>1, <1>12, ForgetType, ViewType DEF Commit, Goto, Typed, TypeOK, Ended
<1>13. ASSUME NEW t \in Txn, Rollback(t) PROVE TypeOK' /\ HasRequest'
  BY <1>1, <1>13, ForgetType DEF Rollback, Goto, Typed, TypeOK, Ended
<1>14. ASSUME NEW t \in Txn, ServerAborts(t) PROVE TypeOK' /\ HasRequest'
  BY <1>1, <1>14, ForgetType DEF ServerAborts, Goto, Typed, TypeOK, Ended
<1>15. ASSUME NEW t \in Txn, StatementFails(t) PROVE TypeOK' /\ HasRequest'
  BY <1>1, <1>15 DEF StatementFails, Goto, registryVars, rowVars, Typed, TypeOK, HasRequest,
     Preparing, Applying, Statement, Active
<1>16. ASSUME NEW t \in Txn, LoseConnection(t) PROVE TypeOK' /\ HasRequest'
  BY <1>1, <1>16 DEF LoseConnection, Goto, registryVars, rowVars, Typed, TypeOK, HasRequest,
     Preparing, Applying, Statement, Active
<1> QED
  BY <1>2, <1>3, <1>4, <1>5, <1>6, <1>7, <1>8, <1>9, <1>10, <1>11, <1>12, <1>13, <1>14,
     <1>15, <1>16 DEF Next, Step, Proceed

\* What a transaction sees stays there until the server forgets it.
LEMMA ViewStays ==
  ASSUME NEW t \in Txn, NEW r \in RowId, View(t)[r] # NULL,
         table[r] # NULL => table'[r] # NULL,
         pend[t][r] # NULL => pend'[t][r] # NULL
  PROVE  View(t)'[r] # NULL
BY DEF View

LEMMA NextTargetsSeen == Typed /\ [Next]_vars => TargetsSeen'
<1> SUFFICES ASSUME Typed, [Next]_vars, NEW t \in Txn, NEW r \in RowId, r \in todo'[t]
             PROVE  View(t)'[r] # NULL
  BY DEF TargetsSeen
<1>1. TypeOK /\ HasRequest /\ TargetsSeen /\ (TypeOK /\ HasRequest)'
  BY NextTyped DEF Typed
<1>2. ASSUME UNCHANGED <<table, pend, todo>> PROVE View(t)'[r] # NULL
  BY <1>1, <1>2, ViewStays DEF TargetsSeen
<1>3. ASSUME NEW u \in Txn, Forget(u), \/ UNCHANGED table
                                       \/ table' = View(u)
      PROVE  View(t)'[r] # NULL
  <2>1. t # u /\ r \in todo[t] /\ pend'[t] = pend[t]
    BY <1>1, <1>3 DEF Forget, TypeOK
  <2>2. table[r] # NULL => table'[r] # NULL
    BY <1>1, <1>3, ViewType
  <2> QED BY <1>1, <2>1, <2>2, ViewStays DEF TargetsSeen
<1>4. ASSUME NEW u \in Txn, StartUpdate(u) PROVE View(t)'[r] # NULL
  <2>1. r \in todo[t] \/ (t = u /\ r \in Targets(u))
    BY <1>1, <1>4 DEF StartUpdate, TypeOK
  <2>2. View(t)[r] # NULL
    BY <1>1, <2>1 DEF Targets, TargetsSeen
  <2> QED BY <1>4, <2>2, ViewStays DEF StartUpdate
<1>5. ASSUME NEW u \in Txn, NEW s \in RowId, UpdateRow(u, s) PROVE View(t)'[r] # NULL
  <2>1. r \in todo[t]
    BY <1>1, <1>5 DEF UpdateRow, TypeOK
  <2>2. table' = table /\ (pend' = pend \/ pend'[u][s] # NULL)
    <3>1. pend' = pend \/ pend' = [pend EXCEPT ![u][s] =
                                     Updated(View(u)[s], CurrentOp(u), req[u].time)]
      BY <1>5 DEF UpdateRow
    <3>2. pend' # pend => pend'[u][s] = Updated(View(u)[s], CurrentOp(u), req[u].time)
      BY <1>1, <3>1 DEF TypeOK
    <3>3. pend' # pend => Updated(View(u)[s], CurrentOp(u), req[u].time) \in Row
      <4>1. u \in Txn /\ req[u].time \in Time /\ CurrentOp(u) \in Op
        BY <1>5, CurrentParts DEF UpdateRow, Applying
      <4>2. View(u)[s] \in Row
        BY <1>1, <1>5, ViewType DEF UpdateRow, TargetsSeen
      <4>3. pend' # pend => IsTarget(View(u)[s], CurrentOp(u), req[u].time)
        BY <1>5 DEF UpdateRow
      <4> QED BY <4>1, <4>2, <4>3, UpdatedRow
    <3> QED BY <1>5, <3>2, <3>3, NullAssumption DEF UpdateRow
  <2>3. pend[t][r] # NULL => pend'[t][r] # NULL
    <3>1. pend'[t][r] = pend[t][r] \/ (t = u /\ r = s)
      BY <1>1, <1>5 DEF UpdateRow, TypeOK
    <3> QED BY <2>2, <3>1
  <2> QED BY <1>1, <2>1, <2>2, <2>3, ViewStays DEF TargetsSeen
<1>6. ASSUME NEW u \in Txn, InsertRow(u) PROVE View(t)'[r] # NULL
  <2>1. <<u, op[u]>> \in RowId /\ NewRow(CurrentOp(u), req[u].time) \in Row
    BY <1>6, CurrentParts, NewRowRecords DEF InsertRow, Applying
  <2>2. pend[t][r] # NULL => pend'[t][r] # NULL
    BY <1>1, <1>6, <2>1, NullAssumption DEF InsertRow, TypeOK
  <2> QED BY <1>1, <1>6, <2>2, ViewStays DEF InsertRow, TargetsSeen
<1>7. CASE UNCHANGED vars
  BY <1>2, <1>7 DEF vars
<1>8. ASSUME NEW u \in Txn, NEW q \in Request, Begin(u, q) PROVE View(t)'[r] # NULL
  BY <1>2, <1>8 DEF Begin, rowVars
<1>9. ASSUME NEW u \in Txn, Proceed(u) PROVE View(t)'[r] # NULL
  BY <1>2, <1>3, <1>4, <1>5, <1>6, <1>9
     DEF Proceed, EnsureResource, CreateName, CreateResource, GetResourceID, EndUpdate,
         Commit, Rollback, ServerAborts, rowVars
<1>10. ASSUME NEW u \in Txn, StatementFails(u) \/ LoseConnection(u) PROVE View(t)'[r] # NULL
  BY <1>2, <1>10 DEF StatementFails, LoseConnection, rowVars
<1> QED BY <1>7, <1>8, <1>9, <1>10 DEF Next, Step

LEMMA TypedInvariant == Spec => []Typed
<1>1. Typed /\ [Next]_vars => Typed'
  BY NextTyped, NextTargetsSeen DEF Typed
<1> QED BY <1>1, InitTyped, PTL DEF Spec

\* Every reachable state is well typed, and a Store past its Begin holds a
\* request and an operation of it.
THEOREM TypeCorrect == Spec => []TypeOK
<1>1. Typed => TypeOK
  BY DEF Typed
<1> QED BY <1>1, TypedInvariant, PTL

-----------------------------------------------------------------------------
(***************************************************************************)
(* Locks and pending rows.                                                 *)
(***************************************************************************)
Sound == Typed /\ OneWriter /\ PendTouches /\ RowsAreOwned

LEMMA InitSound == Init => Sound
<1> SUFFICES ASSUME Init PROVE Sound
  OBVIOUS
<1>1. \A t \in Txn, r \in RowId : pend[t][r] = NULL /\ table[r] = NULL
  BY DEF Init, NoRows
<1>2. \A t \in Txn, i \in 1..MaxOps : <<t, i>> \in RowId
  BY DEF RowId
<1> QED BY <1>1, <1>2, InitTyped DEF Sound, OneWriter, PendTouches, RowsAreOwned

\* A statement that writes no row: only the label, the request or the operation
\* of one transaction change.
LEMMA QuietSound ==
  ASSUME Sound, NEW u \in Txn, UNCHANGED <<table, pend>>,
         NEW label, pc' = [pc EXCEPT ![u] = label], label # "idle",
         pc[u] \notin Ended \cup {"orphan"},
         req' = req \/ (pc[u] = "idle" /\ \A t \in Txn \ {u} : req'[t] = req[t]),
         op' = op \/ op' = [op EXCEPT ![u] = @ + 1],
         label \in Statement => pc[u] \in Statement \cup {"idle"},
         label \notin Statement => label \in Active
  PROVE  OneWriter' /\ PendTouches' /\ RowsAreOwned'
<1>1. TypeOK /\ OneWriter /\ PendTouches /\ RowsAreOwned
  BY DEF Sound, Typed
<1>2. OneWriter'
  BY <1>1 DEF OneWriter
<1>3. PendTouches'
  BY <1>1 DEF PendTouches, TypeOK
<1>4. \A t \in Txn : pc[t] \in Committed => pc'[t] \in Committed
  BY <1>1 DEF TypeOK, Ended
<1>5. \A t \in Txn, i \in 1..MaxOps :
        pend[t][<<t, i>>] # NULL => i < op'[t] \/ pc'[t] \in Active \ Statement
  BY <1>1 DEF TypeOK, RowsAreOwned, Active, Statement, Preparing, Applying
<1>6. RowsAreOwned'
  BY <1>1, <1>4, <1>5 DEF RowsAreOwned
<1> QED BY <1>2, <1>3, <1>6

LEMMA UpdateRowSound ==
  ASSUME Sound, NEW u \in Txn, NEW s \in RowId, UpdateRow(u, s)
  PROVE  OneWriter' /\ PendTouches' /\ RowsAreOwned'
<1>1. /\ TypeOK /\ OneWriter /\ PendTouches /\ RowsAreOwned /\ TargetsSeen
      /\ pc[u] = "scan" /\ table' = table /\ pc' = pc /\ req' = req /\ op' = op
  BY DEF Sound, Typed, UpdateRow
<1> DEFINE old == View(u)[s]
           new == Updated(old, CurrentOp(u), req[u].time)
<1>2. CASE pend' = pend
  BY <1>1, <1>2 DEF OneWriter, PendTouches, RowsAreOwned
<1>3. CASE pend' # pend
  <2>1. IsTarget(old, CurrentOp(u), req[u].time) /\ pend' = [pend EXCEPT ![u][s] = new]
    BY <1>3 DEF UpdateRow
  <2>2. /\ req[u] \in Request /\ req[u].time \in Time /\ CurrentOp(u) \in Op
        /\ op[u] \in 1..Len(req[u].ops)
    BY <1>1, CurrentParts DEF Sound, Applying
  <2>3. old \in Row
    BY <1>1, ViewType DEF UpdateRow, TargetsSeen
  <2>4. /\ new \in Row /\ Extends(old, new) /\ new.subject = CurrentOp(u).subject
        /\ old.subject = new.subject
        /\ Records(new, CurrentOp(u), req[u].time)
        /\ \/ CurrentOp(u).kind = "ADDED" /\ new.not_after = old.not_after
           \/ CurrentOp(u).kind = "DELETED" /\ new.not_before = old.not_before
    BY <2>1, <2>2, <2>3, UpdatedRow
  <2>5. /\ pend'[u][s] = new
        /\ \A t \in Txn, r \in RowId : t # u \/ r # s => pend'[t][r] = pend[t][r]
    BY <1>1, <2>1 DEF TypeOK
  <2>6. OneWriter'
    BY <1>1, <2>5 DEF OneWriter, UpdateRow, HeldByOther
  <2>7. Touched(table[s], new, req[u])
    <3>1. \E i \in DOMAIN req[u].ops : CurrentOp(u) = req[u].ops[i]
      BY <2>2, RequestParts DEF CurrentOp
    <3>2. CASE pend[u][s] = NULL
      <4>1. old = table[s] /\ old # NULL
        BY <1>1, <3>2, ViewType DEF UpdateRow, TargetsSeen
      <4> HIDE DEF old, new
      <4> QED BY <2>4, <3>1, <4>1 DEF Touched
    <3>3. CASE pend[u][s] # NULL
      <4>1. old = pend[u][s] /\ Touched(table[s], old, req[u])
        BY <1>1, <3>3, ViewType DEF PendTouches
      <4> HIDE DEF old, new
      <4>2. \E i \in DOMAIN req[u].ops : new.subject = req[u].ops[i].subject
        BY <2>4, <3>1
      <4>3. table[s] # NULL => Extends(table[s], new)
        BY <2>4, <4>1 DEF Touched, Extends
      <4>4. CASE CurrentOp(u).kind = "ADDED" /\ new.not_after = old.not_after
        BY <2>4, <3>1, <4>1, <4>2, <4>3, <4>4 DEF Touched, Records
      <4>5. CASE CurrentOp(u).kind = "DELETED" /\ new.not_before = old.not_before
        BY <2>4, <3>1, <4>1, <4>2, <4>3, <4>5 DEF Touched, Records
      <4> QED BY <2>4, <4>4, <4>5
    <3> QED BY <3>2, <3>3
  <2>8. PendTouches'
    BY <1>1, <2>5, <2>7 DEF PendTouches
  <2>9. RowsAreOwned'
    <3>1. \A t \in Txn, i \in 1..MaxOps : s = <<t, i>> =>
            IF t = u THEN pend[u][s] # NULL ELSE pc[t] \in Committed
      <4>1. table[s] # NULL \/ pend[u][s] # NULL
        BY <1>1, ViewType DEF UpdateRow, TargetsSeen
      <4> QED BY <1>1, <4>1 DEF RowsAreOwned, Committed
    <3>2. \A t, v \in Txn, i \in 1..MaxOps :
            pend'[v][<<t, i>>] # NULL => \/ pend[v][<<t, i>>] # NULL
                                         \/ t # v /\ pc[t] \in Committed
      BY <2>5, <3>1 DEF RowId
    <3> QED BY <1>1, <3>2 DEF RowsAreOwned, Committed
  <2> QED BY <2>6, <2>8, <2>9
<1> QED BY <1>2, <1>3

\* The row that an INSERT writes is nobody's yet.
LEMMA InsertRowFresh ==
  ASSUME Sound, NEW u \in Txn, pc[u] = "insert"
  PROVE  /\ <<u, op[u]>> \in RowId
         /\ table[<<u, op[u]>>] = NULL
         /\ \A t \in Txn : pend[t][<<u, op[u]>>] = NULL
<1>1. op[u] \in 1..Len(req[u].ops) /\ <<u, op[u]>> \in RowId /\ op[u] \in 1..MaxOps
  BY CurrentParts DEF Sound, Applying, RowId
<1>2. RowsAreOwned
  BY DEF Sound
<1> QED BY <1>1, <1>2 DEF RowsAreOwned, Committed, Active, Statement, Applying

LEMMA InsertRowSound ==
  ASSUME Sound, NEW u \in Txn, InsertRow(u)
  PROVE  OneWriter' /\ PendTouches' /\ RowsAreOwned'
<1> DEFINE r0 == <<u, op[u]>>
           new == NewRow(CurrentOp(u), req[u].time)
<1>1. /\ TypeOK /\ OneWriter /\ PendTouches /\ RowsAreOwned
      /\ pc[u] = "insert" /\ table' = table /\ req' = req
  BY DEF Sound, Typed, InsertRow
<1>2. /\ req[u] \in Request /\ req[u].time \in Time /\ CurrentOp(u) \in Op
      /\ op[u] \in 1..Len(req[u].ops)
  BY <1>1, CurrentParts DEF Sound, Applying
<1>3. /\ \A t \in Txn, r \in RowId : t # u \/ r # r0 => pend'[t][r] = pend[t][r]
      /\ pend'[u][r0] # NULL => pend'[u][r0] = new
  BY <1>1, InsertRowFresh DEF InsertRow, TypeOK
<1>4. OneWriter'
  BY <1>1, <1>3, InsertRowFresh DEF OneWriter
<1>5. Touched(table[r0], new, req[u])
  BY <1>1, <1>2, InsertRowFresh, NewRowRecords, RequestParts DEF Touched, CurrentOp
<1>6. \/ pc' = [pc EXCEPT ![u] = "update"] /\ op' = [op EXCEPT ![u] = @ + 1]
      \/ pc' = [pc EXCEPT ![u] = "commit"] /\ op' = op
  BY DEF InsertRow, NextOp, Goto
<1>7. /\ \A t \in Txn \ {u} : pc'[t] = pc[t] /\ op'[t] = op[t]
      /\ pc'[u] # "idle"
      /\ pc'[u] = "commit" \/ op'[u] = op[u] + 1
  BY <1>1, <1>6 DEF TypeOK
<1>8. PendTouches'
  BY <1>1, <1>3, <1>5, <1>7 DEF PendTouches
<1>9. RowsAreOwned'
  <2>1. \A t \in Txn, i \in 1..MaxOps : table'[<<t, i>>] # NULL => pc'[t] \in Committed
    BY <1>1, <1>7 DEF RowsAreOwned, Committed
  <2>2. \A t \in Txn, i \in 1..MaxOps :
          pend'[t][<<t, i>>] # NULL => i < op'[t] \/ pc'[t] \in Active \ Statement
    <3> SUFFICES ASSUME NEW t \in Txn, NEW i \in 1..MaxOps, pend'[t][<<t, i>>] # NULL
                 PROVE  i < op'[t] \/ pc'[t] \in Active \ Statement
      OBVIOUS
    <3>1. CASE t # u
      BY <1>1, <1>3, <1>7, <3>1 DEF RowsAreOwned, RowId
    <3>2. CASE t = u
      <4>1. i = op[u] \/ i < op[u]
        BY <1>1, <1>3, <3>2 DEF RowsAreOwned, RowId, Active, Statement, Applying
      <4> QED BY <1>2, <1>7, <3>2, <4>1 DEF Active, Statement, Preparing, Applying
    <3> QED BY <3>1, <3>2
  <2>3. \A t \in Txn, i \in 1..MaxOps : \A v \in Txn \ {t} :
          pend'[v][<<t, i>>] # NULL => pc'[t] \in Committed
    BY <1>1, <1>3, <1>7 DEF RowsAreOwned, RowId, Committed
  <2> QED BY <2>1, <2>2, <2>3 DEF RowsAreOwned
<1> QED BY <1>4, <1>8, <1>9

\* A transaction ends and its locks go, with its rows committed or not.
LEMMA ForgetSound ==
  ASSUME Sound, NEW u \in Txn, Forget(u), req' = req,
         NEW end \in Ended, pc' = [pc EXCEPT ![u] = end],
         pc[u] \in {"commit", "rollback", "orphan"},
         \/ table' = table
         \/ table' = View(u) /\ end \in Committed
  PROVE  OneWriter' /\ PendTouches' /\ RowsAreOwned'
<1>1. TypeOK /\ OneWriter /\ PendTouches /\ RowsAreOwned
  BY DEF Sound, Typed
<1>2. /\ \A t \in Txn \ {u} : pend'[t] = pend[t] /\ pc'[t] = pc[t] /\ op'[t] = op[t]
      /\ \A r \in RowId : pend'[u][r] = NULL
      /\ pc'[u] = end
  BY <1>1 DEF Forget, TypeOK, NoRows
<1>3. \A t \in Txn \ {u}, r \in RowId : pend[t][r] # NULL => table'[r] = table[r]
  BY <1>1, ViewType DEF OneWriter
<1>4. OneWriter'
  BY <1>1, <1>2 DEF OneWriter
<1>5. PendTouches'
  BY <1>1, <1>2, <1>3 DEF PendTouches
<1>6. \A t \in Txn, i \in 1..MaxOps : table'[<<t, i>>] # NULL => pc'[t] \in Committed
  <2> SUFFICES ASSUME NEW t \in Txn, NEW i \in 1..MaxOps, table'[<<t, i>>] # NULL
               PROVE  pc'[t] \in Committed
    OBVIOUS
  <2>1. <<t, i>> \in RowId
    BY DEF RowId
  <2>2. CASE table' = table
    <3>1. pc[t] \in Committed
      BY <1>1, <2>2 DEF RowsAreOwned
    <3> QED BY <1>2, <3>1 DEF Committed
  <2>3. CASE table' = View(u) /\ end \in Committed
    <3>1. table[<<t, i>>] # NULL \/ pend[u][<<t, i>>] # NULL
      BY <1>1, <2>1, <2>3, ViewType
    <3>2. t = u \/ pc[t] \in Committed
      BY <1>1, <3>1 DEF RowsAreOwned
    <3> QED BY <1>2, <2>3, <3>2
  <2> QED BY <2>2, <2>3
<1>7. \A t, v \in Txn, i \in 1..MaxOps :
        pend'[v][<<t, i>>] # NULL => v # u /\ pend[v][<<t, i>>] # NULL
  BY <1>2 DEF RowId
<1>8. \A t \in Txn : pc[t] \in Committed => pc'[t] \in Committed
  BY <1>2 DEF Committed
<1>9. RowsAreOwned'
  BY <1>1, <1>2, <1>6, <1>7, <1>8 DEF RowsAreOwned
<1> QED BY <1>4, <1>5, <1>9

LEMMA NextSound == Sound /\ [Next]_vars => Sound'
<1> SUFFICES ASSUME Sound, [Next]_vars PROVE OneWriter' /\ PendTouches' /\ RowsAreOwned'
  BY NextTyped, NextTargetsSeen DEF Sound, Typed
<1> DEFINE Goal == OneWriter' /\ PendTouches' /\ RowsAreOwned'
<1> USE DEF Goto
<1>1. ASSUME NEW u \in Txn, NEW q \in Request, Begin(u, q) PROVE Goal
  <2>1. \A t \in Txn \ {u} : req'[t] = req[t]
    BY <1>1 DEF Begin, Sound, Typed, TypeOK
  <2> QED BY <1>1, <2>1, QuietSound
          DEF Begin, rowVars, Ended, Committed, Active, Statement, Preparing
<1>2. ASSUME NEW u \in Txn, EnsureResource(u) PROVE Goal
  BY <1>2, QuietSound
     DEF EnsureResource, rowVars, Ended, Committed, Active, Statement, Preparing
<1>3. ASSUME NEW u \in Txn, NEW n \in Key, CreateName(u, n) PROVE Goal
  <2>1. CASE n \in known
    BY <1>3, <2>1, QuietSound
       DEF CreateName, rowVars, Ended, Committed, Active, Statement, Preparing, Applying
  <2>2. CASE n \notin known
    BY <1>3, <2>2 DEF CreateName, rowVars, Sound, OneWriter, PendTouches, RowsAreOwned
  <2> QED BY <2>1, <2>2
<1>4. ASSUME NEW u \in Txn, CreateResource(u) PROVE Goal
  BY <1>4, QuietSound
     DEF CreateResource, rowVars, Ended, Committed, Active, Statement, Preparing
<1>5. ASSUME NEW u \in Txn, GetResourceID(u) PROVE Goal
  <2>1. \E label \in {"commit", "update", "rollback"} : pc' = [pc EXCEPT ![u] = label]
    BY <1>5 DEF GetResourceID
  <2> QED BY <1>5, <2>1, QuietSound
          DEF GetResourceID, rowVars, Ended, Committed, Active, Statement, Preparing, Applying
<1>6. ASSUME NEW u \in Txn, StartUpdate(u) PROVE Goal
  BY <1>6, QuietSound
     DEF StartUpdate, Ended, Committed, Active, Statement, Preparing, Applying
<1>7. ASSUME NEW u \in Txn, EndUpdate(u) PROVE Goal
  <2>1. \E label \in {"commit", "update", "insert"} : pc' = [pc EXCEPT ![u] = label]
    BY <1>7 DEF EndUpdate, NextOp
  <2>2. op' = op \/ op' = [op EXCEPT ![u] = @ + 1]
    BY <1>7 DEF EndUpdate, NextOp
  <2> QED BY <1>7, <2>1, <2>2, QuietSound
          DEF EndUpdate, rowVars, Ended, Committed, Active, Statement, Preparing, Applying
<1>8. ASSUME NEW u \in Txn, StatementFails(u) PROVE Goal
  BY <1>8, QuietSound
     DEF StatementFails, rowVars, Ended, Committed, Active, Statement, Preparing, Applying
<1>9. ASSUME NEW u \in Txn, LoseConnection(u) PROVE Goal
  BY <1>9, QuietSound
     DEF LoseConnection, rowVars, Ended, Committed, Active, Statement, Preparing, Applying
<1>10. ASSUME NEW u \in Txn, Commit(u) PROVE Goal
  <2>1. PICK end \in Committed : pc' = [pc EXCEPT ![u] = end]
    BY <1>10 DEF Commit
  <2> QED BY <1>10, <2>1, ForgetSound DEF Commit, Ended
<1>11. ASSUME NEW u \in Txn, Rollback(u) \/ ServerAborts(u) PROVE Goal
  BY <1>11, ForgetSound DEF Rollback, ServerAborts, Ended
<1>12. ASSUME UNCHANGED vars PROVE Goal
  BY <1>12 DEF vars, Sound, OneWriter, PendTouches, RowsAreOwned
<1>13. ASSUME NEW u \in Txn, Proceed(u) PROVE Goal
  <2> HIDE DEF Goal
  <2>1. ASSUME NEW s \in RowId, UpdateRow(u, s) PROVE Goal
    BY <2>1, UpdateRowSound DEF Goal
  <2>2. ASSUME InsertRow(u) PROVE Goal
    BY <2>2, InsertRowSound DEF Goal
  <2> QED BY <1>2, <1>3, <1>4, <1>5, <1>6, <1>7, <1>10, <1>11, <1>13, <2>1, <2>2 DEF Proceed
<1> HIDE DEF Goal
<1>14. Goal
  BY <1>1, <1>8, <1>9, <1>12, <1>13 DEF Next, Step
<1> QED BY <1>14 DEF Goal

LEMMA SoundInvariant == Spec => []Sound
BY InitSound, NextSound, PTL DEF Spec

-----------------------------------------------------------------------------
(***************************************************************************)
(* The history only grows.                                                 *)
(***************************************************************************)
\* Only a COMMIT changes committed rows.
LEMMA OnlyCommitWrites ==
  ASSUME [Next]_vars
  PROVE  table' = table \/ \E u \in Txn : Commit(u)
BY DEF Next, Step, Proceed, Begin, EnsureResource, CreateName, CreateResource, GetResourceID,
   StartUpdate, UpdateRow, EndUpdate, InsertRow, Rollback, ServerAborts, StatementFails,
   LoseConnection, registryVars, rowVars, vars

LEMMA CommitExtends ==
  ASSUME Sound, NEW u \in Txn, Commit(u), NEW r \in RowId
  PROVE  /\ table[r] # NULL => table'[r] # NULL /\ Extends(table[r], table'[r])
         /\ table'[r] # table[r] => table'[r] # NULL /\ Touched(table[r], table'[r], req[u])
<1>1. table'[r] = IF pend[u][r] # NULL THEN pend[u][r] ELSE table[r]
  BY ViewType DEF Commit, Sound, Typed
<1>2. CASE pend[u][r] # NULL
  <2>1. table'[r] # NULL /\ Touched(table[r], table'[r], req[u])
    BY <1>1, <1>2 DEF Sound, PendTouches
  <2> QED BY <2>1 DEF Touched
<1>3. CASE pend[u][r] = NULL
  BY <1>1, <1>3, ExtendsRefl
<1> QED BY <1>2, <1>3

\* Whatever statements interleave, fail or wait, no committed row disappears
\* and no start or end of one is overwritten (the WHERE clauses of the UPDATEs,
\* tested again under the row lock).
THEOREM HistoryGrows == Spec => HistoryOnlyGrows
<1> DEFINE Grows == \A r \in RowId : table[r] # NULL =>
                      table'[r] # NULL /\ Extends(table[r], table'[r])
<1>1. ASSUME Sound, [Next]_vars PROVE [Grows]_vars
  <2>1. CASE table' = table
    BY <2>1, ExtendsRefl
  <2>2. ASSUME NEW u \in Txn, Commit(u) PROVE Grows
    BY <1>1, <2>2, CommitExtends
  <2> QED BY <1>1, <2>1, <2>2, OnlyCommitWrites
<1> QED BY <1>1, SoundInvariant, PTL DEF Spec, HistoryOnlyGrows

-----------------------------------------------------------------------------
(***************************************************************************)
(* No event is lost.                                                       *)
(***************************************************************************)
ViewGrows(t) ==
  \A r \in RowId : View(t)[r] # NULL =>
    View(t)'[r] # NULL /\ Extends(View(t)[r], View(t)'[r])

\* A step of u leaves the state of every other transaction alone.
LEMMA OthersUnchanged ==
  ASSUME TypeOK, NEW u \in Txn, Step(u), NEW t \in Txn \ {u}
  PROVE  /\ pc'[t] = pc[t] /\ op'[t] = op[t] /\ req'[t] = req[t]
         /\ updated'[t] = updated[t] /\ pend'[t] = pend[t]
<1> DEFINE Same == /\ pc'[t] = pc[t] /\ op'[t] = op[t] /\ req'[t] = req[t]
                   /\ updated'[t] = updated[t] /\ pend'[t] = pend[t]
<1> USE DEF TypeOK, Goto, registryVars, rowVars
<1>1. ASSUME NEW q \in Request, Begin(u, q) PROVE Same
  BY <1>1 DEF Begin
<1>2. ASSUME EnsureResource(u) \/ CreateResource(u) \/ GetResourceID(u) \/ StartUpdate(u)
      PROVE Same
  BY <1>2 DEF EnsureResource, CreateResource, GetResourceID, StartUpdate
<1>3. ASSUME NEW n \in Key, CreateName(u, n) PROVE Same
  BY <1>3 DEF CreateName
<1>4. ASSUME NEW s \in RowId, UpdateRow(u, s) PROVE Same
  BY <1>4 DEF UpdateRow
<1>5. ASSUME EndUpdate(u) PROVE Same
  BY <1>5 DEF EndUpdate, NextOp
<1>6. ASSUME InsertRow(u) PROVE Same
  BY <1>6 DEF InsertRow, NextOp
<1>7. ASSUME Commit(u) \/ Rollback(u) \/ ServerAborts(u) PROVE Same
  BY <1>7 DEF Commit, Rollback, ServerAborts, Forget
<1>8. ASSUME StatementFails(u) \/ LoseConnection(u) PROVE Same
  BY <1>8 DEF StatementFails, LoseConnection
<1> HIDE DEF Same
<1>9. Same
  BY <1>1, <1>2, <1>3, <1>4, <1>5, <1>6, <1>7, <1>8 DEF Step, Proceed
<1> QED BY <1>9 DEF Same

\* A step changes committed rows only by a COMMIT, which extends them.
LEMMA TableGrows ==
  ASSUME Sound, [Next]_vars, NEW r \in RowId, table[r] # NULL
  PROVE  table'[r] # NULL /\ Extends(table[r], table'[r])
BY OnlyCommitWrites, CommitExtends, ExtendsRefl

\* So that another transaction's view only grows.
LEMMA OthersViewGrows ==
  ASSUME Sound, [Next]_vars, NEW t \in Txn, pend'[t] = pend[t]
  PROVE  ViewGrows(t)
<1> SUFFICES ASSUME NEW r \in RowId, View(t)[r] # NULL
             PROVE  View(t)'[r] # NULL /\ Extends(View(t)[r], View(t)'[r])
  BY DEF ViewGrows
<1>1. CASE pend[t][r] # NULL
  <2>1. View(t)'[r] = View(t)[r]
    BY <1>1 DEF View
  <2> QED BY <2>1, ExtendsRefl
<1>2. CASE pend[t][r] = NULL
  <2>1. View(t)[r] = table[r] /\ View(t)'[r] = table'[r]
    BY <1>2 DEF View
  <2> QED BY <2>1, TableGrows
<1> QED BY <1>1, <1>2

\* What a transaction saw recorded stays recorded while its view grows.
LEMMA SeenKept ==
  ASSUME Typed, NEW t \in Txn, pc[t] # "idle", req'[t] = req[t],
         NEW i \in 1..Len(req[t].ops), ViewGrows(t), Seen(t, i)
  PROVE  Seen(t, i)'
<1>1. PICK r \in RowId : View(t)[r] # NULL /\ RecordedBy(t, i, View(t)[r])
  BY DEF Seen
<1>2. View(t)'[r] # NULL /\ Extends(View(t)[r], View(t)'[r])
  BY <1>1 DEF ViewGrows
<1>3. req[t].ops[i] \in Op /\ req[t].time \in Time
  BY CurrentParts, RequestParts
<1>4. RecordedBy(t, i, View(t)[r])'
  BY <1>1, <1>2, <1>3, RecordsKept, NullAssumption DEF RecordedBy
<1> QED BY <1>1, <1>2, <1>4 DEF Seen

LEMMA OthersApplied ==
  ASSUME Sound, [Next]_vars, NEW t \in Txn, AppliedIsSeen(t),
         pc'[t] = pc[t], op'[t] = op[t], req'[t] = req[t],
         updated'[t] = updated[t], pend'[t] = pend[t]
  PROVE  AppliedIsSeen(t)'
<1>1. ViewGrows(t)
  BY OthersViewGrows
<1>2. CASE pc[t] \in Applying
  <2>1. /\ pc[t] # "idle" /\ pc[t] # "commit" /\ op[t] \in 1..Len(req[t].ops)
        /\ Len(req[t].ops) \in Nat /\ Typed
    BY <1>2, CurrentParts DEF Sound, Applying
  <2>2. \A i \in 1..(op[t] - 1) : i \in 1..Len(req[t].ops) /\ Seen(t, i)
    BY <1>2, <2>1 DEF AppliedIsSeen
  <2>3. \A i \in 1..(op[t] - 1) : Seen(t, i)'
    BY <1>1, <2>1, <2>2, SeenKept
  <2>4. pc[t] = "scan" /\ updated[t] => Seen(t, op[t])'
    BY <1>1, <2>1, SeenKept DEF AppliedIsSeen
  <2> QED BY <2>1, <2>3, <2>4 DEF AppliedIsSeen
<1>3. CASE pc[t] = "commit"
  <2>1. pc[t] # "idle" /\ Typed
    BY <1>3 DEF Sound
  <2>2. \A i \in 1..Len(req[t].ops) : Seen(t, i)'
    BY <1>1, <1>3, <2>1, SeenKept DEF AppliedIsSeen
  <2> QED BY <1>3, <2>2 DEF AppliedIsSeen, Applying
<1>4. CASE pc[t] \notin Applying \cup {"commit"}
  BY <1>4 DEF AppliedIsSeen, Applying
<1> QED BY <1>2, <1>3, <1>4

\* The operation at hand is done: t goes on to the next, or to COMMIT.
LEMMA NextOpApplied ==
  ASSUME Typed, NEW t \in Txn, pc[t] \in Applying, NextOp(t), req' = req,
         \A i \in 1..op[t] : Seen(t, i)'
  PROVE  AppliedIsSeen(t)'
<1>1. op[t] \in 1..Len(req[t].ops) /\ Len(req[t].ops) \in Nat
  BY CurrentParts DEF Applying
<1>2. CASE op[t] < Len(req[t].ops)
  <2>1. pc'[t] = "update" /\ op'[t] = op[t] + 1
    BY <1>2 DEF NextOp, Goto, Typed, TypeOK
  <2> QED BY <1>1, <2>1 DEF AppliedIsSeen
<1>3. CASE ~(op[t] < Len(req[t].ops))
  <2>1. pc'[t] = "commit" /\ op[t] = Len(req'[t].ops)
    BY <1>1, <1>3 DEF NextOp, Goto, Typed, TypeOK
  <2> QED BY <2>1 DEF AppliedIsSeen, Applying
<1> QED BY <1>2, <1>3

LEMMA UpdateRowApplied ==
  ASSUME Sound, NEW u \in Txn, NEW s \in RowId, UpdateRow(u, s), AppliedIsSeen(u)
  PROVE  AppliedIsSeen(u)'
<1>1. /\ Typed /\ TypeOK /\ TargetsSeen /\ pc[u] = "scan" /\ pc' = pc /\ op' = op
      /\ req' = req /\ table' = table
      /\ op[u] \in 1..Len(req[u].ops) /\ Len(req[u].ops) \in Nat
      /\ req[u].time \in Time /\ CurrentOp(u) \in Op
  BY CurrentParts DEF Sound, Typed, UpdateRow, Applying
<1> DEFINE old == View(u)[s]
           new == Updated(old, CurrentOp(u), req[u].time)
<1>2. old \in Row
  BY <1>1, ViewType DEF UpdateRow, TargetsSeen
<1>3. CASE ~IsTarget(old, CurrentOp(u), req[u].time)
  <2>1. pend' = pend /\ updated' = updated
    BY <1>3 DEF UpdateRow
  <2> QED BY <1>1, <2>1 DEF AppliedIsSeen, Seen, View, RecordedBy
<1>4. CASE IsTarget(old, CurrentOp(u), req[u].time)
  <2>1. new \in Row /\ Extends(old, new) /\ Records(new, CurrentOp(u), req[u].time)
    BY <1>1, <1>2, <1>4, UpdatedRow
  <2>2. pend' = [pend EXCEPT ![u][s] = new]
    BY <1>4 DEF UpdateRow
  <2>3. View(u)'[s] = new /\ new # NULL
    BY <1>1, <2>1, <2>2, NullAssumption DEF View, TypeOK
  <2>4. \A r \in RowId \ {s} : View(u)'[r] = View(u)[r]
    BY <1>1, <2>2 DEF View, TypeOK
  <2>5. ViewGrows(u)
    <3> HIDE DEF new
    <3> QED BY <2>1, <2>3, <2>4, ExtendsRefl DEF ViewGrows
  <2>6. \A i \in 1..(op[u] - 1) : Seen(u, i)'
    <3>1. \A i \in 1..(op[u] - 1) : i \in 1..Len(req[u].ops) /\ Seen(u, i)
      BY <1>1 DEF AppliedIsSeen, Applying
    <3> QED BY <1>1, <2>5, <3>1, SeenKept
  <2>7. Seen(u, op[u])'
    <3>1. RecordedBy(u, op[u], View(u)[s])'
      BY <1>1, <2>1, <2>3 DEF RecordedBy, CurrentOp
    <3> QED BY <2>3, <3>1 DEF Seen
  <2> QED BY <1>1, <2>6, <2>7 DEF AppliedIsSeen
<1> QED BY <1>3, <1>4

LEMMA EndUpdateApplied ==
  ASSUME Sound, NEW u \in Txn, EndUpdate(u), AppliedIsSeen(u)
  PROVE  AppliedIsSeen(u)'
<1>1. /\ Typed /\ pc[u] = "scan" /\ req' = req /\ table' = table /\ pend' = pend
      /\ op[u] \in 1..Len(req[u].ops) /\ Len(req[u].ops) \in Nat
  BY CurrentParts DEF Sound, EndUpdate, Applying, rowVars
<1>2. \A i \in 1..(op[u] - 1) : Seen(u, i)
  BY <1>1 DEF AppliedIsSeen, Applying
<1>3. \A i \in 1..(op[u] - 1) : Seen(u, i)'
  BY <1>1, <1>2 DEF Seen, View, RecordedBy
<1>4. CASE updated[u]
  <2>1. Seen(u, op[u])
    BY <1>1, <1>4 DEF AppliedIsSeen
  <2>2. \A i \in 1..op[u] : i = op[u] \/ i \in 1..(op[u] - 1)
    BY <1>1
  <2>3. \A i \in 1..op[u] : Seen(u, i)
    BY <1>2, <2>1, <2>2
  <2>4. \A i \in 1..op[u] : Seen(u, i)'
    BY <1>1, <2>3 DEF Seen, View, RecordedBy
  <2> QED BY <1>1, <1>4, <2>4, NextOpApplied DEF EndUpdate, Applying
<1>5. CASE ~updated[u]
  <2>1. pc'[u] = "insert" /\ op' = op
    BY <1>1, <1>5 DEF EndUpdate, Goto, Typed, TypeOK
  <2> QED BY <1>3, <2>1 DEF AppliedIsSeen, Applying
<1> QED BY <1>4, <1>5

\* The INSERT leaves a row that records the operation, its own or the one that
\* the conflict clause found.
LEMMA InsertRowApplied ==
  ASSUME Sound, SlotsDistinct, NEW u \in Txn, InsertRow(u), AppliedIsSeen(u)
  PROVE  AppliedIsSeen(u)'
<1>1. /\ Typed /\ TypeOK /\ pc[u] = "insert" /\ req' = req /\ table' = table
      /\ op[u] \in 1..Len(req[u].ops) /\ Len(req[u].ops) \in Nat
      /\ req[u].time \in Time /\ CurrentOp(u) \in Op
  BY CurrentParts DEF Sound, Typed, InsertRow, Applying
<1> DEFINE new == NewRow(CurrentOp(u), req[u].time)
           r0  == <<u, op[u]>>
<1>2. new \in Row /\ Records(new, CurrentOp(u), req[u].time)
  BY <1>1, NewRowRecords
<1>3. r0 \in RowId /\ View(u)[r0] = NULL
  BY <1>1, InsertRowFresh, ViewType
<1>4. ViewGrows(u) /\ \E r \in RowId : View(u)'[r] # NULL
                        /\ Records(View(u)'[r], CurrentOp(u), req[u].time)
  <2>1. CASE ConflictsSeen(u, new) = {}
    <3>1. pend' = [pend EXCEPT ![u][r0] = new]
      BY <2>1 DEF InsertRow
    <3>2. View(u)'[r0] = new /\ new # NULL
      BY <1>1, <1>2, <1>3, <3>1, NullAssumption DEF View, TypeOK
    <3>3. \A r \in RowId \ {r0} : View(u)'[r] = View(u)[r]
      BY <1>1, <3>1 DEF View, TypeOK
    <3>4. ViewGrows(u)
      BY <1>3, <3>3, ExtendsRefl DEF ViewGrows
    <3> QED BY <1>2, <1>3, <3>2, <3>4
  <2>2. CASE ConflictsSeen(u, new) # {}
    <3>1. pend' = pend
      BY <2>2 DEF InsertRow
    <3>2. View(u)' = View(u)
      BY <1>1, <3>1 DEF View
    <3>3. PICK r \in RowId : View(u)[r] # NULL /\ Conflict(new, View(u)[r])
      BY <2>2 DEF ConflictsSeen
    <3>4. View(u)[r] \in Row
      BY <1>1, <3>3, ViewType
    <3>5. Records(View(u)[r], CurrentOp(u), req[u].time)
      BY <1>1, <3>3, <3>4, ConflictRecords, NullAssumption
    <3>6. ViewGrows(u)
      BY <3>2, ExtendsRefl DEF ViewGrows
    <3> QED BY <3>2, <3>3, <3>5, <3>6
  <2> QED BY <2>1, <2>2
<1>5. \A i \in 1..(op[u] - 1) : Seen(u, i)'
  <2>1. \A i \in 1..(op[u] - 1) : i \in 1..Len(req[u].ops) /\ Seen(u, i)
    BY <1>1 DEF AppliedIsSeen, Applying
  <2> QED BY <1>1, <1>4, <2>1, SeenKept
<1>6. \A i \in 1..op[u] : i = op[u] => Seen(u, i)'
  BY <1>1, <1>4 DEF Seen, RecordedBy, CurrentOp
<1>7. \A i \in 1..op[u] : Seen(u, i)'
  <2>1. \A i \in 1..op[u] : i = op[u] \/ i \in 1..(op[u] - 1)
    BY <1>1
  <2> QED BY <1>5, <1>6, <2>1
<1> QED BY <1>1, <1>7, NextOpApplied DEF InsertRow, Applying

LEMMA NextApplied ==
  ASSUME Sound, SlotsDistinct, AppliedAreSeen, [Next]_vars
  PROVE  AppliedAreSeen'
<1> SUFFICES ASSUME NEW t \in Txn PROVE AppliedIsSeen(t)'
  BY DEF AppliedAreSeen
<1>1. AppliedIsSeen(t) /\ TypeOK /\ Typed
  BY DEF AppliedAreSeen, Sound, Typed
<1>2. CASE UNCHANGED vars
  BY <1>1, <1>2, OthersApplied DEF vars
<1>3. ASSUME NEW u \in Txn \ {t}, Step(u) PROVE AppliedIsSeen(t)'
  BY <1>1, <1>3, OthersUnchanged, OthersApplied
<1>4. ASSUME Step(t) PROVE AppliedIsSeen(t)'
  <2> USE DEF Goto
  <2>1. ASSUME pc'[t] \notin Applying \cup {"commit"} PROVE AppliedIsSeen(t)'
    BY <2>1 DEF AppliedIsSeen, Applying
  <2>2. ASSUME NEW q \in Request, Begin(t, q) PROVE AppliedIsSeen(t)'
    BY <1>1, <2>1, <2>2 DEF Begin, TypeOK, Applying
  <2>3. ASSUME EnsureResource(t) \/ CreateResource(t) PROVE AppliedIsSeen(t)'
    BY <1>1, <2>1, <2>3 DEF EnsureResource, CreateResource, TypeOK, Applying
  <2>4. ASSUME NEW n \in Key, CreateName(t, n) PROVE AppliedIsSeen(t)'
    BY <1>1, <2>1, <2>4 DEF CreateName, TypeOK, Applying
  <2>5. ASSUME GetResourceID(t) PROVE AppliedIsSeen(t)'
    <3>1. op'[t] = 1 /\ req' = req /\ req[t].ops \in Seq(Op)
      BY <2>5, CurrentParts, RequestParts
         DEF GetResourceID, Typed, HasRequest, Sound, Preparing
    <3>2. pc'[t] \in {"update", "rollback"} \/ (pc'[t] = "commit" /\ req'[t].ops = <<>>)
      BY <1>1, <2>5, <3>1 DEF GetResourceID, TypeOK
    <3> QED BY <3>1, <3>2 DEF AppliedIsSeen, Applying
  <2>6. ASSUME StartUpdate(t) PROVE AppliedIsSeen(t)'
    <3>1. /\ pc[t] = "update" /\ pc'[t] = "scan" /\ updated'[t] = FALSE
          /\ op' = op /\ req' = req /\ table' = table /\ pend' = pend
      BY <1>1, <2>6 DEF StartUpdate, TypeOK
    <3> QED BY <1>1, <3>1 DEF AppliedIsSeen, Seen, View, RecordedBy, Applying
  <2>7. ASSUME Commit(t) \/ Rollback(t) \/ ServerAborts(t) PROVE AppliedIsSeen(t)'
    <3>1. pc'[t] \in Ended
      BY <1>1, <2>7 DEF Commit, Rollback, ServerAborts, TypeOK, Ended
    <3> QED BY <2>1, <3>1 DEF Ended, Committed, Applying
  <2>8. ASSUME StatementFails(t) \/ LoseConnection(t) PROVE AppliedIsSeen(t)'
    BY <1>1, <2>1, <2>8 DEF StatementFails, LoseConnection, TypeOK, Applying
  <2>9. ASSUME \/ \E s \in RowId : UpdateRow(t, s)
               \/ EndUpdate(t) \/ InsertRow(t)
        PROVE  AppliedIsSeen(t)'
    BY <1>1, <2>9, UpdateRowApplied, EndUpdateApplied, InsertRowApplied
  <2> QED BY <1>4, <2>2, <2>3, <2>4, <2>5, <2>6, <2>7, <2>8, <2>9 DEF Step, Proceed
<1> QED BY <1>2, <1>3, <1>4 DEF Next

\* A transaction that has committed is over, and only COMMIT commits.
LEMMA CommittedStays ==
  ASSUME TypeOK, [Next]_vars, NEW t \in Txn
  PROVE  /\ pc[t] \in Committed => pc'[t] = pc[t] /\ req'[t] = req[t]
         /\ pc[t] \notin Committed /\ pc'[t] \in Committed => Commit(t)
<1>1. CASE UNCHANGED vars
  BY <1>1 DEF vars
<1>2. ASSUME NEW u \in Txn \ {t}, Step(u)
      PROVE  pc'[t] = pc[t] /\ req'[t] = req[t]
  BY <1>2, OthersUnchanged
<1>3. ASSUME Step(t), pc[t] \in Committed PROVE FALSE
  BY <1>3 DEF Step, Proceed, Begin, EnsureResource, CreateName, CreateResource,
     GetResourceID, StartUpdate, UpdateRow, EndUpdate, InsertRow, Commit, Rollback,
     ServerAborts, StatementFails, LoseConnection, Committed, Statement, Preparing,
     Applying, Active
<1>4. ASSUME Step(t), pc[t] \notin Committed, pc'[t] \in Committed PROVE Commit(t)
  BY <1>4 DEF Step, Proceed, Begin, EnsureResource, CreateName, CreateResource,
     GetResourceID, StartUpdate, UpdateRow, EndUpdate, NextOp, InsertRow, Rollback,
     ServerAborts, StatementFails, LoseConnection, Committed, Goto, TypeOK
<1> QED BY <1>1, <1>2, <1>3, <1>4 DEF Next

\* The request of a transaction that has committed is recorded, and stays so.
LEMMA NextNoEventLost ==
  ASSUME Sound, AppliedAreSeen, NoEventLost, [Next]_vars
  PROVE  NoEventLost'
<1> SUFFICES ASSUME NEW t \in Txn, pc'[t] \in Committed,
                    NEW i, i \in 1..Len(req'[t].ops)
             PROVE  \E r \in RowId : table'[r] # NULL /\ RecordedBy(t, i, table[r])'
  BY DEF NoEventLost
<1>1. TypeOK /\ Typed
  BY DEF Sound, Typed
<1>2. CASE pc[t] \in Committed
  <2>1. pc[t] # "idle" /\ req'[t] = req[t]
    BY <1>1, <1>2, CommittedStays DEF Committed
  <2>2. PICK r \in RowId : table[r] # NULL /\ RecordedBy(t, i, table[r])
    BY <1>2, <2>1 DEF NoEventLost
  <2>3. table'[r] # NULL /\ Extends(table[r], table'[r])
    BY <2>2, TableGrows
  <2>4. req[t].ops[i] \in Op /\ req[t].time \in Time
    BY <1>1, <2>1, CurrentParts, RequestParts
  <2>5. RecordedBy(t, i, table[r])'
    BY <2>1, <2>2, <2>3, <2>4, RecordsKept, NullAssumption DEF RecordedBy
  <2> QED BY <2>3, <2>5
<1>3. CASE pc[t] \notin Committed
  <2>1. pc[t] = "commit" /\ req' = req /\ table' = View(t)
    BY <1>1, <1>3, CommittedStays DEF Commit
  <2>2. Seen(t, i)
    BY <2>1 DEF AppliedAreSeen, AppliedIsSeen
  <2> QED BY <2>1, <2>2 DEF Seen, RecordedBy
<1> QED BY <1>2, <1>3

LEMMA InitIInv == Init => IInv
<1> SUFFICES ASSUME Init PROVE IInv
  OBVIOUS
<1>1. Sound
  BY InitSound
<1>2. AppliedAreSeen /\ NoEventLost
  BY DEF Init, AppliedAreSeen, AppliedIsSeen, NoEventLost, Applying, Committed
<1> QED BY <1>1, <1>2 DEF IInv, Sound, Typed

LEMMA NextIInv == ASSUME SlotsDistinct PROVE IInv /\ [Next]_vars => IInv'
<1> SUFFICES ASSUME IInv, [Next]_vars PROVE IInv'
  OBVIOUS
<1>1. Sound /\ AppliedAreSeen /\ NoEventLost
  BY DEF IInv, Sound, Typed
<1>2. Sound' /\ AppliedAreSeen' /\ NoEventLost'
  BY <1>1, NextSound, NextApplied, NextNoEventLost
<1> QED BY <1>2 DEF IInv, Sound, Typed

\* The inductive invariant holds as long as the unique indexes cover subjects
\* whole.
THEOREM IInvCorrect == ASSUME SlotsDistinct PROVE Spec => []IInv
BY InitIInv, NextIInv, PTL DEF Spec

\* Store never loses an event that it accepted, whatever runs at the same time
\* and whatever fails, provided that no two subjects share an index slot: a
\* public address of a resource has one hostname (db-migrations 000002:45).
THEOREM EventsKept == ASSUME SlotsDistinct PROVE Spec => []NoEventLost
<1>1. IInv => NoEventLost
  BY DEF IInv
<1> QED BY <1>1, IInvCorrect, PTL

-----------------------------------------------------------------------------
(***************************************************************************)
(* A failure leaves no trace.                                              *)
(***************************************************************************)
\* Some committed request reported the start, or the end, of the row.
StartReported(row) ==
  \E t \in Txn : /\ pc[t] \in Committed
                 /\ \E i \in 1..Len(req[t].ops) :
                      req[t].ops[i].kind = "ADDED" /\ RecordedBy(t, i, row)

EndReported(row) ==
  \E t \in Txn : /\ pc[t] \in Committed
                 /\ \E i \in 1..Len(req[t].ops) :
                      req[t].ops[i].kind = "DELETED" /\ RecordedBy(t, i, row)

\* It stays reported, also of the row that the row has grown into.
LEMMA ReportedKept ==
  ASSUME TypeOK, [Next]_vars, NEW old, NEW new, new.subject = old.subject
  PROVE  /\ StartReported(old) /\ new.not_before = old.not_before => StartReported(new)'
         /\ EndReported(old) /\ new.not_after = old.not_after => EndReported(new)'
<1>1. \A t \in Txn : pc[t] \in Committed => pc'[t] \in Committed /\ req'[t] = req[t]
  BY CommittedStays
<1>2. ASSUME StartReported(old), new.not_before = old.not_before
      PROVE  StartReported(new)'
  BY <1>1, <1>2 DEF StartReported, RecordedBy, Records
<1>3. ASSUME EndReported(old), new.not_after = old.not_after
      PROVE  EndReported(new)'
  BY <1>1, <1>3 DEF EndReported, RecordedBy, Records
<1> QED BY <1>2, <1>3

LEMMA NextNoTrace ==
  ASSUME Sound, NoTraceOfFailure, [Next]_vars
  PROVE  NoTraceOfFailure'
<1> SUFFICES ASSUME NEW r \in RowId, table'[r] # NULL
             PROVE  /\ table'[r].not_before # EPOCH => StartReported(table[r])'
                    /\ table'[r].not_after # NULL => EndReported(table[r])'
  BY DEF NoTraceOfFailure, StartReported, EndReported
<1>1. TypeOK
  BY DEF Sound, Typed
<1>2. table[r] # NULL => /\ table[r].not_before # EPOCH => StartReported(table[r])
                         /\ table[r].not_after # NULL => EndReported(table[r])
  BY DEF NoTraceOfFailure, StartReported, EndReported
<1>3. CASE table'[r] = table[r]
  BY <1>1, <1>2, <1>3, ReportedKept DEF StartReported, EndReported, RecordedBy
<1>4. CASE table'[r] # table[r]
  <2>1. PICK u \in Txn : Commit(u)
    BY <1>4, OnlyCommitWrites
  <2>2. Touched(table[r], table'[r], req[u])
    BY <1>4, <2>1, CommitExtends
  <2>3. pc[u] = "commit" /\ pc'[u] \in Committed /\ req' = req
    BY <1>1, <2>1 DEF Commit, Goto, TypeOK
  <2>4. DOMAIN req[u].ops = 1..Len(req[u].ops)
    BY <2>3, CurrentParts, RequestParts DEF Sound
  <2>5. table[r] # NULL => table'[r].subject = table[r].subject
    BY <2>2 DEF Touched, Extends
  <2>6. ASSUME table'[r].not_before # EPOCH PROVE StartReported(table[r])'
    <3>1. CASE table[r] # NULL /\ table'[r].not_before = table[r].not_before
      BY <1>1, <1>2, <2>5, <2>6, <3>1, ReportedKept DEF StartReported, RecordedBy
    <3>2. CASE \E i \in DOMAIN req[u].ops :
                 /\ req[u].ops[i].kind = "ADDED"
                 /\ Records(table'[r], req[u].ops[i], req[u].time)
      BY <2>3, <2>4, <3>2 DEF StartReported, RecordedBy
    <3> QED BY <2>2, <2>6, <3>1, <3>2 DEF Touched
  <2>7. ASSUME table'[r].not_after # NULL PROVE EndReported(table[r])'
    <3>1. CASE table[r] # NULL /\ table'[r].not_after = table[r].not_after
      BY <1>1, <1>2, <2>5, <2>7, <3>1, ReportedKept DEF EndReported, RecordedBy
    <3>2. CASE \E i \in DOMAIN req[u].ops :
                 /\ req[u].ops[i].kind = "DELETED"
                 /\ Records(table'[r], req[u].ops[i], req[u].time)
      BY <2>3, <2>4, <3>2 DEF EndReported, RecordedBy
    <3> QED BY <2>2, <2>7, <3>1, <3>2 DEF Touched
  <2> QED BY <2>6, <2>7
<1> QED BY <1>3, <1>4

\* Every start and every end in the tables comes from a request that was
\* committed: a Store that fails or is abandoned at any point leaves nothing.
THEOREM FailuresLeaveNoTrace == Spec => []NoTraceOfFailure
<1>1. Init => NoTraceOfFailure
  BY DEF Init, NoTraceOfFailure, NoRows
<1>2. Sound /\ NoTraceOfFailure /\ [Next]_vars => NoTraceOfFailure'
  BY NextNoTrace
<1> QED BY <1>1, <1>2, SoundInvariant, PTL DEF Spec

-----------------------------------------------------------------------------
(***************************************************************************)
(* Store implements the atomic history.                                    *)
(***************************************************************************)
AcceptedBy(t) == IF pc[t] \in Committed THEN req[t] ELSE NULL

LEMMA HistoryTouched ==
  ASSUME NEW old, NEW new, NEW q, Touched(old, new, q)
  PROVE  History!Touched(old, new, q)
BY DEF Touched, History!Touched, Extends, History!Extends, Records, History!Records,
   EPOCH, History!EPOCH

LEMMA HistoryInit == Init => History!Init
BY DEF Init, NoRows, History!Init, Committed

\* COMMIT accepts the request: the rows change as the request may change them,
\* and each of its operations is recorded.
LEMMA CommitAccepts ==
  ASSUME IInv, IInv', [Next]_vars, NEW u \in Txn, Commit(u), NEW q, q = req[u]
  PROVE  History!Accept(u, q)
<1>1. Sound /\ TypeOK /\ TypeOK' /\ NoEventLost'
  BY DEF IInv, Sound, Typed
<1>2. pc[u] = "commit" /\ pc'[u] \in Committed /\ req' = req
      /\ \A t \in Txn \ {u} : pc'[t] = pc[t]
  BY <1>1 DEF Commit, Goto, TypeOK
<1>3. [t \in Txn |-> AcceptedBy(t)]' = [[t \in Txn |-> AcceptedBy(t)] EXCEPT ![u] = req[u]]
      /\ AcceptedBy(u) = NULL
  BY <1>2 DEF AcceptedBy, Committed
<1>4. table' \in [RowId -> History!Row \cup {NULL}]
  BY <1>1 DEF TypeOK, Row, History!Row
<1>5. \A r \in RowId : table'[r] # table[r] =>
        table'[r] # NULL /\ History!Touched(table[r], table'[r], req[u])
  BY <1>1, CommitExtends, HistoryTouched
<1>6. \A i \in 1..Len(req[u].ops) :
        \E r \in RowId : table'[r] # NULL /\ History!Records(table'[r], req[u].ops[i], req[u].time)
  BY <1>1, <1>2 DEF NoEventLost, RecordedBy, Records, History!Records
<1> QED BY <1>3, <1>4, <1>5, <1>6 DEF History!Accept, AcceptedBy

\* Any other step accepts nothing.
LEMMA OtherStepsStutter ==
  ASSUME TypeOK, [Next]_vars, ~ \E u \in Txn : Commit(u)
  PROVE  UNCHANGED <<table, [t \in Txn |-> AcceptedBy(t)]>>
<1>1. table' = table
  BY OnlyCommitWrites
<1>2. \A t \in Txn : AcceptedBy(t)' = AcceptedBy(t)
  BY CommittedStays DEF AcceptedBy
<1> QED BY <1>1, <1>2

\* However its statements interleave, DB.Store refines the history in which a
\* request is accepted in one step.
THEOREM StoreImplementsHistory == ASSUME SlotsDistinct PROVE Spec => ImplementsHistory
<1>1. ASSUME IInv, IInv', [Next]_vars PROVE [History!Next]_(History!vars)
  <2>1. CASE \E u \in Txn : Commit(u)
    <3>1. PICK u \in Txn : Commit(u)
      BY <2>1
    <3>2. PICK q \in Request : q = req[u]
      BY <1>1, <3>1, CurrentParts DEF Commit, IInv, Typed
    <3>3. History!Accept(u, q)
      BY <1>1, <3>1, <3>2, CommitAccepts
    <3> QED BY <3>3 DEF History!Next
  <2>2. CASE ~ \E u \in Txn : Commit(u)
    BY <1>1, <2>2, OtherStepsStutter DEF IInv, History!vars, AcceptedBy
  <2> QED BY <2>1, <2>2
<1> QED
  BY <1>1, HistoryInit, IInvCorrect, PTL DEF Spec, History!Spec, ImplementsHistory

-----------------------------------------------------------------------------
(***************************************************************************)
(* The unique indexes.                                                     *)
(***************************************************************************)
\* No two rows conflict: not among those that are committed, those that one
\* transaction sees, or those that two transactions have in flight.
Clash(row, other) == row # NULL /\ other # NULL /\ Conflict(row, other)
Apart ==
  /\ \A r, s \in RowId : Clash(table[r], table[s]) => r = s
  /\ \A t \in Txn, r, s \in RowId : Clash(View(t)[r], View(t)[s]) => r = s
  /\ \A t, u \in Txn, r, s \in RowId : Clash(pend[t][r], pend[u][s]) => r = s

LEMMA ClashParts ==
  ASSUME NEW row \in Row, NEW other \in Row, Clash(row, other)
  PROVE  Clash(other, row) /\ row.not_after = NULL
BY DEF Clash, Conflict

\* An UPDATE makes two rows conflict never: what it leaves is closed.
LEMMA UpdatedIsClosed ==
  ASSUME NEW row \in Row, NEW o \in Op, NEW when \in Time, IsTarget(row, o, when)
  PROVE  Updated(row, o, when) \in Row /\ Updated(row, o, when).not_after # NULL
BY NullAssumption DEF Row, Op, Time, IsTarget, AssignTarget, ReleaseTarget, Updated

\* A row that t writes, closed or in conflict with no other, keeps the rows apart.
LEMMA WriteApart ==
  ASSUME Sound, Apart, NEW t \in Txn, NEW r0 \in RowId, NEW new \in Row,
         pend' = [pend EXCEPT ![t][r0] = new], table' = table,
         \A s \in RowId \ {r0} : ~Clash(new, View(t)[s]),
         \A u \in Txn \ {t} : \A s \in RowId \ {r0} : ~Clash(new, pend[u][s])
  PROVE  Apart'
<1>1. TypeOK
  BY DEF Sound, Typed
<1>2. \A u \in Txn, s \in RowId : pend'[u][s] = IF u = t /\ s = r0 THEN new ELSE pend[u][s]
  BY <1>1 DEF TypeOK
<1>3. \A u \in Txn, s \in RowId :
        View(u)'[s] = IF u = t /\ s = r0 THEN new ELSE View(u)[s]
  BY <1>1, <1>2, NullAssumption DEF View
<1>4. \A s \in RowId : ~Clash(View(t)[s], new) \/ s = r0
  BY <1>1, ViewType, ClashParts DEF Clash
<1>5. \A u \in Txn \ {t} : \A s \in RowId \ {r0} : ~Clash(pend[u][s], new)
  BY <1>1, ClashParts DEF TypeOK, Clash
<1>6. \A u \in Txn, r, s \in RowId : Clash(View(u)[r], View(u)[s])' => r = s
  BY <1>3, <1>4 DEF Apart, Clash
<1>7. \A s \in RowId \ {r0} : ~Clash(new, pend[t][s]) /\ ~Clash(pend[t][s], new)
  BY <1>1, <1>4, ViewType DEF Clash
<1>8. \A u, v \in Txn, r, s \in RowId : Clash(pend[u][r], pend[v][s])' => r = s
  BY <1>2, <1>5, <1>7 DEF Apart, Clash
<1> QED BY <1>6, <1>8 DEF Apart, Clash

LEMMA UpdateRowApart ==
  ASSUME Sound, Apart, NEW t \in Txn, NEW r \in RowId, UpdateRow(t, r)
  PROVE  Apart'
<1>1. Typed /\ TypeOK /\ TargetsSeen /\ pc[t] = "scan" /\ table' = table
  BY DEF Sound, Typed, UpdateRow
<1>2. CASE pend' = pend
  BY <1>1, <1>2 DEF Apart, View
<1>3. CASE pend' # pend
  <2> DEFINE new == Updated(View(t)[r], CurrentOp(t), req[t].time)
  <2>1. View(t)[r] \in Row /\ CurrentOp(t) \in Op /\ req[t].time \in Time
    BY <1>1, ViewType, CurrentParts DEF UpdateRow, TargetsSeen, Applying
  <2>2. IsTarget(View(t)[r], CurrentOp(t), req[t].time) /\ pend' = [pend EXCEPT ![t][r] = new]
    BY <1>3 DEF UpdateRow
  <2>3. new \in Row /\ new.not_after # NULL
    BY <2>1, <2>2, UpdatedIsClosed
  <2>4. \A row : ~Clash(new, row)
    BY <2>3 DEF Clash, Conflict
  <2> QED BY <1>1, <2>2, <2>3, <2>4, WriteApart
<1> QED BY <1>2, <1>3

LEMMA InsertRowApart ==
  ASSUME Sound, Apart, NEW t \in Txn, InsertRow(t)
  PROVE  Apart'
<1> DEFINE new == NewRow(CurrentOp(t), req[t].time)
<1>1. Typed /\ TypeOK /\ pc[t] = "insert" /\ table' = table
  BY DEF Sound, Typed, InsertRow
<1>2. new \in Row /\ <<t, op[t]>> \in RowId
  BY <1>1, CurrentParts, NewRowRecords DEF Applying
<1>3. CASE ConflictsSeen(t, new) # {}
  <2>1. pend' = pend
    BY <1>3 DEF InsertRow
  <2> QED BY <1>1, <2>1 DEF Apart, View
<1>4. CASE ConflictsSeen(t, new) = {}
  <2>1. pend' = [pend EXCEPT ![t][<<t, op[t]>>] = new]
    BY <1>4 DEF InsertRow
  <2>2. \A s \in RowId : ~Clash(new, View(t)[s])
    BY <1>4 DEF ConflictsSeen, Clash
  <2>3. \A u \in Txn \ {t} : \A s \in RowId : ~Clash(new, pend[u][s])
    BY DEF InsertRow, ConflictsInFlight, Clash
  <2> HIDE DEF new
  <2> QED BY <1>1, <1>2, <2>1, <2>2, <2>3, WriteApart
<1> QED BY <1>3, <1>4

\* A transaction that ends: it has committed, or its rows are gone.
LEMMA ForgetApart ==
  ASSUME Sound, Apart, NEW u \in Txn, Forget(u), table' = table \/ table' = View(u)
  PROVE  Apart'
<1>1. TypeOK /\ OneWriter
  BY DEF Sound, Typed
<1>2. \A t \in Txn, r \in RowId : pend'[t][r] = IF t = u THEN NULL ELSE pend[t][r]
  BY <1>1 DEF Forget, NoRows, TypeOK
<1>3. \A r \in RowId : View(u)[r] = IF pend[u][r] # NULL THEN pend[u][r] ELSE table[r]
  BY <1>1, ViewType
<1>4. \A t \in Txn, r \in RowId :
        View(t)'[r] = IF t # u /\ pend[t][r] # NULL THEN pend[t][r] ELSE table'[r]
  BY <1>2 DEF View
<1>5. \A t \in Txn \ {u} : \A r \in RowId :
        View(t)[r] = IF pend[t][r] # NULL THEN pend[t][r] ELSE table[r]
  BY <1>1, ViewType
<1>6. \A r, s \in RowId : Clash(table[r], table[s])' => r = s
  BY DEF Apart, Clash
<1>7. \A t, v \in Txn, r, s \in RowId : Clash(pend[t][r], pend[v][s])' => r = s
  BY <1>2 DEF Apart, Clash
<1>8. ASSUME NEW t \in Txn, NEW r \in RowId, NEW s \in RowId, Clash(View(t)[r], View(t)[s])'
      PROVE  r = s
  <2>1. CASE t = u
    BY <1>4, <1>6, <1>8, <2>1 DEF Clash
  <2>2. CASE t # u
    BY <1>3, <1>4, <1>5, <1>6, <1>8, <2>2 DEF Apart, Clash
  <2> QED BY <2>1, <2>2
<1> QED BY <1>6, <1>7, <1>8 DEF Apart

LEMMA NextApart == Sound /\ Apart /\ [Next]_vars => Apart'
<1> SUFFICES ASSUME Sound, Apart, [Next]_vars PROVE Apart'
  OBVIOUS
<1>1. CASE UNCHANGED <<table, pend>>
  BY <1>1 DEF Apart, View
<1>2. ASSUME NEW t \in Txn, Commit(t) \/ Rollback(t) \/ ServerAborts(t) PROVE Apart'
  BY <1>2, ForgetApart DEF Commit, Rollback, ServerAborts
<1>3. ASSUME NEW t \in Txn, Step(t)
      PROVE  \/ UNCHANGED <<table, pend>> \/ InsertRow(t) \/ \E r \in RowId : UpdateRow(t, r)
             \/ Commit(t) \/ Rollback(t) \/ ServerAborts(t)
  BY <1>3 DEF Step, Proceed, Begin, EnsureResource, CreateName, CreateResource, GetResourceID,
     StartUpdate, EndUpdate, StatementFails, LoseConnection, rowVars
<1> QED BY <1>1, <1>2, <1>3, UpdateRowApart, InsertRowApart DEF Next, vars

\* The partial unique indexes hold in every committed state, so that no UPDATE,
\* which has no "on conflict", can fail on one.
THEOREM IndexesHold == Spec => []UniqueOpenRows
<1>1. Init => Apart
  BY DEF Init, NoRows, Apart, Clash, View
<1>2. Apart => UniqueOpenRows
  BY DEF Apart, UniqueOpenRows, Clash
<1> QED BY <1>1, <1>2, NextApart, SoundInvariant, PTL DEF Spec

-----------------------------------------------------------------------------
(***************************************************************************)
(* The registry.                                                           *)
(***************************************************************************)
\* A name that t does not miss any more has a row that t sees.
NamesMade ==
  \A t \in Txn : pc[t] = "names" => req[t].names \ missing[t] \subseteq known \cup claims[t]

LEMMA NextRegistry ==
  TypeOK /\ NamesMade /\ ResourceResolves /\ [Next]_vars => NamesMade' /\ ResourceResolves'
<1> SUFFICES ASSUME TypeOK, NamesMade, ResourceResolves, [Next]_vars, NEW t \in Txn
             PROVE  /\ pc'[t] = "names" =>
                         req'[t].names \ missing'[t] \subseteq known' \cup claims'[t]
                    /\ pc'[t] = "resolve" =>
                         {req'[t].resource} \cup req'[t].names \subseteq known' \cup claims'[t]
  BY DEF NamesMade, ResourceResolves
<1>1. ASSUME pc'[t] = pc[t], req'[t] = req[t], missing'[t] = missing[t],
             known \subseteq known', claims'[t] = claims[t]
      PROVE  /\ pc'[t] = "names" =>
                  req'[t].names \ missing'[t] \subseteq known' \cup claims'[t]
             /\ pc'[t] = "resolve" =>
                  {req'[t].resource} \cup req'[t].names \subseteq known' \cup claims'[t]
  BY <1>1 DEF NamesMade, ResourceResolves
<1>2. CASE UNCHANGED vars
  BY <1>1, <1>2 DEF vars
<1>3. ASSUME NEW u \in Txn \ {t}, Step(u)
      PROVE  /\ missing'[t] = missing[t] /\ known \subseteq known' /\ claims'[t] = claims[t]
  BY <1>3 DEF TypeOK, Step, Proceed, Begin, EnsureResource, CreateName, CreateResource,
     GetResourceID, StartUpdate, UpdateRow, EndUpdate, InsertRow, Commit, Rollback, ServerAborts,
     StatementFails, LoseConnection, Forget, registryVars
<1>4. ASSUME Step(t), pc'[t] \in {"names", "resolve"}
      PROVE  EnsureResource(t) \/ CreateResource(t) \/ \E n \in Key : CreateName(t, n)
  BY <1>4 DEF TypeOK, Step, Proceed, Begin, GetResourceID, StartUpdate, UpdateRow, EndUpdate,
     NextOp, InsertRow, Commit, Rollback, ServerAborts, StatementFails, LoseConnection, Goto,
     Committed
<1>5. CASE EnsureResource(t)
  BY <1>5 DEF TypeOK, EnsureResource, Goto
<1>6. CASE CreateResource(t)
  BY <1>6 DEF TypeOK, NamesMade, CreateResource, Goto
<1>7. ASSUME NEW n \in Key, CreateName(t, n)
      PROVE  pc'[t] = "names" => req'[t].names \ missing'[t] \subseteq known' \cup claims'[t]
  BY <1>7 DEF TypeOK, NamesMade, CreateName, Goto
<1>8. ASSUME NEW n \in Key, CreateName(t, n) PROVE pc'[t] # "resolve"
  BY <1>8 DEF TypeOK, CreateName, Goto
<1> QED BY <1>1, <1>2, <1>3, <1>4, <1>5, <1>6, <1>7, <1>8, OthersUnchanged DEF Next

\* getResourceID finds the keys that ensureResourceExists made sure of, whoever
\* inserted them.
THEOREM KeysResolve == Spec => []ResourceResolves
<1>1. Init => NamesMade /\ ResourceResolves
  BY DEF Init, NamesMade, ResourceResolves
<1> QED BY <1>1, NextRegistry, TypeCorrect, PTL DEF Spec
=============================================================================
