------------------------ MODULE AccountOwnersProofs ------------------------
(***************************************************************************)
(* Proofs about AccountOwners, for any number of concurrent calls of       *)
(* StoreAccountOwner and any requests.                                     *)
(***************************************************************************)
EXTENDS AccountOwners, SequenceTheorems, TLAPS

-----------------------------------------------------------------------------
(***************************************************************************)
(* The inductive invariant.                                                *)
(***************************************************************************)
\* The transactions that are past the INSERT of the account and on their way to
\* COMMIT, and how many persons of its request such a transaction has stored.
Working == {"lock", "write", "link", "clear", "grant", "commit"}
Stored(t) == IF pc[t] \in {"account", "lock", "write"} THEN n[t] - 1 ELSE n[t]

HasRequest == \A t \in Txn : pc[t] # "idle" => req[t] \in Request

\* A transaction starts with nothing, and takes the persons in their order.
Places ==
  \A t \in Txn :
    /\ pc[t] \in {"idle", "account"} =>
         n[t] = 1 /\ wrote[t] = NoDetails /\ ~linked[t] /\ granted[t] = {}
    /\ pc[t] \in {"link", "clear"} => n[t] = 1
    /\ pc[t] = "grant" => n[t] > 1
    /\ pc[t] = "commit" => n[t] = Len(Persons(req[t]))

AccountKnown == \A t \in Txn : pc[t] \in Working => AccountSeen(t)

\* A login is locked by one transaction, which alone has details of it in flight.
LoginsLocked ==
  /\ \A t \in Txn, l \in Login : wrote[t][l] # NULL => l \in locked[t]
  /\ \A t, u \in Txn : \A l \in Login : l \in locked[t] /\ l \in locked[u] => t = u
  /\ \A t \in Txn : pc[t] = "write" => Current(t).login \in locked[t]

\* No two persons share an e-mail: those that are committed, those that one
\* transaction sees, and those that two transactions have in flight.
Clash(a, b) == a # NULL /\ b # NULL /\ a.email = b.email
EmailsSeenDiffer ==
  /\ \A k, l \in Login : Clash(person[k], person[l]) => k = l
  /\ \A t \in Txn : \A k, l \in Login : Clash(PersonSeen(t, k), PersonSeen(t, l)) => k = l
EmailsInFlightDiffer ==
  \A t, u \in Txn : \A k, l \in Login : Clash(wrote[t][k], wrote[u][l]) => k = l

\* A transaction has in flight what its request says last of each login.
SaysLast(t, l, i) ==
  /\ Persons(req[t])[i].login = l /\ Persons(req[t])[i].details = wrote[t][l]
  /\ \A j \in 1..Stored(t) : Persons(req[t])[j].login = l => j <= i
WroteLast ==
  \A t \in Txn : pc[t] \in Working => \A l \in Login :
    /\ wrote[t][l] = NULL => \A i \in 1..Stored(t) : Persons(req[t])[i].login # l
    /\ wrote[t][l] # NULL => \E i \in 1..Stored(t) : SaysLast(t, l, i)

\* The row of an account in account_owner has one writer, from the first
\* champion on; only that transaction changes the champions of the account.
LinkedOnce ==
  /\ \A t \in Txn : linked[t] => pc[t] # "idle"
  /\ \A t, u \in Txn : linked[t] /\ linked[u] /\ req[t].account = req[u].account => t = u
  /\ \A t \in Txn : pc[t] \in {"clear", "grant", "commit"} => linked[t]
  /\ \A t \in Txn : pc[t] \in Working /\ n[t] > 1 => linked[t]
Granted(t) ==
  {Persons(req[t])[i].login : i \in 2..(IF pc[t] = "commit" THEN n[t] ELSE n[t] - 1)}
ChampionsReplaced ==
  \A t \in Txn : pc[t] \in Working =>
    /\ granted[t] = Granted(t)
    /\ pc[t] = "commit" \/ n[t] > 1 => revoked[t] = champions[req[t].account]

Rows == AccountKnown /\ LoginsLocked /\ EmailsSeenDiffer /\ EmailsInFlightDiffer
Progress == HasRequest /\ Places /\ WroteLast /\ LinkedOnce /\ ChampionsReplaced
IInv == TypeOK /\ Rows /\ Progress

-----------------------------------------------------------------------------
(***************************************************************************)
(* What the actions have in common.                                        *)
(***************************************************************************)
\* The persons of a request: the owner, then the champions.
LEMMA PersonsParts ==
  ASSUME NEW q \in Request
  PROVE  /\ q.account \in Account /\ q.owner \in Entry
         /\ Len(q.champions) \in Nat
         /\ Len(Persons(q)) = Len(q.champions) + 1
         /\ Persons(q)[1] = q.owner
         /\ \A i \in 1..Len(q.champions) : Persons(q)[i + 1] = q.champions[i]
         /\ \A i \in 1..Len(Persons(q)) : Persons(q)[i] \in Entry
<1>1. /\ q.account \in Account /\ q.owner \in Entry
      /\ q.champions \in Seq(Entry)
  BY RequestAssumption DEF RequestShape
<1> DEFINE one == <<q.owner>>
<1>2. one \in Seq(Entry) /\ Len(one) = 1 /\ one[1] = q.owner
  BY <1>1
<1>3. one \o q.champions \in Seq(Entry)
  BY <1>1, <1>2
<1> HIDE DEF one
<1>4. /\ Len(one \o q.champions) = 1 + Len(q.champions)
      /\ \A i \in 1..(1 + Len(q.champions)) :
            (one \o q.champions)[i] = IF i <= 1 THEN one[i] ELSE q.champions[i - 1]
  BY <1>1, <1>2, ConcatProperties
<1>5. Persons(q) = one \o q.champions
  BY DEF Persons, one
<1>6. \A i \in 1..Len(q.champions) : Persons(q)[i + 1] = q.champions[i]
  BY <1>1, <1>4, <1>5
<1> QED BY <1>1, <1>2, <1>3, <1>4, <1>5, <1>6

\* The person that a transaction is at.
LEMMA CurrentParts ==
  ASSUME TypeOK, HasRequest, NEW t \in Txn, pc[t] \in Active
  PROVE  /\ req[t] \in Request /\ req[t] # NULL /\ req[t].account \in Account
         /\ n[t] \in 1..Len(Persons(req[t])) /\ Len(Persons(req[t])) \in Nat
         /\ Current(t) \in Entry
         /\ Current(t).login \in Login /\ Current(t).details \in Details
         /\ Current(t) = Persons(req[t])[n[t]]
BY PersonsParts, NullAssumption DEF TypeOK, HasRequest, Active, Statement, Current, Entry

\* Whom the statements wait for.
LEMMA HoldersParts ==
  ASSUME NEW t \in Txn
  PROVE  /\ pc[t] = "lock" => Holders(t) = {u \in Txn \ {t} : Current(t).login \in locked[u]}
         /\ pc[t] = "write" => Holders(t) =
              {u \in Txn \ {t} : \E l \in Login \ {Current(t).login} :
                 /\ wrote[u][l] # NULL
                 /\ \/ wrote[u][l].email = Current(t).details.email
                    \/ person[l] # NULL /\ person[l].email = Current(t).details.email}
         /\ pc[t] = "link" => Holders(t) = {u \in Rivals(t) : linked[u]}
BY Zenon DEF Holders

\* The loop over the persons of a request.
LEMMA NextPersonParts ==
  ASSUME TypeOK, HasRequest, NEW t \in Txn, pc[t] \in {"clear", "grant"}, NextPerson(t)
  PROVE  \/ n[t] < Len(Persons(req[t])) /\ Goto(t, "lock") /\ n' = [n EXCEPT ![t] = n[t] + 1]
         \/ n[t] = Len(Persons(req[t])) /\ Goto(t, "commit") /\ n' = n
<1>1. n[t] \in 1..Len(Persons(req[t])) /\ Len(Persons(req[t])) \in Nat
  BY CurrentParts DEF Active, Statement
<1> QED BY <1>1 DEF NextPerson

LEMMA NextPersonMoves ==
  ASSUME TypeOK, HasRequest, NEW t \in Txn, pc[t] \in {"clear", "grant"}, NextPerson(t)
  PROVE  /\ pc'[t] \in {"lock", "commit"}
         /\ \A u \in Txn \ {t} : pc'[u] = pc[u] /\ n'[u] = n[u]
<1>1. CASE Goto(t, "lock") /\ n' = [n EXCEPT ![t] = n[t] + 1]
  BY <1>1 DEF TypeOK, Goto
<1>2. CASE Goto(t, "commit") /\ n' = n
  BY <1>2 DEF TypeOK, Goto
<1> QED BY <1>1, <1>2, NextPersonParts

\* A transaction that stores no person says what it said.
LEMMA WroteStays ==
  ASSUME WroteLast,
         \A u \in Txn : pc'[u] \in Working =>
           /\ pc[u] \in Working /\ Stored(u)' = Stored(u)
           /\ wrote'[u] = wrote[u] /\ req'[u] = req[u]
  PROVE  WroteLast'
BY DEF WroteLast, SaysLast

\* A transaction that stops keeps its writes and locks.
LEMMA StopKeeps ==
  ASSUME IInv, NEW t \in Txn, NEW end \in {"rollback", "orphan"},
         pc[t] \in Active, Goto(t, end), UNCHANGED <<tables, req, n, writes>>
  PROVE  IInv'
<1>1. TypeOK'
  BY DEF IInv, TypeOK, Goto, tables, writes, Active
<1>2. HasRequest'
  BY CurrentParts DEF IInv, Progress, HasRequest, Goto
<1>3. Places'
  BY DEF IInv, Progress, Places, Goto, writes
<1>4. AccountKnown'
  BY DEF IInv, Rows, AccountKnown, AccountSeen, Goto, tables, writes, Working
<1>5. LoginsLocked'
  BY DEF IInv, Rows, LoginsLocked, Current, Goto, writes
<1>6. EmailsSeenDiffer'
  BY DEF IInv, Rows, EmailsSeenDiffer, PersonSeen, tables, writes
<1>7. EmailsInFlightDiffer'
  BY DEF IInv, Rows, EmailsInFlightDiffer, writes
<1>8. WroteLast'
  BY WroteStays DEF IInv, Progress, Goto, Stored, Working, writes
<1>9. LinkedOnce'
  BY DEF IInv, Progress, LinkedOnce, Goto, writes, Working
<1>10. ChampionsReplaced'
  BY DEF IInv, Progress, ChampionsReplaced, Granted, Goto, tables, writes, Working
<1> QED BY <1>1, <1>2, <1>3, <1>4, <1>5, <1>6, <1>7, <1>8, <1>9, <1>10 DEF IInv, Rows, Progress

\* A transaction that is rolled back leaves the others alone.
LEMMA ForgetKeeps ==
  ASSUME IInv, NEW t \in Txn, pc[t] \in {"rollback", "orphan"},
         Goto(t, "failed"), Forget(t), UNCHANGED <<tables, req>>
  PROVE  IInv'
<1>1. TypeOK'
  <2>1. NoDetails \in [Login -> Details \cup {NULL}]
    BY DEF NoDetails
  <2> QED BY <2>1 DEF IInv, TypeOK, Forget, Goto, tables, Active, Ended
<1>2. HasRequest'
  BY DEF IInv, Progress, HasRequest, Goto
<1>3. Places'
  BY DEF IInv, Progress, Places, Goto, Forget
<1>4. AccountKnown'
  BY DEF IInv, Rows, AccountKnown, AccountSeen, Goto, Forget, tables, Working
<1>5. LoginsLocked'
  BY DEF IInv, TypeOK, Rows, LoginsLocked, Current, NoDetails, Goto, Forget
<1>6. EmailsSeenDiffer'
  <2>1. \A u \in Txn \ {t} : wrote'[u] = wrote[u]
    BY DEF Forget
  <2>2. \A l \in Login : wrote'[t][l] = NULL
    BY DEF IInv, TypeOK, Forget, NoDetails
  <2>3. \A l \in Login : PersonSeen(t, l)' = person[l]
    BY <2>2 DEF PersonSeen, tables
  <2>4. \A u \in Txn \ {t} : \A l \in Login : PersonSeen(u, l)' = PersonSeen(u, l)
    BY <2>1 DEF PersonSeen, tables
  <2> QED BY <2>3, <2>4 DEF IInv, Rows, EmailsSeenDiffer, tables
<1>7. EmailsInFlightDiffer'
  BY DEF IInv, Rows, EmailsInFlightDiffer, Clash, NoDetails, Forget
<1>8. WroteLast'
  BY WroteStays DEF IInv, Progress, Goto, Forget, Stored, Working
<1>9. LinkedOnce'
  BY DEF IInv, TypeOK, Progress, LinkedOnce, Goto, Forget
<1>10. ChampionsReplaced'
  BY DEF IInv, TypeOK, Progress, ChampionsReplaced, Granted, Goto, Forget, tables
<1> QED BY <1>1, <1>2, <1>3, <1>4, <1>5, <1>6, <1>7, <1>8, <1>9, <1>10 DEF IInv, Rows, Progress

-----------------------------------------------------------------------------
(***************************************************************************)
(* The actions, one lemma each: they keep the ten parts of IInv.           *)
(***************************************************************************)
LEMMA BeginKeeps ==
  ASSUME IInv, NEW t \in Txn, NEW q \in Request, Begin(t, q)
  PROVE  IInv'
<1>1. TypeOK'
  <2>1. 1 \in 1..Len(Persons(q)) /\ n[t] = 1
    BY PersonsParts DEF IInv, Progress, Places, Begin
  <2> QED BY <2>1 DEF IInv, TypeOK, Begin, Goto, tables, writes, Active, Statement
<1>2. HasRequest'
  BY DEF IInv, TypeOK, Progress, HasRequest, Begin, Goto
<1>3. Places'
  BY DEF IInv, Progress, Places, Begin, Goto, writes
<1>4. AccountKnown'
  BY DEF IInv, Rows, AccountKnown, AccountSeen, Begin, Goto, tables, writes, Working
<1>5. LoginsLocked'
  BY DEF IInv, Rows, LoginsLocked, Current, Begin, Goto, writes
<1>6. EmailsSeenDiffer'
  BY DEF IInv, Rows, EmailsSeenDiffer, PersonSeen, Begin, tables, writes
<1>7. EmailsInFlightDiffer'
  BY DEF IInv, Rows, EmailsInFlightDiffer, Begin, writes
<1>8. WroteLast'
  BY WroteStays DEF IInv, Progress, Begin, Goto, Stored, Working, writes
<1>9. LinkedOnce'
  BY DEF IInv, Progress, Places, LinkedOnce, Begin, Goto, writes
<1>10. ChampionsReplaced'
  BY DEF IInv, Progress, Places, ChampionsReplaced, Granted, Begin, Goto, tables, writes
<1> QED BY <1>1, <1>2, <1>3, <1>4, <1>5, <1>6, <1>7, <1>8, <1>9, <1>10 DEF IInv, Rows, Progress

LEMMA InsertAccountKeeps ==
  ASSUME IInv, NEW t \in Txn, InsertAccount(t)
  PROVE  IInv'
<1>1. TypeOK'
  BY DEF IInv, TypeOK, InsertAccount, Goto, tables, Statement, Active
<1>2. HasRequest'
  BY DEF IInv, Progress, HasRequest, InsertAccount, Goto
<1>3. Places'
  BY DEF IInv, Progress, Places, InsertAccount, Goto
<1>4. AccountKnown'
  BY CurrentParts, NullAssumption DEF IInv, TypeOK, Rows, Progress, HasRequest, Places,
     AccountKnown, AccountSeen, InsertAccount, Goto, tables, writes, Statement, Active,
     Ended, Committed, Working
<1>5. LoginsLocked'
  BY DEF IInv, Rows, LoginsLocked, Current, InsertAccount, Goto
<1>6. EmailsSeenDiffer'
  BY DEF IInv, Rows, EmailsSeenDiffer, PersonSeen, InsertAccount, tables
<1>7. EmailsInFlightDiffer'
  BY DEF IInv, Rows, EmailsInFlightDiffer, InsertAccount
<1>8. WroteLast'
  BY DEF IInv, Progress, Places, WroteLast, SaysLast, Stored, NoDetails, InsertAccount, Goto
<1>9. LinkedOnce'
  BY DEF IInv, Progress, Places, LinkedOnce, InsertAccount, Goto
<1>10. ChampionsReplaced'
  BY DEF IInv, Progress, Places, ChampionsReplaced, Granted, InsertAccount, Goto, tables
<1> QED BY <1>1, <1>2, <1>3, <1>4, <1>5, <1>6, <1>7, <1>8, <1>9, <1>10 DEF IInv, Rows, Progress

LEMMA LockPersonKeeps ==
  ASSUME IInv, NEW t \in Txn, LockPerson(t)
  PROVE  IInv'
<1>1. TypeOK'
  BY CurrentParts DEF IInv, TypeOK, Progress, LockPerson, Goto, tables, Statement, Active
<1>2. HasRequest'
  BY DEF IInv, Progress, HasRequest, LockPerson, Goto
<1>3. Places'
  BY DEF IInv, Progress, Places, LockPerson, Goto
<1>4. AccountKnown'
  BY DEF IInv, Rows, AccountKnown, AccountSeen, LockPerson, Goto, tables, Working
<1>5. LoginsLocked'
  BY HoldersParts DEF IInv, TypeOK, Rows, LoginsLocked, Current, LockPerson, Goto
<1>6. EmailsSeenDiffer'
  BY DEF IInv, Rows, EmailsSeenDiffer, PersonSeen, LockPerson, tables
<1>7. EmailsInFlightDiffer'
  BY DEF IInv, Rows, EmailsInFlightDiffer, LockPerson
<1>8. WroteLast'
  BY WroteStays DEF IInv, Progress, LockPerson, Goto, Stored, Working
<1>9. LinkedOnce'
  BY DEF IInv, Progress, LinkedOnce, LockPerson, Goto, Working
<1>10. ChampionsReplaced'
  <2>1. pc' = [pc EXCEPT ![t] = "write"] /\ pc[t] = "lock"
    BY DEF LockPerson, Goto
  <2> QED BY <2>1 DEF IInv, Progress, ChampionsReplaced, Granted, LockPerson, tables, Working
<1> QED BY <1>1, <1>2, <1>3, <1>4, <1>5, <1>6, <1>7, <1>8, <1>9, <1>10 DEF IInv, Rows, Progress

LEMMA WritePersonKeeps ==
  ASSUME IInv, NEW t \in Txn, WritePerson(t)
  PROVE  IInv'
<1>1. CASE EmailTaken(t)
  BY <1>1, StopKeeps DEF WritePerson, Active, Statement, writes
<1>2. CASE ~EmailTaken(t)
  <2> DEFINE x == Current(t).login
             d == Current(t).details
             label == IF n[t] = 1 THEN "link" ELSE "grant"
  <2>0. /\ pc[t] = "write" /\ pc' = [pc EXCEPT ![t] = label]
        /\ wrote' = [wrote EXCEPT ![t][x] = d]
        /\ UNCHANGED <<tables, req, n, locked, created, linked, revoked, granted>>
        /\ x \in Login /\ d \in Details /\ d # NULL
    BY <1>2, CurrentParts, NullAssumption DEF IInv, Progress, WritePerson, Goto, Active,
       Statement
  <2>a. \A u \in Txn : \A l \in Login :
          wrote'[u][l] = IF u = t /\ l = x THEN d ELSE wrote[u][l]
    BY <2>0 DEF IInv, TypeOK
  <2>b. \A u \in Txn \ {t} : \A l \in Login \ {x} : ~Clash(wrote[u][l], d)
    BY HoldersParts DEF WritePerson, Clash
  <2>c. \A l \in Login \ {x} : ~Clash(PersonSeen(t, l), d)
    BY <1>2 DEF EmailTaken, Clash
  <2>d. x \in locked[t]
    BY <2>0 DEF IInv, Rows, LoginsLocked
  <2> HIDE DEF x, d
  <2>1. TypeOK'
    <3>1. wrote' \in [Txn -> [Login -> Details \cup {NULL}]]
      BY <2>0 DEF IInv, TypeOK
    <3> QED BY <2>0 DEF IInv, TypeOK, tables, Active, Statement
  <2>2. HasRequest'
    BY <2>0 DEF IInv, Progress, HasRequest
  <2>3. Places'
    BY <2>0 DEF IInv, TypeOK, Progress, Places, Statement, Active
  <2>4. AccountKnown'
    BY <2>0 DEF IInv, Rows, AccountKnown, AccountSeen, tables, Working
  <2>5. LoginsLocked'
    BY <2>0, <2>d DEF IInv, Rows, LoginsLocked, Current
  <2>6. EmailsSeenDiffer'
    <3>1. \A u \in Txn \ {t} : \A l \in Login : PersonSeen(u, l)' = PersonSeen(u, l)
      BY <2>0 DEF PersonSeen, tables
    <3>2. \A l \in Login : PersonSeen(t, l)' = IF l = x THEN d ELSE PersonSeen(t, l)
      BY <2>0, <2>a DEF PersonSeen, tables
    <3>3. \A k, l \in Login : Clash(PersonSeen(t, k), PersonSeen(t, l))' => k = l
      BY <2>c, <3>2 DEF IInv, Rows, EmailsSeenDiffer, Clash
    <3>4. \A u \in Txn \ {t} : \A k, l \in Login :
            Clash(PersonSeen(u, k), PersonSeen(u, l))' => k = l
      BY <3>1 DEF IInv, Rows, EmailsSeenDiffer
    <3> QED BY <2>0, <3>3, <3>4 DEF IInv, Rows, EmailsSeenDiffer, tables
  <2>7. EmailsInFlightDiffer'
    <3>1. \A l \in Login \ {x} : ~Clash(wrote[t][l], d)
      BY <2>c DEF PersonSeen, Clash
    <3> QED BY <2>a, <2>b, <3>1 DEF IInv, Rows, EmailsInFlightDiffer, Clash
  <2>8. WroteLast'
    <3>1. /\ Stored(t) = n[t] - 1 /\ Stored(t)' = n[t] /\ n[t] \in Nat /\ n[t] >= 1
          /\ Persons(req[t])[n[t]].login = x /\ Persons(req[t])[n[t]].details = d
      BY <2>0 DEF IInv, TypeOK, Stored, Active, Statement, Current, x, d
    <3>2. SUFFICES ASSUME NEW u \in Txn, pc'[u] \in Working, NEW l \in Login
                   PROVE  /\ wrote'[u][l] = NULL =>
                               \A i \in 1..Stored(u)' : Persons(req'[u])[i].login # l
                          /\ wrote'[u][l] # NULL => \E i \in 1..Stored(u)' : SaysLast(u, l, i)'
      BY DEF WroteLast
    <3>3. CASE u # t
      <4>1. Stored(u)' = Stored(u) /\ pc'[u] = pc[u] /\ wrote'[u][l] = wrote[u][l]
        BY <2>0, <3>3 DEF Stored
      <4>2. \A i \in 1..Stored(u) : SaysLast(u, l, i)' <=> SaysLast(u, l, i)
        BY <2>0, <4>1 DEF SaysLast
      <4> QED BY <2>0, <3>2, <4>1, <4>2 DEF IInv, Progress, WroteLast
    <3>4. CASE u = t /\ l # x
      <4>1. wrote'[t][l] = wrote[t][l] /\ pc[t] \in Working
        BY <2>0, <3>4 DEF Working
      <4>2. \A i \in 1..(n[t] - 1) : SaysLast(t, l, i) => SaysLast(t, l, i)'
        BY <2>0, <3>1, <3>4 DEF SaysLast
      <4>3. \A i \in 1..n[t] : i = n[t] \/ i \in 1..(n[t] - 1)
        BY <3>1
      <4>4. \A i \in 1..(n[t] - 1) : i \in 1..n[t]
        BY <3>1
      <4> QED BY <2>0, <3>1, <3>4, <4>1, <4>2 DEF IInv, Progress, WroteLast
    <3>5. CASE u = t /\ l = x
      <4>1. wrote'[t][x] = d /\ d # NULL /\ n[t] \in 1..n[t]
        BY <2>0, <2>a, <3>1
      <4>2. \A i \in 1..n[t] : i = n[t] => SaysLast(t, l, i)'
        BY <2>0, <3>1, <3>5, <4>1 DEF SaysLast
      <4> QED BY <3>1, <3>5, <4>1, <4>2
    <3> QED BY <3>3, <3>4, <3>5
  <2>9. LinkedOnce'
    BY <2>0 DEF IInv, TypeOK, Progress, LinkedOnce, Statement, Active, Working
  <2>10. ChampionsReplaced'
    BY <2>0 DEF IInv, Progress, ChampionsReplaced, Granted, tables, Working
  <2> QED BY <2>1, <2>2, <2>3, <2>4, <2>5, <2>6, <2>7, <2>8, <2>9, <2>10
     DEF IInv, Rows, Progress
<1> QED BY <1>1, <1>2

LEMMA LinkOwnerKeeps ==
  ASSUME IInv, NEW t \in Txn, LinkOwner(t)
  PROVE  IInv'
<1>1. CASE ~(AccountSeen(t) /\ PersonSeen(t, req[t].owner.login) # NULL)
  BY <1>1, StopKeeps DEF LinkOwner, Active, Statement, writes
<1>2. CASE AccountSeen(t) /\ PersonSeen(t, req[t].owner.login) # NULL
  <2>0. /\ pc[t] = "link" /\ pc' = [pc EXCEPT ![t] = "clear"]
        /\ linked' = [linked EXCEPT ![t] = TRUE]
        /\ UNCHANGED <<tables, req, n, locked, wrote, created, revoked, granted>>
        /\ \A u \in Rivals(t) : ~linked[u]
    BY <1>2, HoldersParts DEF LinkOwner, Goto
  <2>1. TypeOK'
    BY <2>0 DEF IInv, TypeOK, tables, Statement, Active
  <2>2. HasRequest'
    BY <2>0 DEF IInv, Progress, HasRequest
  <2>3. Places'
    BY <2>0 DEF IInv, Progress, Places
  <2>4. AccountKnown'
    BY <2>0 DEF IInv, Rows, AccountKnown, AccountSeen, tables, Working
  <2>5. LoginsLocked'
    BY <2>0 DEF IInv, Rows, LoginsLocked, Current
  <2>6. EmailsSeenDiffer'
    BY <2>0 DEF IInv, Rows, EmailsSeenDiffer, PersonSeen, tables
  <2>7. EmailsInFlightDiffer'
    BY <2>0 DEF IInv, Rows, EmailsInFlightDiffer
  <2>8. WroteLast'
  BY WroteStays, <2>0 DEF IInv, Progress, Stored, Working
  <2>9. LinkedOnce'
    <3>1. \A u \in Txn \ {t} : linked[u] => req[u].account # req[t].account
      BY <2>0, NullAssumption DEF IInv, Progress, HasRequest, LinkedOnce, Rivals
    <3> QED BY <2>0, <3>1 DEF IInv, TypeOK, Progress, LinkedOnce
  <2>10. ChampionsReplaced'
    BY <2>0 DEF IInv, Progress, ChampionsReplaced, Granted, tables, Working
  <2> QED BY <2>1, <2>2, <2>3, <2>4, <2>5, <2>6, <2>7, <2>8, <2>9, <2>10
     DEF IInv, Rows, Progress
<1> QED BY <1>1, <1>2

LEMMA ClearChampionsKeeps ==
  ASSUME IInv, NEW t \in Txn, ClearChampions(t)
  PROVE  IInv'
<1>1. TypeOK'
  <2>1. pc[t] \in Active /\ n[t] \in 1..Len(Persons(req[t])) /\ Len(Persons(req[t])) \in Nat
    BY CurrentParts DEF IInv, Progress, ClearChampions, Active, Statement
  <2>2. revoked' \in [Txn -> SUBSET Login]
    BY <2>1, CurrentParts DEF IInv, TypeOK, Progress, ClearChampions
  <2>3. CASE n[t] < Len(Persons(req[t])) /\ Goto(t, "lock") /\ n' = [n EXCEPT ![t] = n[t] + 1]
    BY <2>2, <2>3 DEF IInv, TypeOK, ClearChampions, Goto, tables, Active, Statement
  <2>4. CASE n[t] = Len(Persons(req[t])) /\ Goto(t, "commit") /\ n' = n
    BY <2>1, <2>2, <2>4 DEF IInv, TypeOK, ClearChampions, Goto, tables, Active
  <2> QED BY <2>3, <2>4, NextPersonParts DEF IInv, Progress, ClearChampions
<1>2. HasRequest'
  BY CurrentParts, NullAssumption, NextPersonParts DEF IInv, TypeOK, Rows, Progress,
     HasRequest, Places, ClearChampions, Goto
<1>3. Places'
  <2>1. n[t] \in Nat /\ n[t] >= 1
    BY CurrentParts DEF IInv, Progress, ClearChampions, Active, Statement
  <2> QED BY <2>1, NextPersonParts DEF IInv, TypeOK, Progress, Places, ClearChampions, Goto
<1>4. AccountKnown'
  BY CurrentParts, NextPersonParts DEF IInv, TypeOK, Rows, Progress, AccountKnown,
     AccountSeen, ClearChampions, Goto, tables, Statement, Ended, Committed, Working
<1>5. LoginsLocked'
  <2>1. \A u \in Txn : pc'[u] = "write" => u # t /\ pc[u] = "write"
    BY NextPersonParts DEF IInv, TypeOK, Progress, ClearChampions, Goto
  <2>2. \A u \in Txn \ {t} : n'[u] = n[u]
    BY NextPersonParts DEF IInv, TypeOK, Progress, ClearChampions
  <2> QED BY <2>1, <2>2 DEF IInv, Rows, LoginsLocked, Current, ClearChampions
<1>6. EmailsSeenDiffer'
  BY DEF IInv, Rows, EmailsSeenDiffer, PersonSeen, ClearChampions, tables
<1>7. EmailsInFlightDiffer'
  BY DEF IInv, Rows, EmailsInFlightDiffer, ClearChampions
<1>8. WroteLast'
  <2>1. \A u \in Txn : Stored(u)' = Stored(u) /\ (pc'[u] \in Working => pc[u] \in Working)
    BY NextPersonParts DEF IInv, TypeOK, Progress, ClearChampions, Goto, Stored, Working,
       Active
  <2> QED BY <2>1, WroteStays DEF IInv, Progress, ClearChampions
<1>9. LinkedOnce'
  BY CurrentParts, NullAssumption, NextPersonParts DEF IInv, TypeOK, Rows, Progress,
     HasRequest, Places, LinkedOnce, ClearChampions, Goto, tables, writes, Statement,
     Active, Ended, Committed, Working
<1>10. ChampionsReplaced'
  <2>1. pc[t] = "clear" /\ n[t] = 1
    BY DEF IInv, Progress, Places, ClearChampions
  <2>2. \A u \in Txn \ {t} : pc'[u] = pc[u] /\ n'[u] = n[u]
    BY <2>1, NextPersonMoves DEF IInv, Progress, ClearChampions
  <2>3. granted[t] = {}
    BY <2>1 DEF IInv, Progress, ChampionsReplaced, Granted, Working
  <2>4. Granted(t)' = {}
    BY <2>1, NextPersonParts DEF IInv, TypeOK, Progress, ClearChampions, Granted, Goto
  <2>5. \A u \in Txn \ {t} : Granted(u)' = Granted(u)
    BY <2>2 DEF ClearChampions, Granted
  <2>6. /\ revoked'[t] = champions[req[t].account]
        /\ \A u \in Txn \ {t} : revoked'[u] = revoked[u]
    BY DEF IInv, TypeOK, ClearChampions
  <2> QED BY <2>2, <2>3, <2>4, <2>5, <2>6
     DEF IInv, Progress, ChampionsReplaced, ClearChampions, tables
<1> QED BY <1>1, <1>2, <1>3, <1>4, <1>5, <1>6, <1>7, <1>8, <1>9, <1>10 DEF IInv, Rows, Progress

LEMMA GrantChampionKeeps ==
  ASSUME IInv, NEW t \in Txn, GrantChampion(t)
  PROVE  IInv'
<1>1. TypeOK'
  <2>1. pc[t] \in Active /\ n[t] \in 1..Len(Persons(req[t])) /\ Len(Persons(req[t])) \in Nat
    BY CurrentParts DEF IInv, Progress, GrantChampion, Active, Statement
  <2>2. granted' \in [Txn -> SUBSET Login]
    BY <2>1, CurrentParts DEF IInv, TypeOK, Progress, GrantChampion
  <2>3. CASE n[t] < Len(Persons(req[t])) /\ Goto(t, "lock") /\ n' = [n EXCEPT ![t] = n[t] + 1]
    BY <2>2, <2>3 DEF IInv, TypeOK, GrantChampion, Goto, tables, Active, Statement
  <2>4. CASE n[t] = Len(Persons(req[t])) /\ Goto(t, "commit") /\ n' = n
    BY <2>1, <2>2, <2>4 DEF IInv, TypeOK, GrantChampion, Goto, tables, Active
  <2> QED BY <2>3, <2>4, NextPersonParts DEF IInv, Progress, GrantChampion
<1>2. HasRequest'
  BY CurrentParts, NullAssumption, NextPersonParts DEF IInv, TypeOK, Progress, HasRequest,
     Places, GrantChampion, Goto, Statement, Active
<1>3. Places'
  <2>1. n[t] \in Nat /\ n[t] >= 1
    BY CurrentParts DEF IInv, Progress, GrantChampion, Active, Statement
  <2> QED BY NextPersonParts DEF IInv, TypeOK, Progress, Places, GrantChampion, Goto
<1>4. AccountKnown'
  BY CurrentParts, NullAssumption, NextPersonParts DEF IInv, TypeOK, Rows, Progress,
     AccountKnown, AccountSeen, GrantChampion, Goto, tables, Ended, Committed, Working
<1>5. LoginsLocked'
  <2>1. \A u \in Txn : pc'[u] = "write" => u # t /\ pc[u] = "write"
    BY NextPersonParts DEF IInv, TypeOK, Progress, GrantChampion, Goto
  <2>2. \A u \in Txn \ {t} : n'[u] = n[u]
    BY NextPersonParts DEF IInv, TypeOK, Progress, GrantChampion
  <2> QED BY <2>1, <2>2 DEF IInv, Rows, LoginsLocked, Current, GrantChampion
<1>6. EmailsSeenDiffer'
  BY DEF IInv, Rows, EmailsSeenDiffer, PersonSeen, GrantChampion, tables
<1>7. EmailsInFlightDiffer'
  BY DEF IInv, Rows, EmailsInFlightDiffer, GrantChampion
<1>8. WroteLast'
  <2>1. \A u \in Txn : Stored(u)' = Stored(u) /\ (pc'[u] \in Working => pc[u] \in Working)
    BY NextPersonParts, CurrentParts DEF IInv, TypeOK, Progress, GrantChampion, Goto, Stored,
       Working, Active, Statement
  <2> QED BY <2>1, WroteStays DEF IInv, Progress, GrantChampion
<1>9. LinkedOnce'
  BY CurrentParts, NullAssumption, NextPersonParts DEF IInv, TypeOK, Progress, Places,
     LinkedOnce, GrantChampion, Goto, Statement, Working
<1>10. ChampionsReplaced'
  <2>1. /\ pc[t] = "grant" /\ n[t] \in Nat /\ n[t] > 1
        /\ Persons(req[t])[n[t]].login = Current(t).login
        /\ granted' = [granted EXCEPT ![t] = granted[t] \cup {Current(t).login}]
    BY CurrentParts DEF IInv, Progress, Places, GrantChampion, Active, Statement
  <2>2. \A u \in Txn \ {t} :
          /\ Granted(u)' = Granted(u) /\ granted'[u] = granted[u]
          /\ pc'[u] = pc[u] /\ n'[u] = n[u]
    <3>1. \A u \in Txn \ {t} : granted'[u] = granted[u] /\ pc'[u] = pc[u] /\ n'[u] = n[u]
      BY NextPersonMoves DEF IInv, Progress, GrantChampion
    <3> QED BY <3>1 DEF GrantChampion, Granted
  <2>3. granted'[t] = {Persons(req[t])[i].login : i \in 2..n[t]}
    <3>1. 2..n[t] = (2..(n[t] - 1)) \cup {n[t]}
      BY <2>1
    <3>2. granted[t] = {Persons(req[t])[i].login : i \in 2..(n[t] - 1)}
      BY <2>1 DEF IInv, Progress, ChampionsReplaced, Granted, Working
    <3> QED BY <2>1, <3>2 DEF IInv, TypeOK
  <2>4. Granted(t)' = {Persons(req[t])[i].login : i \in 2..n[t]}
    BY NextPersonParts DEF IInv, TypeOK, Progress, GrantChampion, Granted, Goto
  <2>5. revoked[t] = champions[req[t].account]
    BY <2>1 DEF IInv, Progress, ChampionsReplaced, Working
  <2> QED BY <2>2, <2>3, <2>4, <2>5
     DEF IInv, Progress, ChampionsReplaced, GrantChampion, tables
<1> QED BY <1>1, <1>2, <1>3, <1>4, <1>5, <1>6, <1>7, <1>8, <1>9, <1>10 DEF IInv, Rows, Progress

LEMMA CommitKeeps ==
  ASSUME IInv, NEW t \in Txn, Commit(t)
  PROVE  IInv'
<1>1. TypeOK'
  <2>1. NoDetails \in [Login -> Details \cup {NULL}]
    BY DEF NoDetails
  <2>2. /\ req[t].account \in Account /\ req[t].owner.login \in Login
    BY CurrentParts, PersonsParts DEF IInv, Progress, Commit, Active, Entry
  <2>3. /\ person' \in [Login -> Details \cup {NULL}] /\ accounts' \in SUBSET Account
        /\ owner' \in [Account -> Login \cup {NULL}] /\ champions' \in [Account -> SUBSET Login]
    BY <2>2 DEF IInv, TypeOK, Commit, PersonSeen
  <2> QED BY <2>1, <2>3 DEF IInv, TypeOK, Commit, Forget, Goto, Active, Ended
<1>2. HasRequest'
  BY DEF IInv, Progress, HasRequest, Commit, Goto
<1>3. Places'
  BY DEF IInv, TypeOK, Progress, Places, Commit, Goto, Forget, Committed
<1>4. AccountKnown'
  BY DEF IInv, Rows, AccountKnown, AccountSeen, Commit, Goto, Forget, Working
<1>5. LoginsLocked'
  BY DEF IInv, TypeOK, Rows, LoginsLocked, Current, NoDetails, Commit, Goto, Forget,
     Committed
<1>6. EmailsSeenDiffer'
  BY DEF IInv, Rows, EmailsSeenDiffer, PersonSeen, EmailsInFlightDiffer, NoDetails, Commit,
     Forget
<1>7. EmailsInFlightDiffer'
  BY DEF IInv, Rows, EmailsInFlightDiffer, Clash, NoDetails, Commit, Forget
<1>8. WroteLast'
  BY WroteStays DEF IInv, TypeOK, Progress, Commit, Goto, Forget, Stored, Working, Committed
<1>9. LinkedOnce'
  BY DEF IInv, TypeOK, Progress, LinkedOnce, Commit, Goto, Forget, Committed
<1>10. ChampionsReplaced'
  BY DEF IInv, TypeOK, Progress, ChampionsReplaced, LinkedOnce, Granted, Commit, Goto,
     Forget, Committed
<1> QED BY <1>1, <1>2, <1>3, <1>4, <1>5, <1>6, <1>7, <1>8, <1>9, <1>10 DEF IInv, Rows, Progress

-----------------------------------------------------------------------------
(***************************************************************************)
(* The theorems.                                                           *)
(***************************************************************************)
LEMMA InitIInv == Init => IInv
<1> SUFFICES ASSUME Init PROVE IInv
  OBVIOUS
<1>1. TypeOK
  BY DEF Init, TypeOK, NoDetails, Active, Statement
<1>2. Rows
  BY DEF Init, Rows, AccountKnown, LoginsLocked, EmailsSeenDiffer, EmailsInFlightDiffer,
     PersonSeen, Clash, NoDetails, Working
<1>3. Progress
  BY DEF Init, Progress, HasRequest, Places, WroteLast, LinkedOnce, ChampionsReplaced,
     Working
<1> QED BY <1>1, <1>2, <1>3 DEF IInv

LEMMA NextIInv == IInv /\ [Next]_vars => IInv'
<1> SUFFICES ASSUME IInv, [Next]_vars PROVE IInv'
  OBVIOUS
<1>1. ASSUME NEW t \in Txn, Step(t) PROVE IInv'
  <2>1. ASSUME StatementFails(t) \/ LoseConnection(t) PROVE IInv'
    BY <2>1, StopKeeps DEF StatementFails, LoseConnection, Active
  <2>2. ASSUME Rollback(t) \/ ServerAborts(t) PROVE IInv'
    BY <2>2, ForgetKeeps DEF Rollback, ServerAborts
  <2> QED BY <1>1, <2>1, <2>2, BeginKeeps, InsertAccountKeeps, LockPersonKeeps, WritePersonKeeps,
             LinkOwnerKeeps, ClearChampionsKeeps, GrantChampionKeeps, CommitKeeps DEF
             Step, Proceed
<1>2. CASE UNCHANGED vars
  <2>1. TypeOK'
    BY <1>2 DEF IInv, TypeOK, vars, tables, writes
  <2>2. Rows'
    BY <1>2 DEF IInv, Rows, AccountKnown, AccountSeen, LoginsLocked, Current,
       EmailsSeenDiffer, EmailsInFlightDiffer, PersonSeen, vars, tables, writes
  <2>3. WroteLast'
    BY <1>2, WroteStays DEF IInv, Progress, Stored, vars, writes
  <2>4. Progress'
    BY <1>2, <2>3 DEF IInv, Progress, HasRequest, Places, LinkedOnce, ChampionsReplaced,
       Granted, vars, tables, writes
  <2> QED BY <2>1, <2>2, <2>4 DEF IInv
<1> QED BY <1>1, <1>2 DEF Next

\* The inductive invariant holds however the statements of concurrent requests, their
\* failures and their rollbacks are interleaved.
THEOREM IInvCorrect == Spec => []IInv
<1> QED BY InitIInv, NextIInv, PTL DEF Spec

\* Every reachable state has the types declared.
THEOREM TypeCorrect == Spec => []TypeOK
<1>1. IInv => TypeOK
  BY DEF IInv
<1> QED BY <1>1, IInvCorrect, PTL

\* The SELECTs of ids find the account and the owner, whoever commits in between.
THEOREM IdsAreFound == Spec => []IdsFound
<1>1. ASSUME IInv PROVE IdsFound
  <2> SUFFICES ASSUME NEW t \in Txn, pc[t] = "link"
               PROVE  AccountSeen(t) /\ PersonSeen(t, req[t].owner.login) # NULL
    BY DEF IdsFound
  <2>1. /\ pc[t] \in Working /\ Stored(t) = 1
        /\ Persons(req[t])[1].login = req[t].owner.login /\ req[t].owner.login \in Login
    BY <1>1, PersonsParts DEF IInv, Progress, HasRequest, Places, Working, Stored, Entry
  <2>2. wrote[t][req[t].owner.login] # NULL
    BY <1>1, <2>1 DEF IInv, Progress, WroteLast
  <2> QED BY <1>1, <2>1, <2>2 DEF IInv, Rows, AccountKnown, PersonSeen
<1> QED BY <1>1, IInvCorrect, PTL

\* COMMIT is the step that accepts a request.
LEMMA CommitAccepts ==
  ASSUME IInv, NEW t \in Txn, NEW q \in Request, q = req[t], Commit(t)
  PROVE  Directory!Accept(t, q)
<1> DEFINE Accepted == [u \in Txn |-> IF pc[u] \in Committed THEN req[u] ELSE NULL]
<1>1. /\ pc[t] = "commit" /\ pc[t] \in Working /\ q \in Request
      /\ n[t] = Len(Persons(q)) /\ Stored(t) = n[t] /\ linked[t]
      /\ AccountSeen(t) /\ revoked[t] = champions[q.account] /\ granted[t] = Granted(t)
  BY DEF IInv, Rows, AccountKnown, Progress, Places, LinkedOnce, ChampionsReplaced, Stored,
     Working, Commit
<1>2. Directory!Persons(q) = Persons(q)
  BY DEF Persons, Directory!Persons
<1>3. Accepted[t] = NULL /\ Accepted' = [Accepted EXCEPT ![t] = q]
  BY <1>1 DEF IInv, TypeOK, Commit, Goto, Committed
<1>4. person' = [l \in Login |-> IF Directory!Mentions(q, l) = {}
                                 THEN person[l]
                                 ELSE Directory!Persons(q)[Directory!LastMention(q, l)].details]
  <2> SUFFICES ASSUME NEW l \in Login
               PROVE  PersonSeen(t, l) = IF Directory!Mentions(q, l) = {}
                                         THEN person[l]
                                         ELSE Persons(q)[Directory!LastMention(q, l)].details
    BY <1>2 DEF Commit
  <2>1. Directory!Mentions(q, l) = {i \in 1..n[t] : Persons(q)[i].login = l}
    BY <1>1, <1>2 DEF Directory!Mentions
  <2>2. CASE wrote[t][l] = NULL
    BY <1>1, <2>1, <2>2 DEF IInv, Progress, WroteLast, PersonSeen
  <2>3. CASE wrote[t][l] # NULL
    <3>1. PICK i \in 1..n[t] : SaysLast(t, l, i)
      BY <1>1, <2>3 DEF IInv, Progress, WroteLast
    <3>2. /\ i \in Directory!Mentions(q, l) /\ Persons(q)[i].details = wrote[t][l]
          /\ \A j \in Directory!Mentions(q, l) : j <= i
      BY <1>1, <2>1, <3>1 DEF SaysLast
    <3>3. \A j \in Directory!Mentions(q, l) : (\A k \in Directory!Mentions(q, l) : k <= j) => j = i
      BY <2>1, <3>2
    <3>4. Directory!LastMention(q, l) = i
      BY <3>2, <3>3 DEF Directory!LastMention
    <3> QED BY <2>3, <3>2, <3>4 DEF PersonSeen
  <2> QED BY <2>2, <2>3
<1>5. Directory!EmailsDiffer(person')
  <2>1. \A l \in Login : person'[l] = PersonSeen(t, l)
    BY DEF Commit
  <2> QED BY <2>1 DEF IInv, Rows, EmailsSeenDiffer, Clash, Directory!EmailsDiffer
<1>6. /\ accounts' = accounts \cup {q.account}
      /\ owner' = [owner EXCEPT ![q.account] = q.owner.login]
  BY <1>1 DEF Commit, AccountSeen
<1>7. champions' = [champions EXCEPT ![q.account] = Directory!Champions(q)]
  <2>1. Directory!Champions(q) = Granted(t)
    <3>1. /\ \A i \in 1..Len(q.champions) : i + 1 \in 2..n[t] /\ Persons(q)[i + 1] = q.champions[i]
          /\ \A i \in 2..n[t] : i - 1 \in 1..Len(q.champions) /\ Persons(q)[i] = q.champions[i - 1]
      <4>1. /\ Len(q.champions) \in Nat /\ n[t] = Len(q.champions) + 1
            /\ \A i \in 1..Len(q.champions) : Persons(q)[i + 1] = q.champions[i]
        BY <1>1, PersonsParts
      <4> QED BY <4>1
    <3>2. Granted(t) = {Persons(q)[i].login : i \in 2..n[t]}
      BY <1>1 DEF Granted
    <3> QED BY <3>1, <3>2 DEF Directory!Champions
  <2> QED BY <1>1, <2>1 DEF Commit, IInv, TypeOK
<1> QED BY <1>3, <1>4, <1>5, <1>6, <1>7 DEF Directory!Accept

\* The other steps leave the tables and the accepted requests.
LEMMA OthersStutter ==
  ASSUME IInv, [Next]_vars, ~ \E t \in Txn : Commit(t)
  PROVE  UNCHANGED Directory!vars
<1> DEFINE Accepted == [u \in Txn |-> IF pc[u] \in Committed THEN req[u] ELSE NULL]
<1>1. CASE UNCHANGED vars
  BY <1>1 DEF vars, tables, Directory!vars
<1>2. ASSUME NEW t \in Txn, Step(t) PROVE UNCHANGED Directory!vars
  <2>1. UNCHANGED tables
    BY <1>2 DEF Step, Proceed, Begin, InsertAccount, LockPerson, WritePerson, LinkOwner,
       ClearChampions, GrantChampion, Rollback, StatementFails, LoseConnection,
       ServerAborts
  <2>2. /\ pc[t] \notin Committed /\ pc'[t] \notin Committed
        /\ \A u \in Txn \ {t} : pc'[u] = pc[u] /\ req'[u] = req[u]
    <3>1. CASE ClearChampions(t) \/ GrantChampion(t)
      BY <3>1, NextPersonMoves DEF IInv, Progress, ClearChampions, GrantChampion, Committed
    <3>2. CASE ~(ClearChampions(t) \/ GrantChampion(t))
      BY <1>2, <3>2 DEF IInv, TypeOK, Step, Proceed, Begin, InsertAccount, LockPerson,
         WritePerson, LinkOwner, Rollback, StatementFails, LoseConnection, ServerAborts,
         Goto, Committed, Statement, Active
    <3> QED BY <3>1, <3>2
  <2>3. Accepted' = Accepted
    BY <2>2
  <2> QED BY <2>1, <2>3 DEF tables, Directory!vars
<1> QED BY <1>1, <1>2 DEF Next

\* However its statements interleave, StoreAccountOwner implements the atomic
\* directory: the owner and the champions of an account are those of one request.
THEOREM StoreImplementsDirectory == Spec => ImplementsDirectory
<1>1. Init => Directory!Init
  BY DEF Init, Directory!Init, NoDetails
<1>2. ASSUME IInv, [Next]_vars PROVE [Directory!Next]_(Directory!vars)
  <2>1. CASE \E t \in Txn : Commit(t)
    <3>1. PICK t \in Txn : Commit(t)
      BY <2>1
    <3>2. PICK q \in Request : q = req[t]
      BY <1>2, <3>1 DEF IInv, Progress, HasRequest, Commit
    <3>3. Directory!Accept(t, q)
      BY <1>2, <3>1, <3>2, CommitAccepts
    <3> QED BY <3>3 DEF Directory!Next
  <2>2. CASE ~ \E t \in Txn : Commit(t)
    BY <1>2, <2>2, OthersStutter
  <2> QED BY <2>1, <2>2
<1> QED
  BY <1>1, <1>2, IInvCorrect, PTL DEF Spec, Directory!Spec, ImplementsDirectory

=============================================================================
