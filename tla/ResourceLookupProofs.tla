----------------------- MODULE ResourceLookupProofs -----------------------
(***************************************************************************)
(* Proofs about ResourceLookup, for any resources, addresses and           *)
(* relationships, and for any number of lookups while changes are stored.  *)
(***************************************************************************)
EXTENDS ResourceLookup, TLAPS

\* A lookup that is running has been asked for something, and has no answer yet.
Running ==
  \A l \in Lookup :
    /\ step[l] # "idle" => asked[l] # NULL
    /\ step[l] # "done" => answer[l] = NULL

\* The holder was found by the ARN id that the first statement has found.
HolderOfParent ==
  \A l \in Lookup : step[l] = "rows" /\ holder[l] # NULL =>
    holder[l] \in registered /\ ArnId[holder[l]] = parent[l]

\* The resource of an address is registered (db.go:352: it is, before its addresses).
HoldersRegistered ==
  \A row \in rows : row.subject \notin Relationships => row.subject.of \in registered

\* The first statement has found an ARN id by the time of the second.
ParentFound == \A l \in Lookup : step[l] \in {"holder", "rows"} => parent[l] \in Arn

IInv == TypeOK /\ Running /\ HolderOfParent /\ HoldersRegistered /\ ParentFound

-----------------------------------------------------------------------------
(***************************************************************************)
(* The rows.                                                               *)
(***************************************************************************)
LEMMA EventIsTime == \A when \in Event : when \in Time
BY LookupAssumption DEF Event, Time, EPOCH

\* An operation writes rows, of its own subject or as they were before.
LEMMA ApplyType ==
  ASSUME NEW rs, rs \subseteq Row, NEW op \in Op, NEW when \in Time
  PROVE  \A row \in Apply(rs, op, when) :
           row \in Row /\ (row.subject = op.subject \/ \E old \in rs : old.subject = row.subject)
<1>1. NewRow(op, when) \in Row /\ NewRow(op, when).subject = op.subject
  BY LookupAssumption DEF NewRow, EPOCH, Row, Op, Time
<1>2. ASSUME NEW row \in Row
      PROVE  Updated(row, op, when) \in Row /\ Updated(row, op, when).subject = row.subject
  <2>1. CASE op.kind = "ADDED"
    BY <2>1 DEF Updated, Row, Time
  <2>2. CASE op.kind # "ADDED"
    BY <2>2 DEF Updated, Row, Time
  <2> QED BY <2>1, <2>2
<1> QED BY <1>1, <1>2 DEF Apply

LEMMA SubjectParts ==
  ASSUME NEW s \in Subject
  PROVE  /\ s \in Relationships => s.of \in Arn
         /\ s \notin Relationships => s.of \in Resource
         /\ s \in Addresses("private") \/ s \in Addresses("public") <=> s \notin Relationships
BY LookupAssumption DEF Relationships, Addresses

\* The rows of an address of a resource.
LEMMA AddressRowParts ==
  ASSUME TypeOK, NEW table \in {"private", "public"}, NEW r, NEW row \in AddressRows(table, r)
  PROVE  /\ row \in rows /\ row \in Row /\ row # NULL
         /\ row.subject \in Addresses(table) /\ row.subject \notin Relationships
         /\ row.subject.of = r /\ r \in Resource
<1>1. row \in rows /\ row.subject.of = r /\ row.subject.table = table
        /\ row.subject \notin Relationships
  BY DEF AddressRows, RowsOf
<1>2. row \in Row /\ row # NULL /\ row.subject \in Subject
  BY <1>1, LookupAssumption DEF TypeOK, Row
<1> QED BY <1>1, <1>2, SubjectParts DEF Addresses

-----------------------------------------------------------------------------
(***************************************************************************)
(* The answer of a lookup by resource id.                                  *)
(***************************************************************************)
LEMMA ResultParts ==
  ASSUME TypeOK, NEW arn, NEW r, NEW ts, NEW found \in ResultRows(arn, r, ts)
  PROVE  /\ found.of \in registered /\ found.of \in Resource
         /\ found.private # NULL =>
              found.private \in AddressRows("private", r) /\ ActiveAt(found.private, ts)
         /\ found.public # NULL =>
              found.public \in AddressRows("public", r) /\ ActiveAt(found.public, ts)
<1>1. /\ found.of \in registered
      /\ found.private \in LeftJoin(AddressRows("private", r))
      /\ found.public \in LeftJoin(AddressRows("public", r))
      /\ PassesWhere(found.private, ts) /\ PassesWhere(found.public, ts)
  BY DEF ResultRows
<1> QED BY <1>1 DEF LeftJoin, PassesWhere, TypeOK

\* What an asset shows are rows of the holder that are active.
LEMMA MergeParts ==
  ASSUME TypeOK, NEW arn, NEW r, NEW ts, NEW last \in ResultRows(arn, r, ts)
  PROVE  LET asset == Merge(ResultRows(arn, r, ts), last) IN
         /\ asset \in Asset
         /\ \A ip \in asset.private :
              \E row \in AddressRows("private", r) : ActiveAt(row, ts) /\ row.subject.ip = ip
         /\ \A ip \in asset.public :
              \E row \in AddressRows("public", r) : ActiveAt(row, ts) /\ row.subject.ip = ip
         /\ \A name \in asset.hostnames :
              \E row \in AddressRows("public", r) : ActiveAt(row, ts) /\ row.subject.hostname = name
<1> DEFINE result == ResultRows(arn, r, ts)
           asset == Merge(result, last)
           private == {found.private : found \in result} \ {NULL}
           public == {found.public : found \in result} \ {NULL}
<1>1. /\ asset.account = Account[last.of]
      /\ asset.champions = {Account[found.of] : found \in result}
      /\ asset.private = {row.subject.ip : row \in private}
      /\ asset.public = {row.subject.ip : row \in public}
      /\ asset.hostnames = {row.subject.hostname : row \in public}
      /\ asset = [account |-> asset.account, champions |-> asset.champions,
                  private |-> asset.private, public |-> asset.public,
                  hostnames |-> asset.hostnames]
  BY DEF Merge
<1>2. \A row \in private : row \in AddressRows("private", r) /\ ActiveAt(row, ts)
  BY ResultParts
<1>3. \A row \in public : row \in AddressRows("public", r) /\ ActiveAt(row, ts)
  BY ResultParts
<1>4. \A found \in result : Account[found.of] \in Accounts
  BY ResultParts DEF Accounts
<1>5. \A row \in private : row.subject.ip \in IPs("private")
  BY <1>2, AddressRowParts DEF IPs
<1>6. \A row \in public : row.subject.ip \in IPs("public") /\ row.subject.hostname \in Hostnames
  BY <1>3, AddressRowParts DEF IPs, Hostnames
<1>7. asset \in Asset
  <2>1. /\ asset.account \in Accounts /\ asset.champions \subseteq Accounts
        /\ asset.private \subseteq IPs("private") /\ asset.public \subseteq IPs("public")
        /\ asset.hostnames \subseteq Hostnames
    BY <1>1, <1>4, <1>5, <1>6
  <2> QED BY <1>1, <2>1 DEF Asset
<1> HIDE DEF asset, private, public
<1>8. \A ip \in asset.private :
        \E row \in AddressRows("private", r) : ActiveAt(row, ts) /\ row.subject.ip = ip
  BY <1>1, <1>2
<1>9. \A ip \in asset.public :
        \E row \in AddressRows("public", r) : ActiveAt(row, ts) /\ row.subject.ip = ip
  BY <1>1, <1>3
<1>10. \A name \in asset.hostnames :
         \E row \in AddressRows("public", r) : ActiveAt(row, ts) /\ row.subject.hostname = name
  BY <1>1, <1>3
<1> QED BY <1>7, <1>8, <1>9, <1>10 DEF asset

-----------------------------------------------------------------------------
(***************************************************************************)
(* The invariant.                                                          *)
(***************************************************************************)
LEMMA StoreKeeps == ASSUME IInv, NEW r \in Resource, Store(r) PROVE IInv'
<1>1. TypeOK /\ rows \subseteq Row /\ UNCHANGED lookupVars
        /\ registered' = registered \cup {r} /\ stored' = stored + 1 /\ stored < MaxStored
  BY DEF IInv, TypeOK, Store
<1>2. ASSUME NEW row \in rows'
      PROVE  row \in Row /\ (row.subject \notin Relationships => row.subject.of \in registered')
  <2>1. CASE row \in rows
    BY <1>1, <2>1 DEF IInv, HoldersRegistered
  <2>2. CASE row \notin rows
    <3>1. PICK op \in Op, when \in Event :
            /\ op.subject.of = IF op.subject \in Relationships THEN ArnId[r] ELSE r
            /\ rows' = Apply(rows, op, when)
      BY <1>2, <2>2 DEF Store
    <3>2. row \in Row /\ (row.subject = op.subject \/ \E old \in rows : old.subject = row.subject)
      BY <1>1, <1>2, <3>1, ApplyType, EventIsTime
    <3> QED BY <1>1, <3>1, <3>2 DEF IInv, HoldersRegistered
  <2> QED BY <2>1, <2>2
<1>3. TypeOK'
  BY <1>1, <1>2, LookupAssumption DEF TypeOK, lookupVars
<1>4. Running' /\ ParentFound' /\ HolderOfParent'
  BY <1>1 DEF IInv, Running, ParentFound, HolderOfParent, lookupVars
<1> QED BY <1>2, <1>3, <1>4 DEF IInv, HoldersRegistered

LEMMA AskKeeps ==
  ASSUME IInv, NEW l \in Lookup, NEW arn \in Arn, NEW ts \in Instant, Ask(l, arn, ts)
  PROVE  IInv'
<1>1. [arn |-> arn, at |-> ts] \in Question /\ [arn |-> arn, at |-> ts] # NULL
  BY LookupAssumption DEF Question
<1> QED
  BY <1>1 DEF IInv, TypeOK, Running, HolderOfParent, HoldersRegistered, ParentFound, Ask, Goto

LEMMA FindParentKeeps == ASSUME IInv, NEW l \in Lookup, FindParent(l) PROVE IInv'
<1>1. PICK a \in IF Parents(asked[l].arn) = {} THEN {asked[l].arn} ELSE Parents(asked[l].arn) :
        parent' = [parent EXCEPT ![l] = a]
  BY DEF FindParent
<1>2. a \in Arn
  <2>1. asked[l].arn \in Arn
    BY DEF IInv, TypeOK, Running, FindParent, Question
  <2>2. Parents(asked[l].arn) \subseteq Arn
    BY SubjectParts DEF Parents, IInv, TypeOK, Row
  <2> QED BY <1>1, <2>1, <2>2
<1> QED
  BY <1>1, <1>2
  DEF IInv, TypeOK, Running, HolderOfParent, HoldersRegistered, ParentFound, FindParent, Goto

LEMMA FindHolderKeeps == ASSUME IInv, NEW l \in Lookup, FindHolder(l) PROVE IInv'
<1>1. PICK r \in LeftJoin({res \in registered : ArnId[res] = parent[l]}) :
        holder' = [holder EXCEPT ![l] = r]
  BY DEF FindHolder
<1>2. r = NULL \/ (r \in registered /\ r \in Resource /\ ArnId[r] = parent[l])
  BY <1>1 DEF LeftJoin, IInv, TypeOK
<1> QED
  BY <1>1, <1>2
  DEF IInv, TypeOK, Running, HolderOfParent, HoldersRegistered, ParentFound, FindHolder, Goto

LEMMA ReturnRowsKeeps == ASSUME IInv, NEW l \in Lookup, ReturnRows(l) PROVE IInv'
<1>1. answer' \in [Lookup -> Asset \cup {NULL}] /\ \A k \in Lookup \ {l} : answer'[k] = answer[k]
  <2>1. CASE UNCHANGED answer
    BY <2>1 DEF IInv, TypeOK
  <2>2. ASSUME NEW last \in ResultRows(asked[l].arn, holder[l], asked[l].at),
               answer' = [answer EXCEPT ![l] =
                            Merge(ResultRows(asked[l].arn, holder[l], asked[l].at), last)]
        PROVE  answer' \in [Lookup -> Asset \cup {NULL}]
                 /\ \A k \in Lookup \ {l} : answer'[k] = answer[k]
    <3>1. Merge(ResultRows(asked[l].arn, holder[l], asked[l].at), last) \in Asset
      BY <2>2, MergeParts DEF IInv
    <3> QED BY <2>2, <3>1 DEF IInv, TypeOK
  <2> QED BY <2>1, <2>2 DEF ReturnRows
<1> QED
  BY <1>1
  DEF IInv, TypeOK, Running, HolderOfParent, HoldersRegistered, ParentFound, ReturnRows, Goto

\* In every state the statements of a lookup have found what the next one needs, and
\* addresses belong to registered resources.
THEOREM IInvCorrect == Spec => []IInv
<1>1. Init => IInv
  BY LookupAssumption
  DEF Init, IInv, TypeOK, Running, HolderOfParent, HoldersRegistered, ParentFound
<1>2. IInv /\ [Next]_vars => IInv'
  <2>1. ASSUME IInv, UNCHANGED vars PROVE IInv'
    BY <2>1
    DEF IInv, TypeOK, Running, HolderOfParent, HoldersRegistered, ParentFound, vars, lookupVars
  <2> QED
    BY <2>1, StoreKeeps, AskKeeps, FindParentKeeps, FindHolderKeeps, ReturnRowsKeeps DEF Next
<1> QED BY <1>1, <1>2, PTL DEF Spec

\* Every reachable state has the types declared: an answer has accounts, addresses and
\* hostnames that the tables know.
THEOREM TypeCorrect == Spec => []TypeOK
BY IInvCorrect, PTL DEF IInv

-----------------------------------------------------------------------------
(***************************************************************************)
(* The lookups by address and by hostname find what a lookup by resource   *)
(* id shows.                                                               *)
(***************************************************************************)
LEMMA FoundOfHolder ==
  ASSUME IInv, NEW l \in Lookup, step[l] = "rows", NEW found, found \subseteq rows,
         NEW row \in found, \A r \in found : r.subject \notin Relationships,
         holder[l] # NULL, row.subject.of = holder[l]
  PROVE  Finds(l, runLookupQuery(found))
<1> DEFINE asset == [arn |-> parent[l],
                     accounts |-> {Account[r.subject.of] :
                                     r \in {x \in found : ArnId[x.subject.of] = parent[l]}}]
<1>1. ArnId[row.subject.of] = parent[l]
  BY DEF IInv, HolderOfParent
<1>2. asset \in runLookupQuery(found)
  BY <1>1 DEF runLookupQuery
<1>3. asset.accounts \subseteq {Account[r] : r \in {res \in registered : ArnId[res] = parent[l]}}
  BY DEF IInv, HoldersRegistered
<1> QED BY <1>2, <1>3 DEF Finds

LEMMA ReturnAgrees ==
  ASSUME IInv, NEW l \in Lookup, ReturnRows(l), answer'[l] # NULL
  PROVE  /\ \A ip \in answer'[l].private \cap InPrivateNetwork :
              Finds(l, FetchByIP(ip, asked[l].at))
         /\ \A ip \in answer'[l].public \ InPrivateNetwork :
              Finds(l, FetchByIP(ip, asked[l].at))
         /\ \A name \in answer'[l].hostnames :
              Finds(l, FetchByHostname(name, asked[l].at))
<1> DEFINE result == ResultRows(asked[l].arn, holder[l], asked[l].at)
           ts == asked[l].at
<1>1. TypeOK /\ step[l] = "rows" /\ answer[l] = NULL
  BY DEF IInv, Running, ReturnRows
<1>2. PICK last \in result : answer'[l] = Merge(result, last)
  BY <1>1 DEF ReturnRows, TypeOK
<1>3. /\ \A ip \in answer'[l].private :
           \E row \in AddressRows("private", holder[l]) : ActiveAt(row, ts) /\ row.subject.ip = ip
      /\ \A ip \in answer'[l].public :
           \E row \in AddressRows("public", holder[l]) : ActiveAt(row, ts) /\ row.subject.ip = ip
      /\ \A name \in answer'[l].hostnames :
           \E row \in AddressRows("public", holder[l]) :
             ActiveAt(row, ts) /\ row.subject.hostname = name
  BY <1>1, <1>2, MergeParts
<1>4. ASSUME NEW table \in {"private", "public"}, NEW row \in AddressRows(table, holder[l]),
             ActiveAt(row, ts), NEW found, row \in found, found \subseteq FoundRows(table, ts)
      PROVE  Finds(l, runLookupQuery(found))
  <2>1. row.subject.of = holder[l] /\ holder[l] # NULL
    BY <1>1, <1>4, AddressRowParts, LookupAssumption
  <2>2. found \subseteq rows /\ \A r \in found : r.subject \notin Relationships
    BY <1>4 DEF FoundRows, Addresses, Relationships
  <2> QED BY <1>1, <1>4, <2>1, <2>2, FoundOfHolder
<1>5. ASSUME NEW table \in {"private", "public"}, NEW row \in AddressRows(table, holder[l]),
             ActiveAt(row, ts)
      PROVE  row \in FoundRows(table, ts)
  BY <1>1, <1>5, AddressRowParts DEF FoundRows
<1>6. ASSUME NEW ip \in answer'[l].private, ip \in InPrivateNetwork
      PROVE  Finds(l, FetchByIP(ip, ts))
  <2>1. PICK row \in AddressRows("private", holder[l]) : ActiveAt(row, ts) /\ row.subject.ip = ip
    BY <1>3, <1>6
  <2>2. FetchByIP(ip, ts) = runLookupQuery({r \in FoundRows("private", ts) : r.subject.ip = ip})
    BY <1>6 DEF FetchByIP, isPrivateIP
  <2> QED BY <1>4, <1>5, <2>1, <2>2
<1>7. ASSUME NEW ip \in answer'[l].public, ip \notin InPrivateNetwork
      PROVE  Finds(l, FetchByIP(ip, ts))
  <2>1. PICK row \in AddressRows("public", holder[l]) : ActiveAt(row, ts) /\ row.subject.ip = ip
    BY <1>3, <1>7
  <2>2. FetchByIP(ip, ts) = runLookupQuery({r \in FoundRows("public", ts) : r.subject.ip = ip})
    BY <1>7 DEF FetchByIP, isPrivateIP
  <2> QED BY <1>4, <1>5, <2>1, <2>2
<1>8. ASSUME NEW name \in answer'[l].hostnames
      PROVE  Finds(l, FetchByHostname(name, ts))
  <2>1. PICK row \in AddressRows("public", holder[l]) :
          ActiveAt(row, ts) /\ row.subject.hostname = name
    BY <1>3, <1>8
  <2> QED BY <1>4, <1>5, <2>1 DEF FetchByHostname
<1> QED BY <1>6, <1>7, <1>8

\* A lookup that returns is one step of ReturnRows, of the same lookup.
LEMMA ReturnsIsReturnRows ==
  ASSUME IInv, [Next]_vars, NEW l \in Lookup, Returns(l)
  PROVE  ReturnRows(l)
<1>1. step \in [Lookup -> {"idle", "parent", "holder", "rows", "done"}]
        /\ step[l] = "rows" /\ step'[l] = "done"
  BY DEF IInv, TypeOK, Returns
<1>2. ~UNCHANGED step
  BY <1>1
<1>3. ASSUME NEW k \in Lookup,
             (\E arn \in Arn, ts \in Instant : Ask(k, arn, ts)) \/ FindParent(k) \/ FindHolder(k)
      PROVE  FALSE
  BY <1>1, <1>3 DEF Ask, FindParent, FindHolder, Goto
<1>4. PICK k \in Lookup : ReturnRows(k)
  BY <1>2, <1>3 DEF Next, Store, vars, lookupVars
<1>5. k = l
  BY <1>1, <1>4 DEF ReturnRows, Goto
<1> QED BY <1>4, <1>5

\* Whatever a lookup by resource id shows, the lookups by address and by hostname find at
\* the same instant, for any changes that are stored between its three statements
\* (migration 14 against migration 13).
THEOREM LookupsDoAgree == Spec => LookupsAgree
<1>1. IInv /\ [Next]_vars =>
        [\A l \in Lookup : Returns(l) /\ answer'[l] # NULL =>
           /\ \A ip \in answer'[l].private \cap InPrivateNetwork :
                Finds(l, FetchByIP(ip, asked[l].at))
           /\ \A ip \in answer'[l].public \ InPrivateNetwork :
                Finds(l, FetchByIP(ip, asked[l].at))
           /\ \A name \in answer'[l].hostnames :
                Finds(l, FetchByHostname(name, asked[l].at))]_vars
  BY ReturnsIsReturnRows, ReturnAgrees
<1> QED BY <1>1, IInvCorrect, PTL DEF Spec, LookupsAgree

-----------------------------------------------------------------------------
(***************************************************************************)
(* Nothing that is held is lost between the two joins.                     *)
(***************************************************************************)
\* What the join can take of a table that does not stand in the way.
LEMMA PassableParts ==
  ASSUME TypeOK, NEW l \in Lookup, NEW table \in {"private", "public"}, Passable(l, table)
  PROVE  \E row \in LeftJoin(AddressRows(table, holder[l])) : PassesWhere(row, asked[l].at)
<1>1. CASE AddressRows(table, holder[l]) = {}
  BY <1>1 DEF LeftJoin, PassesWhere
<1>2. CASE HeldRows(l, table) # {}
  BY <1>2 DEF HeldRows, LeftJoin, PassesWhere
<1> QED BY <1>1, <1>2 DEF Passable

LEMMA HeldPasses ==
  ASSUME TypeOK, NEW l \in Lookup, NEW table \in {"private", "public"},
         NEW row \in HeldRows(l, table)
  PROVE  /\ row \in LeftJoin(AddressRows(table, holder[l]))
         /\ PassesWhere(row, asked[l].at) /\ row # NULL
BY AddressRowParts DEF HeldRows, LeftJoin, PassesWhere

LEMMA ReturnIsFull ==
  ASSUME IInv, NEW l \in Lookup, ReturnRows(l),
         \E r \in registered : ArnId[r] = asked[l].arn,
         Passable(l, "private"), Passable(l, "public")
  PROVE  /\ answer'[l] # NULL
         /\ answer'[l].private = HeldIPs(l, "private")
         /\ answer'[l].public = HeldIPs(l, "public")
<1> DEFINE ts == asked[l].at
           result == ResultRows(asked[l].arn, holder[l], ts)
<1>1. TypeOK /\ step[l] = "rows"
  BY DEF IInv, ReturnRows
<1>2. PICK res \in registered : ArnId[res] = asked[l].arn
  OBVIOUS
<1>3. \A private \in LeftJoin(AddressRows("private", holder[l])) :
        \A public \in LeftJoin(AddressRows("public", holder[l])) :
          PassesWhere(private, ts) /\ PassesWhere(public, ts) =>
            [of |-> res, private |-> private, public |-> public] \in result
  BY <1>2 DEF ResultRows
<1>4. PICK private \in LeftJoin(AddressRows("private", holder[l])) : PassesWhere(private, ts)
  BY <1>1, PassableParts
<1>5. PICK public \in LeftJoin(AddressRows("public", holder[l])) : PassesWhere(public, ts)
  BY <1>1, PassableParts
<1>6. result # {}
  BY <1>3, <1>4, <1>5
<1>7. PICK last \in result : answer' = [answer EXCEPT ![l] = Merge(result, last)]
  BY <1>6 DEF ReturnRows
<1>8. answer'[l] = Merge(result, last)
  BY <1>1, <1>7 DEF TypeOK
<1>9. /\ answer'[l].private = {row.subject.ip : row \in {found.private : found \in result} \ {NULL}}
      /\ answer'[l].public = {row.subject.ip : row \in {found.public : found \in result} \ {NULL}}
  BY <1>8 DEF Merge
<1>10. {found.private : found \in result} \ {NULL} = HeldRows(l, "private")
  <2>1. \A found \in result : found.private # NULL => found.private \in HeldRows(l, "private")
    BY <1>1, ResultParts DEF HeldRows
  <2>2. ASSUME NEW row \in HeldRows(l, "private")
        PROVE  row # NULL /\ \E found \in result : found.private = row
    <3>1. /\ row \in LeftJoin(AddressRows("private", holder[l])) /\ PassesWhere(row, ts)
          /\ row # NULL
      BY <1>1, HeldPasses
    <3>2. [of |-> res, private |-> row, public |-> public] \in result
      BY <1>3, <1>5, <3>1
    <3> QED BY <3>1, <3>2
  <2> QED BY <2>1, <2>2
<1>11. {found.public : found \in result} \ {NULL} = HeldRows(l, "public")
  <2>1. \A found \in result : found.public # NULL => found.public \in HeldRows(l, "public")
    BY <1>1, ResultParts DEF HeldRows
  <2>2. ASSUME NEW row \in HeldRows(l, "public")
        PROVE  row # NULL /\ \E found \in result : found.public = row
    <3>1. /\ row \in LeftJoin(AddressRows("public", holder[l])) /\ PassesWhere(row, ts)
          /\ row # NULL
      BY <1>1, HeldPasses
    <3>2. [of |-> res, private |-> private, public |-> row] \in result
      BY <1>3, <1>4, <3>1
    <3> QED BY <3>1, <3>2
  <2> QED BY <2>1, <2>2
<1>12. answer'[l] # NULL
  BY <1>1, <1>8, MergeParts, LookupAssumption
<1> QED BY <1>9, <1>10, <1>11, <1>12 DEF HeldIPs

\* When neither table stands in the way, a lookup by resource id shows every address
\* that its holder has then, and no other (migration 14).
THEOREM AnswersAreFull == Spec => FoundInFull
<1>1. IInv /\ [Next]_vars =>
        [\A l \in Lookup :
           /\ Returns(l) /\ holder[l] # NULL
           /\ \E r \in registered : ArnId[r] = asked[l].arn
           /\ Passable(l, "private") /\ Passable(l, "public")
           => /\ answer'[l] # NULL
              /\ answer'[l].private = HeldIPs(l, "private")
              /\ answer'[l].public = HeldIPs(l, "public")]_vars
  BY ReturnsIsReturnRows, ReturnIsFull
<1> QED BY <1>1, IInvCorrect, PTL DEF Spec, FoundInFull
=============================================================================
