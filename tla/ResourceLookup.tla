--------------------------- MODULE ResourceLookup ---------------------------
(***************************************************************************)
(* The lookups of pkg/storage/db.go and the SQL functions they call, while *)
(* changes are being stored.                                               *)
(*                                                                         *)
(* get_resource_by_arn_id is three statements, each with a snapshot of its *)
(* own, and asks the relationships first: the addresses of a load balancer *)
(* are those of its network interface.  A lookup by address or hostname is *)
(* one statement.  Changes are stored one at a time here (StoreTx has them *)
(* run concurrently): each one is one event.                               *)
(***************************************************************************)
EXTENDS AssignmentRows

CONSTANTS
  Resource,    \* rows of aws_resource
  ArnId,       \* ArnId[r]: its arn_id, which others may have in other accounts
  Account,     \* Account[r]: its account
  InPrivateNetwork, \* the addresses in one of privateIPNetworks
  Lookup,      \* calls of FetchByResourceID
  MaxTime,     \* bound: the last event
  MaxStored    \* bound: the changes that are stored

Arn == {ArnId[r] : r \in Resource}
Accounts == {Account[r] : r \in Resource}

\* Subjects: [table, of, ip, hostname] with a resource as "of", NULL as the
\* hostname of a private address; and [table, of, related] with two ARN ids.
Addresses(table) == {s \in Subject : s.table = table}
Relationships == {s \in Subject : s.table = "relationship"}
IPs(table) == {s.ip : s \in Addresses(table)}

\* Events have even times, lookups ask for instants between them.
Event == {2 * i : i \in 1..MaxTime}
Instant == {2 * i + 1 : i \in 0..MaxTime}

\* What a lookup is asked, and what it answers.
Question == [arn : Arn, at : Instant]

Hostnames == {s.hostname : s \in Addresses("public")}

Asset == [account : Accounts, champions : SUBSET Accounts,
          private : SUBSET IPs("private"), public : SUBSET IPs("public"),
          hostnames : SUBSET Hostnames]

ASSUME LookupAssumption ==
  /\ Subject = UNION {Addresses("private"), Addresses("public"), Relationships}
  /\ \A s \in Subject :
       IF s.table = "relationship" THEN s.of \in Arn ELSE s.of \in Resource
  /\ MaxTime \in Nat /\ MaxStored \in Nat
  /\ InPrivateNetwork \subseteq IPs("private") \cup IPs("public")
  /\ NULL \notin Nat \cup Resource \cup Arn \cup Row \cup Question \cup Asset

VARIABLES
  rows,        \* the rows of the assignment tables
  registered,  \* the rows of aws_resource
  stored,      \* how many changes have been stored
  asked,       \* asked[l]: the ARN id and the instant of l, or NULL
  step,        \* step[l]: the statement that l is at
  parent,      \* parent[l]: var_parent_arn_id, or the ARN id itself
  holder,      \* holder[l]: var_aws_resource_id
  answer       \* answer[l]: the asset of l, or NULL when there is none

lookupVars == <<asked, step, parent, holder, answer>>
vars == <<rows, registered, stored, lookupVars>>

TypeOK ==
  /\ \A row \in rows : row \in Row
  /\ registered \subseteq Resource
  /\ stored \in 0..MaxStored
  /\ asked \in [Lookup -> Question \cup {NULL}]
  /\ step \in [Lookup -> {"idle", "parent", "holder", "rows", "done"}]
  /\ parent \in [Lookup -> Arn \cup {NULL}]
  /\ holder \in [Lookup -> Resource \cup {NULL}]
  /\ answer \in [Lookup -> Asset \cup {NULL}]

Init ==
  /\ rows = {}
  /\ registered = {}
  /\ stored = 0
  /\ asked = [l \in Lookup |-> NULL]
  /\ step = [l \in Lookup |-> "idle"]
  /\ parent = [l \in Lookup |-> NULL]
  /\ holder = [l \in Lookup |-> NULL]
  /\ answer = [l \in Lookup |-> NULL]

Goto(l, label) == step' = [step EXCEPT ![l] = label]

-----------------------------------------------------------------------------
\* A change of resource r with one address or related resource, or with none:
\* the resource is registered, and the row is written.
Store(r) ==
  /\ stored < MaxStored
  /\ stored' = stored + 1
  /\ registered' = registered \cup {r}
  /\ \/ rows' = rows
     \/ \E op \in Op, when \in Event :
          /\ op.subject.of = IF op.subject \in Relationships THEN ArnId[r] ELSE r
          /\ rows' = Apply(rows, op, when)
  /\ UNCHANGED lookupVars

-----------------------------------------------------------------------------
RowsOf(r) == {row \in rows : row.subject \notin Relationships /\ row.subject.of = r}
AddressRows(table, r) == {row \in RowsOf(r) : row.subject.table = table}

\* LEFT JOIN: one NULL when nothing matches.
LeftJoin(matching) == IF matching = {} THEN {NULL} ELSE matching

\* Mutants: the condition of migration 13, which migration 14 replaced; an end that
\* is not tested.
PassesWhereInner(row, ts) == row # NULL /\ ActiveAt(row, ts)

PassesWhereEnded(row, ts) == row = NULL \/ row.not_before < ts

\* "not_before is null or .. and not_after is null or ..": tested after the join.
PassesWhere(row, ts) == row = NULL \/ ActiveAt(row, ts)

\* The rows that get_resource_by_arn_id returns: each resource with that ARN id,
\* with each private and public address of the holder.
ResultRows(arn, r, ts) ==
  {row \in [of : {res \in registered : ArnId[res] = arn},
            private : LeftJoin(AddressRows("private", r)),
            public  : LeftJoin(AddressRows("public", r))] :
     PassesWhere(row.private, ts) /\ PassesWhere(row.public, ts)}

\* The loop over the rows: what is not NULL is collected, the account is that of
\* the row that comes last.
Merge(result, last) ==
  LET private == {row.private : row \in result} \ {NULL}
      public  == {row.public : row \in result} \ {NULL}
  IN [account   |-> Account[last.of],
      champions |-> {Account[row.of] : row \in result},
      private   |-> {row.subject.ip : row \in private},
      public    |-> {row.subject.ip : row \in public},
      hostnames |-> {row.subject.hostname : row \in public}]

-----------------------------------------------------------------------------
\* runLookupQuery makes one asset of all rows with the same ARN id: its account is
\* that of the row that comes first, its champions are those of all.
runLookupQuery(found) ==
  {[arn       |-> a,
    accounts  |-> {Account[row.subject.of] : row \in {r \in found : ArnId[r.subject.of] = a}}]
     : a \in {ArnId[row.subject.of] : row \in found}}

FoundRows(table, ts) ==
  {row \in rows : row.subject \in Addresses(table) /\ ActiveAt(row, ts)}

\* The table is not the one that the address was stored in, but that of its range.
isPrivateIP(ip) == ip \in InPrivateNetwork

\* get_resource_by_private_ip or get_resource_by_public_ip, and
\* get_resource_by_hostname.
FetchByIP(ip, ts) ==
  runLookupQuery({row \in FoundRows(IF isPrivateIP(ip) THEN "private" ELSE "public", ts) :
                    row.subject.ip = ip})

FetchByHostname(name, ts) ==
  runLookupQuery({row \in FoundRows("public", ts) : row.subject.hostname = name})

-----------------------------------------------------------------------------
Ask(l, arn, ts) ==
  /\ step[l] = "idle"
  /\ asked' = [asked EXCEPT ![l] = [arn |-> arn, at |-> ts]]
  /\ Goto(l, "parent")
  /\ UNCHANGED <<rows, registered, stored, parent, holder, answer>>

\* The ARN ids that any row, of any time, relates to arn.
Parents(arn) ==
  {row.subject.of : row \in
     {r \in rows : r.subject \in Relationships /\ r.subject.related = arn}}

\* SELECT .. INTO takes any one of several rows.
FindParent(l) ==
  LET arn == asked[l].arn IN
  /\ step[l] = "parent"
  /\ \E a \in IF Parents(arn) = {} THEN {arn} ELSE Parents(arn) :
       parent' = [parent EXCEPT ![l] = a]
  /\ Goto(l, "holder")
  /\ UNCHANGED <<rows, registered, stored, asked, holder, answer>>

FindHolder(l) ==
  /\ step[l] = "holder"
  /\ \E r \in LeftJoin({res \in registered : ArnId[res] = parent[l]}) :
       holder' = [holder EXCEPT ![l] = r]
  /\ Goto(l, "rows")
  /\ UNCHANGED <<rows, registered, stored, asked, parent, answer>>

\* No rows are answered with 404.
ReturnRows(l) ==
  LET result == ResultRows(asked[l].arn, holder[l], asked[l].at) IN
  /\ step[l] = "rows"
  /\ \/ /\ result = {}
        /\ UNCHANGED answer
     \/ \E last \in result : answer' = [answer EXCEPT ![l] = Merge(result, last)]
  /\ Goto(l, "done")
  /\ UNCHANGED <<rows, registered, stored, asked, parent, holder>>

Next ==
  \/ \E r \in Resource : Store(r)
  \/ \E l \in Lookup :
       \/ \E arn \in Arn, ts \in Instant : Ask(l, arn, ts)
       \/ FindParent(l) \/ FindHolder(l) \/ ReturnRows(l)

Spec == Init /\ [][Next]_vars

-----------------------------------------------------------------------------
(***************************************************************************)
(* Properties: of a lookup when it returns, whatever has been stored since *)
(* it was asked.                                                           *)
(***************************************************************************)
Returns(l) == step[l] = "rows" /\ step'[l] = "done"

HeldRows(l, table) ==
  {row \in AddressRows(table, holder[l]) : ActiveAt(row, asked[l].at)}
HeldIPs(l, table) == {row.subject.ip : row \in HeldRows(l, table)}

\* One of the assets has the ARN id that was asked for, or the one it was related to,
\* and only accounts that have a resource with that id.
Finds(l, assets) ==
  \E asset \in assets :
    /\ asset.arn = parent[l]
    /\ asset.accounts \subseteq {Account[r] : r \in {res \in registered : ArnId[res] = parent[l]}}

\* The lookups agree: whatever address and hostname the lookup by resource id shows,
\* the lookups by address and by hostname find at the same instant; except for an
\* address that was stored as private or public against its range, which they look
\* for in the other table.
LookupsAgree ==
  [][\A l \in Lookup : Returns(l) /\ answer'[l] # NULL =>
       /\ \A ip \in answer'[l].private \cap InPrivateNetwork :
            Finds(l, FetchByIP(ip, asked[l].at))
       /\ \A ip \in answer'[l].public \ InPrivateNetwork :
            Finds(l, FetchByIP(ip, asked[l].at))
       /\ \A name \in answer'[l].hostnames :
            Finds(l, FetchByHostname(name, asked[l].at))]_vars

\* A table does not stand in the way: the holder never had a row in it, or has one
\* that is active.
Passable(l, table) == AddressRows(table, holder[l]) = {} \/ HeldRows(l, table) # {}

\* When neither table stands in the way, the answer has all addresses that are held:
\* no combination of the rows of the two joins is lost.
FoundInFull ==
  [][\A l \in Lookup :
       /\ Returns(l) /\ holder[l] # NULL
       /\ \E r \in registered : ArnId[r] = asked[l].arn
       /\ Passable(l, "private") /\ Passable(l, "public")
       => /\ answer'[l] # NULL
          /\ answer'[l].private = HeldIPs(l, "private")
          /\ answer'[l].public = HeldIPs(l, "public")]_vars

\* "FetchByResourceID gets the assets who have resource ID at the specified time"
\* (db.go:436): when a resource holds an address at that time, the query that is
\* run last returns a row.
HolderIsFound ==
  \A l \in Lookup :
    /\ step[l] = "rows" /\ holder[l] # NULL
    /\ ArnId[holder[l]] = asked[l].arn
    /\ HeldRows(l, "private") \cup HeldRows(l, "public") # {}
    => ResultRows(asked[l].arn, holder[l], asked[l].at) # {}
=============================================================================
