--------------------------- MODULE ChangeRequest ---------------------------
(***************************************************************************)
(* The body of POST /v1/cloud/change on its way to the rows: the nested    *)
(* loops of DB.applyChanges turn it into operations on subjects, and the   *)
(* rows are what the lookups by IP address and by hostname read.  Requests *)
(* are stored one after the other here (StoreTx has them run at the same   *)
(* time).  A resource is what resIDFromARN leaves of its ARN, its account  *)
(* and region.                                                             *)
(*                                                                         *)
(* Times come as RFC 3339 text, an instant and the zone it is written in.  *)
(* The driver keeps the zone, but the columns and the parameters of the    *)
(* lookups are of the type timestamp, which drops it: a wall clock stays.  *)
(***************************************************************************)
EXTENDS Integers, Sequences, SequencesExt

CONSTANTS
  Arn,                                    \* what follows the account id, split at "/"
  Account,                                \* account and region of a resource
  Zone,                                   \* zone offsets
  PrivateIP, PublicIP, Hostname, Related, \* what bodies name; the addresses may overlap
  InPrivateNetwork,                       \* the addresses in one of privateIPNetworks
  ChangeType,                             \* the spellings of a change type
  SpellsAdded,                            \* those EqualFold to "ADDED"
  NULL,
  Requests,                               \* the bodies a client may send
  MaxStored                               \* bound: requests stored

VARIABLES
  rows,     \* the rows of the three assignment tables
  stored    \* the requests stored so far, in order

vars == <<rows, stored>>

\* An application load balancer keeps its name, other resources their last part.
\* (The code takes any prefix "loadbalancer/app": the same, for a classic one.)
resIDFromARN(arn) ==
  IF IsPrefix(<<"loadbalancer", "app">>, arn) THEN Tail(arn) ELSE <<Last(arn)>>

ResourceId == {resIDFromARN(arn) : arn \in Arn}
Resource == ResourceId \X Account

\* What a body says.
ChangeShape ==
  [changeType : ChangeType, privateIPs : Seq(PrivateIP), publicIPs : Seq(PublicIP),
   hostnames : Seq(Hostname), related : Seq(Related)]
RequestShape ==
  [arn : Arn, account : Account, time : Int, zone : Zone, changes : Seq(ChangeShape)]

\* The ARN of a load balancer goes on with its name.
IsApp(arn) == Len(arn) > 1 /\ arn[1] = "loadbalancer" /\ arn[2] = "app"

ASSUME RequestAssumption ==
  /\ Arn \subseteq Seq(STRING) \ {<<>>}
  /\ \A arn \in Arn : IsApp(arn) => Len(arn) > 2
  /\ Zone \subseteq Int
  /\ InPrivateNetwork \subseteq PrivateIP \cup PublicIP
  /\ \A q \in Requests : q \in RequestShape /\ q.time + q.zone > 0
  /\ MaxStored \in Nat /\ NULL \notin Nat

\* What the WHERE clauses name.  A relationship row names no account.
PrivateSubject == {"private"} \X Resource \X PrivateIP
PublicSubject  == {"public"} \X Resource \X PublicIP \X Hostname
RelatedSubject == {"relationship"} \X ResourceId \X Related
Subjects == PrivateSubject \cup PublicSubject \cup RelatedSubject

\* What the unique indexes ..._idx_no_after cover besides not_before: all of a
\* subject, but not the hostname of a public one.
IndexColumns ==
  [s \in Subjects |-> IF s \in PublicSubject THEN <<s[1], s[2], s[3]>> ELSE s]

Rows == INSTANCE AssignmentRows WITH Subject <- Subjects, Slot <- IndexColumns

\* Mutant: load balancers are no special case.
ResourceOfLastPart(q) == <<<<Last(q.arn)>>, q.account>>

ResourceOf(q) == <<resIDFromARN(q.arn), q.account>>

Kind(change) == IF change.changeType \in SpellsAdded THEN "ADDED" ELSE "DELETED"

\* Mutant: the loop over hostnames forgets all but the first address.
ChangeSubjectsFirstIP(q, change) ==
  [i \in 1..Len(change.privateIPs) |->
     <<"private", ResourceOf(q), change.privateIPs[i]>>]
  \o [i \in 1..Len(change.hostnames) |->
        <<"public", ResourceOf(q), change.publicIPs[1], change.hostnames[i]>>]
  \o [i \in 1..Len(change.related) |->
        <<"relationship", resIDFromARN(q.arn), change.related[i]>>]

\* The loops over private addresses, over public addresses and hostnames, and
\* over related resources.
ChangeSubjects(q, change) ==
  [i \in 1..Len(change.privateIPs) |->
     <<"private", ResourceOf(q), change.privateIPs[i]>>]
  \o FlattenSeq([i \in 1..Len(change.publicIPs) |->
       [j \in 1..Len(change.hostnames) |->
          <<"public", ResourceOf(q), change.publicIPs[i], change.hostnames[j]>>]])
  \o [i \in 1..Len(change.related) |->
        <<"relationship", resIDFromARN(q.arn), change.related[i]>>]

Operations(q) ==
  FlattenSeq([c \in 1..Len(q.changes) |->
    LET change == q.changes[c]
    IN [i \in 1..Len(ChangeSubjects(q, change)) |->
          [kind |-> Kind(change), subject |-> ChangeSubjects(q, change)[i]]]])

-----------------------------------------------------------------------------
TypeOK ==
  /\ \A row \in rows : row \in Rows!Row
  /\ stored \in Seq(Requests) /\ Len(stored) <= MaxStored

Init == rows = {} /\ stored = <<>>

\* What is left of an instant that is written in a zone.
WallClock(time, zone) == time + zone
Clock(q) == WallClock(q.time, q.zone)

\* The rows after operations that are run in order, with one time.
AfterAll(ops, when) ==
  LET after[i \in 0..Len(ops)] ==
        IF i = 0 THEN rows ELSE Rows!Apply(after[i - 1], ops[i], when)
  IN after[Len(ops)]

\* Store, alone: applyChanges runs the operations of the request.
Store(q) ==
  /\ Len(stored) < MaxStored
  /\ rows' = AfterAll(Operations(q), Clock(q))
  /\ stored' = Append(stored, q)

Next == \E q \in Requests : Store(q)

Spec == Init /\ [][Next]_vars

-----------------------------------------------------------------------------
\* FetchByIP and FetchByHostname: the resources with a row at that instant.
\* (A resource with no row of an owner is found too: left joins.)
PrivateRows(ts) == {r \in rows : r.subject \in PrivateSubject /\ Rows!ActiveAt(r, ts)}
PublicRows(ts)  == {r \in rows : r.subject \in PublicSubject /\ Rows!ActiveAt(r, ts)}

isPrivateIP(ip) == ip \in InPrivateNetwork

\* The address decides which table is read, whatever it was stored as.
FetchByIP(ip, ts) ==
  LET Found == IF isPrivateIP(ip) THEN PrivateRows(ts) ELSE PublicRows(ts)
  IN {row.subject[2] : row \in {r \in Found : r.subject[3] = ip}}

FetchByHostname(name, ts) ==
  {row.subject[2] : row \in {r \in PublicRows(ts) : r.subject[4] = name}}

-----------------------------------------------------------------------------
(***************************************************************************)
(* Properties.                                                             *)
(***************************************************************************)
\* What the lookups by address and by hostname find of one change of a stored
\* request, one instant after the time of the request, asked for in a zone.  An
\* address that is private or public against its range is looked for in the other
\* table, and public addresses are stored with hostnames only: a limit of the code.
AddressesPresent(q, change, zone) ==
  LET ts == q.time + zone + 1 IN
  /\ \A i \in DOMAIN change.privateIPs : isPrivateIP(change.privateIPs[i]) =>
       ResourceOf(q) \in FetchByIP(change.privateIPs[i], ts)
  /\ \A i \in DOMAIN change.publicIPs :
       ~isPrivateIP(change.publicIPs[i]) /\ change.hostnames # <<>> =>
         ResourceOf(q) \in FetchByIP(change.publicIPs[i], ts)
  /\ \A i \in DOMAIN change.hostnames : change.publicIPs # <<>> =>
       ResourceOf(q) \in FetchByHostname(change.hostnames[i], ts)

\* A later change of the request takes nothing of this one back.
TakenBack(q, c) ==
  \E d \in (c + 1)..Len(q.changes) : Kind(q.changes[d]) = "DELETED"

ChangesPresent(q, zone) ==
  \A c \in DOMAIN q.changes :
    Kind(q.changes[c]) = "ADDED" /\ ~TakenBack(q, c) =>
      AddressesPresent(q, q.changes[c], zone)

\* What the request stored last has added, and not taken back again, is found by
\* address and by hostname in the zone of the request, whatever was stored before it,
\* in whatever order and zones.  These are the lookups that the integration test makes
\* for each change (cloudchanges_test.go:49-57); the one by resource id that it makes
\* once (line 41) is the subject of ResourceLookup, where it may find nothing.
AddedIsFound ==
  stored # <<>> => ChangesPresent(Last(stored), Last(stored).zone)

\* The opposite, for which there are "no tests for REMOVED yet" (cloudchanges_test.go:46):
\* no row is left in which a lookup could find it, whichever table it reads.  A public
\* address goes with its hostname: under another one it may remain.
AddressesGone(q, change, zone) ==
  LET ts == q.time + zone + 1 IN
  /\ \A i \in DOMAIN change.privateIPs :
       \A row \in PrivateRows(ts) :
         row.subject # <<"private", ResourceOf(q), change.privateIPs[i]>>
  /\ \A i \in DOMAIN change.publicIPs, j \in DOMAIN change.hostnames :
       \A row \in PublicRows(ts) :
         row.subject # <<"public", ResourceOf(q), change.publicIPs[i], change.hostnames[j]>>

AddedAgain(q, c) ==
  \E d \in (c + 1)..Len(q.changes) : Kind(q.changes[d]) = "ADDED"

\* What the request stored last takes back, and does not add again, is not found any
\* more, unless a request of a later time was stored before it.
TakenBackIsGone ==
  stored # <<>> =>
    LET q == Last(stored) IN
    (\A k \in 1..Len(stored) : Clock(stored[k]) <= Clock(q)) =>
      \A c \in DOMAIN q.changes :
        Kind(q.changes[c]) = "DELETED" /\ ~AddedAgain(q, c) =>
          AddressesGone(q, q.changes[c], q.zone)

\* "all assets found with the IP address at the given time" (api.yaml:235), the
\* time being a date-time of RFC 3339: in whatever zone it is written.
PresentInEveryZone ==
  stored # <<>> => \A zone \in Zone : ChangesPresent(Last(stored), zone)

\* Two ARNs name the same resource when they are equal, or end alike; load
\* balancers of the kind app never do.
SameResource(arn, other) ==
  \/ arn = other
  \/ ~IsApp(arn) /\ ~IsApp(other) /\ arn[Len(arn)] = other[Len(other)]

\* A request changes no row of a resource that it does not name, be it one with
\* the same ARN in another account, or another load balancer with the same id.
OtherResourcesUntouched ==
  [][LET q == Last(stored')
     IN \A arn \in Arn, account \in Account :
       account # q.account \/ ~SameResource(arn, q.arn) =>
         LET Own(rs) == {r \in rs : r.subject \in PrivateSubject \cup PublicSubject
                                     /\ r.subject[2] = <<resIDFromARN(arn), account>>}
         IN Own(rows) = Own(rows')]_vars
=============================================================================
