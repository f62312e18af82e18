# A TLA+ model of asset-inventory-api

asset-inventory-api keeps, for a large AWS estate, which resource had which
private address, public address and hostname at which time, and who owns the
account. Clients post *changes* (`POST /v1/cloud/change`), owners
(`POST /v1/account/owner`), and look resources up by address, hostname or id at an
instant. The state is a PostgreSQL database; `pkg/storage/db.go` is the core.

This directory holds TLA+ modules of that core, TLC configurations that check
them on small instances, and proofs that TLAPS checks. `PROJECT.json` lists the
runs, the theorems, the hazards of the code and, for every definition, the source
lines it models.

## 1. The system

| component | state | operations | hard behaviour | what makes it correct |
|---|---|---|---|---|
| Assignment ledger (three tables, SQL of `db.go:535-723`) | rows *(subject, not_before, not_after)*; a release without a known assignment is an "epoch row" with `not_before = to_timestamp(0)` | assign: UPDATE a matching epoch row, else INSERT; release: UPDATE the open row, else INSERT an epoch row | events out of order, repeated; `on conflict do nothing` on partial unique indexes | a lookup at any instant finds what was assigned; nothing is lost or rewritten |
| Change storer (`Store`, `applyChanges`) | one SQL transaction per request | Begin, registry CTE, resource id, operations, Commit / Rollback | concurrent requests, snapshots and row locks, deadlocks, partial failure, lost answers | atomic: all of a request or nothing; accepted events stay |
| Resource registry (`ensureResourceExists`, `getResourceID`, `resIDFromARN`) | regions, accounts, resource types, resources | insert what is missing, then read the id | two first requests at once; ARNs with equal last parts | the id is found, or the request fails and leaves nothing; a request touches its own resource only |
| Account owners (`StoreAccountOwner`) | persons, account_owner, account_champion | upsert persons, replace owner and champions | concurrent replacement, persons locked in opposite orders, unique e-mails | owner and champions of an account come from one request |
| Lookups (`FetchBy*`, functions of migrations 11-14) | none (reads) | rows at an instant, merged into assets | joins that multiply or drop rows, equal ARN ids in two accounts | exactly the rows active at the instant |
| Schema manager (`schema.go`), start-up (`main.go`) | a shared migrator handle; version and dirty flag in the database | up, down, force, get, migrate to minimum | concurrent use of a handle that is replaced, two instances starting, a crash or an error inside a migration, a schema without a version | a clean version has its migrations; the version a step returns is the version it reached; a process serves on a schema it has seen to be new enough |
| Replica reads (`main.go:47-50`) | a delayed copy; where a process looks up | start, stop, lookup | staleness, a replica that goes away and comes back, restarts | a lookup equals a past state of the primary, never goes back, and becomes exact |
| Listing by time, page tokens (`cloud_fetch.go`) | none | `DB.FetchAll` only returns an error | - | - |
| Bulk export (`bulk-export/export.sh`, `export.sql`) | last id, page files | pages by key, until a page that is not full | changes between pages, an unordered page, a page of exactly the limit, files of an aborted export, a statement that fails | what stays during the export is in the dump, once, and nothing else |
| HTTP handlers, gateway, logs | none | parse, call, translate errors | retries and time-outs of clients appear as further calls | - |

Requests run in goroutines of their own; they share nothing but the connection
pool and the database. The database runs them at its default isolation level,
READ COMMITTED (`sql.DB.Begin()` without options, `db.go:148` and `db.go:728`).

## 2. The modules

| module | models | composes |
|---|---|---|
| `AssignmentRows` | the rows, the WHERE, SET and VALUES clauses of the six statement pairs, the partial unique indexes, the time condition of the lookups; no state | - |
| `AssignmentHistory` | abstract: accepting a request is one atomic step that records all its operations, touches only subjects it names, invents and rewrites nothing | `AssignmentRows` |
| `StoreTx` | `DB.Store`, a SQL statement per action, any number of concurrent calls | `AssignmentRows`; refines `AssignmentHistory` |
| `StoreTxProofs` | theorems about `StoreTx` | |
| `EventDelivery` | events of AWS Config delivered late, out of order and twice, each stored alone | `AssignmentRows` |
| `EventDeliveryProofs` | theorems about `EventDelivery` | |
| `ReplicaReads` | server processes that store on the primary and look up on a replica which lags, goes away and returns | `EventDelivery` twice: extended for the primary, and as the abstract specification of the replica |
| `ReplicaReadsProofs` | theorems about `ReplicaReads` | `EventDeliveryProofs` twice: of the primary, and of the replica |
| `ChangeRequest` | a request body: the resource that its ARN names, its time with a zone, the nested loops of `applyChanges`, the rows, the lookups by address and hostname | `AssignmentRows` |
| `ChangeRequestProofs` | theorems about `ChangeRequest` | |
| `ResourceLookup` | the lookups: by resource id as three statements between which changes are stored, by address and hostname; the joins and the merges | `AssignmentRows` |
| `ResourceLookupProofs` | theorems about `ResourceLookup` | |
| `SchemaManager` | the shared handle of golang-migrate, the four requests, start-ups of several processes, version (or none) and dirty flag, failing bodies, outages and deaths | - |
| `SchemaManagerProofs` | theorems about `SchemaManager` | |
| `AccountDirectory` | abstract: storing an owner is one atomic step | - |
| `AccountOwners` | `DB.StoreAccountOwner`, a SQL statement per action | refines `AccountDirectory` |
| `AccountOwnersProofs` | theorems about `AccountOwners` | |
| `BulkExport` | the export script, its page query and its files, while changes are stored | `AssignmentRows` |
| `BulkExportProofs` | theorems about `BulkExport` | |
| `MC*` | the instances for TLC | |

### State and actions against the code

The three assignment tables have one shape and the same statements, so a row is a
*subject* (what its WHERE clauses name) and an interval. `AssignTarget` and
`ReleaseTarget` are the WHERE clauses of the two UPDATEs, `Updated` their SET
clauses, `NewRow` the VALUES of the two INSERTs, `Conflict` the index
`..._idx_no_after` (`where not_after is null`). The indexes `..._idx_no_before`
(`where not_before is null`) never hold a row, since `not_before` is never null, so
that epoch rows do not conflict with anything.

In `StoreTx` a transaction is at a statement `pc[t]`. What it wrote is `pend[t]`:
invisible to others, a row lock to them, copied to `table` by `Commit` and dropped
by `Rollback`. An UPDATE is `StartUpdate` (its snapshot), `UpdateRow` once per
target (wait for the lock, test the WHERE clause again on the committed version, as
READ COMMITTED does) and `EndUpdate` (`RowsAffected`); an INSERT waits for running
transactions that hold a row its index may conflict with, then inserts or does
nothing. `ensureResourceExists` is `EnsureResource` (the `sel` of the CTE),
`CreateName` (its three plain inserts, in any order, which fail on a name that has
been committed meanwhile) and `CreateResource`. A row is named after the operation
that inserted it; names play no part in the statements. `StatementFails` stands for
every error a statement may return, `LoseConnection` for the death of the process
and for a COMMIT or ROLLBACK that returns an error: then the server ends the
transaction. A COMMIT whose answer is lost ends in `"unknown"`.

`AccountOwners` is built the same way. `wrote`, `created`, `linked`, `revoked` and
`granted` are the uncommitted writes. The upsert of a person locks the login
(`LockPerson`) and only then meets the unique index on e-mails (`WritePerson`): it
waits for others in between. `Holders` says whom a statement waits for, and the
deadlock detector fails a statement of a cycle.

In `ResourceLookup` a lookup by id is at a statement `step[l]` of
`get_resource_by_arn_id`: `FindParent`, `FindHolder` and `ReturnRows`, which is the query
and the loop of `FetchByResourceID` over its rows. Each statement of a volatile function
reads what has been committed by then. `LeftJoin` gives a NULL where nothing matches and
`PassesWhere` is the condition after the join. A change is stored in one step (`Apply`).
The account of an asset is that of whichever row comes last.

In `SchemaManager` `conn` says what became of each handle and `migrator[p]` which one the
process has. A call is at `pc[c]`: `EnsureConnected`, `CloseMigrator`, `RenewMigrator` are
the three steps of `EnsureConnected`, after which each request reads `sm.migrator` again.
A migration is `BeginMigration` (the advisory lock and the tests of golang-migrate), then
`MarkDirty`, `RunBody`, `MarkClean` per version. `applied` is what the bodies have done,
as opposed to what `version` and `dirty` say. A schema without a version has no row in
`schema_migrations` (`NilVersion`): the step down from version 1 deletes the row and with it the
place for a dirty mark, and `GetSchemaVersion` answers 0 and clean (`schema.go:96`). A version
that the source does not have, which only Force can set, is 0 here; nothing migrates from it.
`BodyFails` is an error of a body: golang-migrate unlocks, unless the file stands between BEGIN
and COMMIT, as most of them do. Then the session takes no further statement, the
unlock neither: `lock` stays with the handle (`conn` is "broken", as for a lost connection: its
next statement fails) until a later call closes it. `Outage` ends all sessions, `Exit` those of
a process; whether a body that is running then has its effect is decided there (`Interrupted`).
A start-up that is through with the schema is "ready"; main.go then makes its handlers, and
serves (`StartServing`), while others go on. `disturbed` is a history variable: the calls since
whose last look at the version (the read of a start-up, the lock of a migration) another one has
set it; also a start-up that has found the schema dirty, since it does not touch it.

In `ChangeRequest` an ARN is what follows its account id, as a sequence of the parts between
slashes, and `resIDFromARN` keeps the last part, or all behind "loadbalancer" of an application
load balancer. A time is an instant and a zone; `WallClock` is what the columns of type
`timestamp` keep of it. The lookups get theirs the same way. `FetchByIP` reads the private or
the public addresses as `isPrivateIP` says, whatever the address was stored as;
`InPrivateNetwork` is the addresses in `privateIPNetworks`.

In `ReplicaReads` `pending` is what the primary has stored and the replica has not replayed,
`copy`, `known` and `reknown` are the replica's counterparts of the variables of
`EventDelivery`, and `lookups[p]` is `replicaStorage` of `component.New`, chosen once at the
start by a ping (`DB.Init`). `Lookup` records how many stored events an answer has met.

In `BulkExport` `pc`, `last`, `pid` are the position of the script, `LAST_ID` and `$$`, and
`files` the directory. `FetchPage` is one turn of the loop: `psql`, the count and the next
`LAST_ID`. Of a page without rows `psql` prints an empty line, for which `jq` prints nothing; the comparison
of the empty string fails, which the `if` takes for false, and `LAST_ID` becomes empty
(`last = NULL`), with which no further page is a valid query. A page comes in any order,
since the outer query has no ORDER BY, so that the id of its last row is that of any row.
`Listing` is the query without offset and limit: its conditions on times hold for no NULL,
so that only resources with an address of either kind are exported. `steady`, `seen`,
`fresh` and `inOrder` are history variables.

PostgreSQL, golang-migrate and AWS Config are outside of the repository. What the modules say of
them (visibility, locks, waits, deadlock detection, the order of events) is marked
external in `PROJECT.json` and follows from how the code uses them.

## 3. The runs

| run | question | instance | result |
|---|---|---|---|
| `StoreTx` | concurrent requests, locks in opposite orders: lost events, traces of failures, rewritten history, duplicate open rows, refinement | 3 transactions, 2 subjects, 5 requests of two operations | pass |
| `StoreTx_ends` | unregistered names shared by requests: is the resource found? does every `Store` end? | 2 transactions with fairness, 4 requests, 2 resources | pass |
| `StoreTx_halves` | does a release find the assignment stored at the same time? | 2 transactions | violation |
| `ReplicaReads` | release before assignment, repeated assignment, a lagging replica, restarts: exact lookups, meaning of epoch rows, no halves; does the replica only lag? do lookups go back? do they become exact? | 2 subjects, 2 cycles, 1 resend each, 1 process that restarts, lag 2, 1 outage; fairness | pass |
| `ChangeRequest` | what a request added is found, in its own zone, and what it took back is not; other resources are untouched | 3 requests out of some 60, any order of times, 2 zones, 2 accounts, 4 ARNs of which two share an id, 2 private and 2 public addresses, one of each against its range | pass |
| `ChangeRequest_zones` | is it found at the same instant written in another zone? | 1 request | violation |
| `AccountOwners` | owner, champions, persons: refinement of the atomic directory; does every `StoreAccountOwner` end? | 3 transactions with fairness, 3 requests, 2 accounts, 3 persons, 3 e-mails | pass |
| `ResourceLookup` | a lookup by id with changes stored between its statements: does it agree with the lookups by address, does it show all that is held? | 1 lookup, 4 changes, 3 resources of 2 accounts (2 with one ARN id), 6 subjects of which one private address is outside of the private networks, 2 times | pass |
| `ResourceLookup_unfound` | is a resource that holds an address found by its id? | 3 changes | violation |
| `SchemaManager` | concurrent migrations, replacement of handles, start-ups, failing bodies, outages, deaths; the version that a step returns, and the one that a process serves on | 2 processes with minimum 1 and 2, 3 calls, 4 handles, 2 outages | pass |
| `SchemaManager_outage` | is a broken handle replaced? | 1 process, 3 calls, 1 outage | violation |
| `BulkExport` | changes stored between pages, failing statements, aborted exports: lost, stale or repeated resources; does an export end? | 3 resources, pages of 2, 2 exports with 2 process ids, 2 changes; fairness | pass |

What the violations show:

* `StoreTx_halves`: ADDED and DELETED of one assignment, stored at the same time.
  Neither UPDATE sees the uncommitted row of the other, both insert, nothing
  conflicts (one row is open, the other is not). The open row stays open for ever.
  `db.go:565` keeps epoch rows for releases "w/o known assignment".
* `ResourceLookup_unfound`: the conditions on times stand after both left joins
  (`000014:55-61`). A resource whose public addresses are all released, or assigned
  later, loses the rows of its private addresses with them: 404.
* `SchemaManager_outage`: `EnsureConnected` closes the handle, then assigns the result of
  a failed `migrate.New` (`schema.go:56`): every later call dereferences nil, also when
  the database is back.
* `ChangeRequest_zones`: `time.Parse` keeps the offset (`cloud_insert.go:42`), but the
  columns and the parameters of the SQL functions are of type `timestamp`, which drops it.
  What is assigned at 12:00+02:00 is found from 12:00Z on. Clients that all use one zone
  notice nothing, which is what `AddedIsFound` says.

Limits of the code that are assumptions or premises here instead of runs:

* Events of two cycles that change places (`AcrossCycles`, FALSE in the run): a late release
  of the first assignment closes the row of the second one, as the UPDATE of a release does
  not compare `not_before`, and an epoch row may stay behind.
* An ADDED sent again after its DELETED has been stored (`LateResends`, FALSE in the run)
  opens a second row that nothing closes, and a DELETED sent again after the row is closed
  leaves an epoch row (`MayResend` lets only assignments be repeated, and only before their
  release). `NoHalves` is proved with both.
* The index on open public rows lacks the hostname (`000002_m1_schema.up.sql:45`) and the
  INSERT that conflicts does nothing, so that a second hostname of an address at one time is
  dropped without an error. A change has one hostname at most (`api.yaml`, `maxItems: 1`),
  but a request may have several changes. The requests of `ChangeRequest` have one hostname
  per address and time; `SlotsDistinct` and `OneNameEach` (section 4) say so for the theorems.
* Public addresses are stored inside a loop over hostnames (`db.go:185-186`): without one,
  which `api.yaml` allows, nothing is stored. The requests of `ChangeRequest` have such
  changes, and `AddedIsFound` expects no public address of them.
* An address that was stored as private and lies outside of `privateIPNetworks`, or as public
  and lies inside, is looked for in the other table and not found by address
  (`db.go:299-302`). `LookupsAgree` and `AddedIsFound` except such addresses; both instances
  have them.
* The integration test `CheckChangesPresent` also looks the resource up by its id
  (`cloudchanges_test.go:41`). That lookup may answer 404 (`ResourceLookup_unfound`), and
  `AddedIsFound` leaves it out.
* A start-up with an older minimum migrates down when it has read a version below its minimum
  and another process has migrated past it meanwhile (`main.go:62` asks `Migrate` for the
  minimum itself): a newer release that starts or serves then stands on a schema below its own.
  `StartsOnMinimum` excuses it as `disturbed`.
* When the step down from version 1 does not come to its end, the schema reads as version 0 and
  clean with its tables still there; `CleanMeansApplied` says that nothing else can be left.
* A failed body keeps the advisory lock with its session until the next request of that process
  closes the handle; other processes get an error of the lock until then.
* An export whose last page is empty, or in which a statement fails, never ends
  (`EndsOrMeetsEmptyPage` names the empty page); an export that finds the files of an aborted
  one with its process id takes them into its dump (`fresh`); a page that does not come in
  order makes rows come twice (`inOrder`), but loses none; a resource without addresses of
  both kinds is not exported, though `bulk-export/README.md:3` speaks of all.

The properties that pass and why they could fail: `NoEventLost` depends on the test
that an UPDATE repeats after a wait and on what `on conflict do nothing` drops;
`HistoryOnlyGrows` on the same; `NoTraceOfFailure` on every statement being inside of
the transaction and on `Rollback`; `ImplementsHistory` on all of them;
`LookupsAgree` and `FoundInFull` depend on what the three statements of a lookup by id
may see when changes are stored between them; `CleanMeansApplied` on the order of mark,
body and mark, and on dirty schemas being refused; `NoLeakedHandle` on the error that a
second `Close` returns, the only thing that keeps two requests from replacing a handle
twice; and, with it, from leaving a lock behind that a failed migration has kept;
`StartsOnMinimum` on a start-up ending with every error of its migration but `ErrNoChange`, on
`Migrate` deciding that one under its lock, and on being asked for the minimum, not for a
number of steps; `StepReturnsItsVersion` on `migrateSchema` returning on the error of a step, since the
version it reads afterwards comes without the dirty flag; `LookupsNeverGoBack` on a process
keeping its choice of storage; `ReplicaOnlyLags` on inserts going to the primary whatever
lookups do; `LookupsBecomeExact` on the fall back to the primary; `NothingLost` and `OnceEach`
on the order of the inner query and on an exclusive offset; `NothingStale` on the prefix of
the files; `OtherResourcesUntouched` on the name of a load balancer being part of its id;
`ResourceResolves` and `IdsFound` on inserts that wait for those in flight although
they do nothing afterwards; `ImplementsDirectory` on the row of `account_owner` being
locked before champions are deleted; `EveryStoreEnds` on rollbacks and on the
detector. Each property has a mutant, a plausible mistake in the code, that breaks it
(`PROJECT.json`, "mutants"; the mutated operators stand before the originals).

### Bounds

The bounds are `Txn` (calls of `Store`), `MaxOps` (operations of a request),
`Cycles`, `MaxResends`, `MaxStored`, `MaxTime`, `Call`, `Handle`, `MaxOutages`, `MaxLag`,
`MaxExports`, and the sets of requests. Two transactions are
enough for every wait and every deadlock between two lock orders (the instances reach
deadlocks on rows, on index entries and on names); the third gives a committed history
on which the two meet, which a row lock or a closed row needs.
Three calls of `SchemaManager` are a start and two requests that
meet on its handle, or two starts and a request; two outages break the handle that
replaced a broken one. Four changes in `ResourceLookup` give each table of a resource a
row that is over and one that holds, or a relationship and two addresses behind it.
Two cycles in `ReplicaReads` have a late event of one meet the rows of the other. A lag
of two lets two events of one or of two subjects be on their way to the replica; processes
share nothing but the database, so that one that restarts is enough. Three resources and
pages of two make a full page, a page that is not full and, when a resource is released or
not yet registered, an empty last one; with two process ids the second export may or may
not meet the files of the first. Times
leave an instant between two events, so that lookups are asked at every interval and
never at an event's own time, where the strict comparisons of the lookup leave the
subject out on purpose. Runs say `CHECK_DEADLOCK FALSE` because the number of calls is
finite: once all have ended the system stops.

Symmetry is used over transactions or subjects, in runs without liveness.

### Fairness

`FairSpec` of `StoreTx` and of `AccountOwners` asks two things of every transaction: a
statement that can go on does (`WF(Proceed(t))`: goroutines and server processes are scheduled, and a server ends
the transaction of a broken connection), and the deadlock detector runs
(`WF(DetectDeadlock(t))`: `deadlock_timeout` is one second). Nothing is asked of
clients, of failures, of COMMIT answers. Weak fairness is enough: a statement waits
for locks that are held up to the end of their transaction and there are finitely
many transactions.

`FairReadSpec` asks that a replica that is away returns and that it replays what it has got;
`LookupsBecomeExact` is about processes that go on serving, and nothing is asked of clients,
of events or of starts. `FairSpec` of `BulkExport` asks that the script goes on to its next
command, unless it is aborted.

## 4. The proofs

The theorems hold for every value of the constants that satisfies the assumptions of the
modules: any sets of transactions, processes, subjects and requests, and any bounds. TLC
checked each inductive invariant on the instance of its component's run, or on one of the
same shape with fewer subjects, before it was proved. Each theorem below stands in
`PROJECT.json` with the property it states. `SlotsDistinct` and `InOrder` are hypotheses
of the theorems that name them (`AdditionsAreFound` has two of its own, see there):

* `SlotsDistinct` says that a unique index covers a subject whole. That holds for private
  addresses and relationships, and for public addresses as long as an address of a
  resource has one hostname.
* `InOrder` is `~AcrossCycles /\ ~LateResends`, what the run `ReplicaReads` has too. A
  release may still come before its assignment, and an assignment more than once. Without
  it the properties are false, for the reasons given in section 3.

### StoreTx

| theorem | statement |
|---|---|
| `TypeCorrect` | `Spec => []TypeOK` |
| `HistoryGrows` | `Spec => HistoryOnlyGrows` |
| `IInvCorrect` | `SlotsDistinct`: `Spec => []IInv` |
| `EventsKept` | `SlotsDistinct`: `Spec => []NoEventLost` |
| `FailuresLeaveNoTrace` | `Spec => []NoTraceOfFailure` |
| `StoreImplementsHistory` | `SlotsDistinct`: `Spec => ImplementsHistory` |
| `IndexesHold` | `Spec => []UniqueOpenRows` |
| `KeysResolve` | `Spec => []ResourceResolves` |

`NoEventLost` is not inductive: it speaks of committed requests only. `IInv` adds

* `OneWriter`: a row is locked by one transaction at most, so that the committed
  version under a pending one cannot change before it is committed;
* `PendTouches`: a pending version differs from the committed one only as committing
  the request may change it (`Touched`), which gives `HistoryOnlyGrows`, and the step
  of `AssignmentHistory`;
* `RowsAreOwned`: the row named after an operation does not exist before it is
  applied, so that an INSERT overwrites nothing;
* `TargetsSeen`: the targets of a running UPDATE still exist when it gets to them;
* `AppliedAreSeen`: each operation that a transaction has applied is recorded in a row
  that it sees. For an INSERT that does nothing this is the row it conflicts with, and
  it is here that `SlotsDistinct` is used.

`IndexesHold` needs more than its property as well: two transactions must not have open
rows in flight that conflict, and none with a committed one. An UPDATE never opens a row
again, so that the wait of the INSERT is enough. `KeysResolve` rests on what
`ensureResourceExists` leaves behind (`known` or in `claims`), which nobody takes back.

### EventDelivery

| theorem | statement |
|---|---|
| `SerialStoresKeepWhole` | `Spec => []NoHalves` |
| `TypeCorrect` | `Spec => []TypeOK` |
| `RowsExactCorrect` | `InOrder`, `SlotsDistinct`: `Spec => []RowsExact` |
| `LookupsAreExact` | `InOrder`, `SlotsDistinct`: `Spec => []LookupExact` |
| `EpochRowsAreUnbalanced` | `InOrder`, `SlotsDistinct`: `Spec => []EpochMeansUnbalanced` |

`SerialStoresKeepWhole` holds in any order and with any resends: against `StoreTx_halves`
it says that concurrency alone makes halves. The other two properties say what a lookup or
an epoch row means, not what the table holds, and an UPDATE must be known to hit one row
and the right one. `RowsExact` gives the table itself: a row is there exactly if it is
`Closed` (assignment and release are stored), `Opened` (only the assignment) or `Ending`
(only the release) for an event that has been stored; and what has been stored of a
subject has gaps only where a release came first (`Orderly`). Each of the four UPDATEs and
INSERTs then turns one such table into another (`DeliverKeepsExact`), and a repetition
into itself.

### ReplicaReads

| theorem | statement |
|---|---|
| `PrimaryDelivers` | `ReadSpec => Spec` (of `EventDelivery`) |
| `PrimaryHolds` | `InOrder`, `SlotsDistinct`: `ReadSpec => [](LookupExact /\ EpochMeansUnbalanced)` |
| `IInvCorrect` | `ReadSpec => []IInv` |
| `ReadsTypeCorrect` | `ReadSpec => []ReadsTypeOK` |
| `LookupsAdvance` | `ReadSpec => LookupsNeverGoBack` |
| `ReplicaLags` | `ReadSpec => ReplicaOnlyLags` |
| `ReplicaShowsWhatItHas` | `InOrder`, `SlotsDistinct`: `ReadSpec => []OnReplica!LookupExact` |

That the replica behaves as a delivery of its own is not plain: it must be allowed to
deliver, or to repeat, each event at the moment at which it replays it. `IInv` looks ahead.
The k-th of the pending events is one that `EventDelivery` would take from a replica that
has replayed the k-1 before it (`InReplayOrder`); all of them replayed, it has what the
primary has (`NothingIsLost`), and as many repetitions (`RepeatsCounted`, a count of the
places in the queue at which an event comes again). `ShownIsThere` bounds what a lookup has
met by what its storage has, which only grows. The refinement then carries the theorems
about `EventDelivery` over to the rows of the replica.

### ChangeRequest

| theorem | statement |
|---|---|
| `IInvCorrect` | `Spec => []IInv` |
| `TypeCorrect` | `Spec => []TypeOK` |
| `OthersAreUntouched` | `Spec => OtherResourcesUntouched` |
| `AdditionsAreFound` | `OneNameEach`, `ClocksApart`: `Spec => []AddedIsFound` |
| `ReleasesAreHeeded` | `Spec => []TakenBackIsGone` |

A request may have any number of changes, and a change any number of addresses, hostnames
and related resources; one step of the model runs all the operations. The proofs go by
induction over them: `Induction`, stated with a set instead of a predicate, follows from the
least number principle (`WFMin`, `NatLessThanWellFounded`). `FlattenParts` says that the
nested loops leave nothing out, add nothing and keep the order, `OperationsParts` what that
means for a request, `AfterSteps` that the rows go through one state per operation, and
`Along` carries to the end of the request what each operation keeps.

`IInv` adds to the types that each start and end in the rows was reported: by a request that
names the subject, for a start (`Reported`). `OthersAreUntouched` then needs that the
operations name no other resource (`NamesParts`) and that two ARNs of different resources
keep different ids (`OtherIds`). For `AdditionsAreFound`, `LastAdded` follows an assignment
through the rest of its request: the operation of its change leaves a row that starts now
(`AddAdds`), whether the UPDATE found one, the INSERT made one or the INSERT met a conflict;
the later ones, none of which releases anything, leave it as it is (`AddKeepsAdded`). The
hypotheses exclude what really goes wrong: with two hostnames of an address at one time the
second INSERT is dropped (`OneNameEach`), and if a release is reported for the very instant
after the assignment there is no instant between them to ask for (`ClocksApart`). The
requests of the run satisfy both.

`ReleasesAreHeeded` needs neither. `LastClosed` follows a release in the same way (no row of
its subject is open, `ReleaseCloses` and `ReleaseKeepsClosed`), and knows that ends are times
of stored requests (`EndsIn`), so that none is later than the last one.

### AccountOwners

| theorem | statement |
|---|---|
| `IInvCorrect` | `Spec => []IInv` |
| `TypeCorrect` | `Spec => []TypeOK` |
| `IdsAreFound` | `Spec => []IdsFound` |
| `StoreImplementsDirectory` | `Spec => ImplementsDirectory` |

At COMMIT the tables must become what the request says, as the directory has it, whatever
the other transactions have in flight. `IInv` says who may write what. A login is locked by one
transaction and only its holder has details of it in flight (`LoginsLocked`); no two persons
that are committed, seen or in flight share an e-mail (`EmailsSeenDiffer`,
`EmailsInFlightDiffer`); the row of `account_owner` has one writer (`LinkedOnce`). The rest
is about one transaction: what it has written of a login is what its request says last of it, up to
the person that it is at (`WroteLast`), and the champions revoked are all that the account
has, those granted the ones of the request so far (`ChampionsReplaced`). The lock on
`account_owner` is what makes the latter hold until COMMIT.

### ResourceLookup

| theorem | statement |
|---|---|
| `IInvCorrect` | `Spec => []IInv` |
| `TypeCorrect` | `Spec => []TypeOK` |
| `LookupsDoAgree` | `Spec => LookupsAgree` |
| `AnswersAreFull` | `Spec => FoundInFull` |

The statements of a lookup see different states. `IInv` keeps what still holds of an earlier
one's result when the next one runs: the holder is registered and has the ARN id that was
found (`HolderOfParent`), since resources are never deleted; each address belongs to a
registered resource (`HoldersRegistered`). The last statement reads one state, and
what it shows comes from rows that the other lookups see too (`MergeParts`); in the other
direction a row that passes the joins is found for each address that is held.

### SchemaManager

| theorem | statement |
|---|---|
| `IInvCorrect` | `Spec => []IInv` |
| `TypeCorrect` | `Spec => []TypeOK` |
| `CleanIsApplied` | `Spec => []CleanMeansApplied` |
| `NoHandleLeaks` | `Spec => []NoLeakedHandle` |
| `ServesOnMinimum` | `Spec => StartsOnMinimum` |
| `StepVersionIsItsOwn` | `Spec => StepReturnsItsVersion` |

`CleanMeansApplied` says nothing while the schema is dirty, which is where the work is done.
`IInv` says who does it. Of the calls that migrate, those whose handle is open are one at
most, and it has the lock (`LockHeld`), so that a call left behind by an outage can neither be
joined by another one nor go on. `Progress` and `AppliedMatches` tell how far the holder of the
lock is: it goes from one version that the source has to another, and what its body leaves is
what the version that it has marked says. This holds in the way down of migration 1 too, where
nothing is marked dirty: the body is then the only thing that can make `applied` differ, and a
session that ends in it leaves the one or the other (`InterruptedLeaves`). A call that has
failed and kept the lock is not `Migrating` any more, and `UsingOwned` keeps its handle for it.

For handles: they belong to one process each, and of the calls that have found one to be broken
a single one, the one whose `Close` succeeded, replaces it (`Replacing`). A lock is held by the
handle that its process still has, so that closing that handle releases it.

A start-up is alone in its process and migrates to the minimum (`StartAlone`, `StartTarget`);
one that is "ready" and was not disturbed sees its minimum on a clean schema, up to the moment
at which it serves (`StartDone`). A step that is through with migrating, and was not disturbed,
has left the version it went for (`StepDone`).

### BulkExport

| theorem | statement |
|---|---|
| `TypeCorrect` | `Spec => []TypeOK` |
| `ExportLosesNothing` | `Spec => []NothingLost` |
| `ExportIsCurrent` | `Spec => []NothingStale` |
| `ExportOnceEach` | `Spec => []OnceEach` |

None of the last three is inductive: they speak of the end of an export. Its `IInv` adds
`Watched` (while the script runs `steady` is shown by the query now, and what it shows now is
in `seen`), `Covered` (what is steady up to `LAST_ID` is in the file of an earlier offset),
`ShownOnly` (the files of a fresh export hold what was seen) and `Apart` (they have ids above
their own offset and, with pages in order, up to the next one). `Covered`
holds whichever row of a page comes last, because any row of a page is below those of the
next one; `Apart` needs the order.

### What the proofs assume, and what they do not reach

The proofs use the assumptions on constants that the modules declare: `NullAssumption`,
`RequestAssumption` (of `StoreTx` and of `ChangeRequest`), `DeliveryAssumption`, `ReplicaAssumption`, `LookupAssumption`,
`SchemaAssumption` and `ExportAssumption`. They give the shape of requests, the bounds and
that `NULL` is none of the values; TLC evaluates them in each run. No assumption limits how
many of anything there are. That of `ChangeRequest` also says that the ARN of an application
load balancer goes on behind "loadbalancer/app", as AWS has it (with the name and an id):
otherwise its resource id would be "app", which another ARN could end in.

Model-checked only:

* liveness (`EveryStoreEnds` of `StoreTx` and of `AccountOwners`, `LookupsBecomeExact`,
  `EndsOrMeetsEmptyPage`): fairness is about ENABLED, which the provers do not handle;
* the properties of the runs that expect a violation, whose counterexamples are given above.

## 5. Not modelled

* `DB.FetchAll` returns an error whatever it is asked (`db.go:284-286`), so that the handlers
  of the listing by time return an error too and no page token leaves the server. There is no
  behaviour to check until it is implemented; `BulkExport` models what stands in for it.
* The HTTP handlers parse their input, call one method and translate its error; they keep no
  state. Their parsing appears where a property is about it (the zone of `changeTime`, the
  spellings of a change type). The gateway is third-party software; a retry of it is a
  further call.
* Tags and resource types, which are written with a resource and never compared; owners in
  the lookups, beyond the accounts that they are taken from.
* A replica behind in its schema: what the functions of an older migration answer. Migrations
  are bodies that are applied or not.
* What a migration file without BEGIN leaves when one of its statements fails after others have
  taken effect: a body has its effect as a whole or not at all.
* Logging and the reading of settings.

## 6. Plan

1. `ChangeRequest` as an implementation of `AssignmentHistory`: a stored request is one of its
   steps, with `Operations(q)` for the operations that `StoreTx` takes as given. With
   `OperationsParts` and `Along` most of the proof is there; rows need names first, as
   `AssignmentHistory` has them. Then `StoreTx` and `ChangeRequest` promise the same, and each
   of them says why for the part that the other one leaves out.
2. What a lookup may show while `StoreTx` has requests in flight: `ResourceLookup` stores a
   change in one step, which `ImplementsHistory` justifies for committed states.
