--------------------------- MODULE SchemaManager ---------------------------
(***************************************************************************)
(* SchemaManager (pkg/storage/schema.go) under concurrent requests, and    *)
(* the start-up of a server process (main.go), which migrates too.         *)
(*                                                                         *)
(* All requests of a process share sm.migrator, a handle of golang-migrate *)
(* with one connection of its own; nothing guards the field, and each use  *)
(* reads it again.  A migration holds an advisory lock of the database,    *)
(* and is three statements: mark the new version dirty, run the body, mark *)
(* it clean.  A schema without a version has no row, nor a mark, then.     *)
(***************************************************************************)
EXTENDS Integers

CONSTANTS
  Process,     \* server processes
  Call,        \* requests and start-ups
  Handle,      \* bound: handles that are ever opened
  Last,        \* the last migration
  MinVersion,  \* MinVersion[p]: the schema that process p needs
  MaxOutages,  \* bound: how often the database goes away
  NULL

ASSUME SchemaAssumption ==
  /\ Last \in Nat /\ MaxOutages \in Nat
  /\ MinVersion \in [Process -> 0..Last]
  /\ NULL \notin Handle \cup Call \cup Process

VARIABLES
  version,   \* the version in schema_migrations, or NilVersion: no row
  dirty,     \* its dirty flag
  applied,   \* the migrations whose effect the database really has
  forced,    \* an operator has forced a version
  lock,      \* the call whose connection holds the advisory lock, or NULL
  outages,   \* how often the database went away
  up,        \* the database accepts connections
  conn,      \* conn[h]: what became of the connection of handle h
  migrator,  \* migrator[p]: the handle in sm.migrator; NULL before the start,
             \* and after a migrate.New that failed
  serving,   \* serving[p]: the process has started and serves requests
  proc,      \* proc[c]: the process that runs c
  kind,      \* kind[c]: what c was asked to do
  goal,      \* goal[c]: what c does once it is connected
  using,     \* using[c]: the handle that c migrates with, or NULL
  target,    \* target[c]: the version that c migrates to
  marked,    \* marked[c]: the version that c has marked dirty
  disturbed, \* history: the calls to which the version may have become another:
             \* another one has set it, or may, since a start-up found it dirty
  pc         \* pc[c]: where c is, or how it ended

dbVars == <<version, dirty, applied, forced, lock>>
serverVars == <<outages, up>>
callVars == <<proc, kind, goal, using, target, marked, disturbed>>
vars == <<dbVars, serverVars, conn, migrator, serving, callVars, pc>>

\* The requests that step, those that only ask for the version, and all.
Steps == {"up", "down"}
Reads == {"start", "get"}
Kinds == Steps \cup Reads \cup {"force"}
Body == {"up", "down"}
Migrating == {"mark", "clean"} \cup Body
Active == {"new", "ensure", "close", "renew", "version", "lock", "ready"} \cup Migrating
Ended == {"done", "failed", "panicked"}

\* The versions of the source, and none.  To force another one, for which 0 stands
\* here, writes a row from which nothing can migrate.
NilVersion == -1
Version == {NilVersion} \cup 0..Last
Known == Version \ {0}

\* The versions next to one that is known.
Above(v) == IF v = NilVersion THEN 1 ELSE v + 1
Below(v) == IF v = 1 THEN NilVersion ELSE v - 1

\* What GetSchemaVersion answers: ErrNilVersion is version 0.
Reported(v) == IF v = NilVersion THEN 0 ELSE v

TypeOK ==
  /\ version \in Version /\ dirty \in BOOLEAN
  /\ applied \in SUBSET (1..Last) /\ forced \in BOOLEAN
  /\ lock \in Call \cup {NULL}
  /\ outages \in 0..MaxOutages /\ up \in BOOLEAN
  /\ conn \in [Handle -> {"unused", "open", "broken", "closed"}]
  /\ migrator \in [Process -> Handle \cup {NULL}]
  /\ serving \in [Process -> BOOLEAN]
  /\ proc \in [Call -> Process \cup {NULL}]
  /\ kind \in [Call -> Kinds \cup {NULL}]
  /\ goal \in [Call -> {"read", "migrate"}]
  /\ using \in [Call -> Handle \cup {NULL}]
  /\ target \in [Call -> Version]
  /\ marked \in [Call -> Version]
  /\ disturbed \subseteq Call
  /\ pc \in [Call -> {"idle"} \cup Active \cup Ended]

Init ==
  /\ version = NilVersion /\ dirty = FALSE /\ applied = {} /\ forced = FALSE
  /\ lock = NULL
  /\ outages = 0 /\ up = TRUE
  /\ conn = [h \in Handle |-> "unused"]
  /\ migrator = [p \in Process |-> NULL]
  /\ serving = [p \in Process |-> FALSE]
  /\ proc = [c \in Call |-> NULL]
  /\ kind = [c \in Call |-> NULL]
  /\ goal = [c \in Call |-> "read"]
  /\ using = [c \in Call |-> NULL]
  /\ target = [c \in Call |-> NilVersion]
  /\ marked = [c \in Call |-> NilVersion]
  /\ disturbed = {}
  /\ pc = [c \in Call |-> "idle"]

-----------------------------------------------------------------------------
Goto(c, label) == pc' = [pc EXCEPT ![c] = label]

Migrator(c) == migrator[proc[c]]
Open(h) == h # NULL /\ conn[h] = "open"
Fresh(h) == conn[h] = "unused"

\* Any call on a nil *migrate.Migrate dereferences it.
Panics(c) == Migrator(c) = NULL /\ Goto(c, "panicked")

\* The server ends the session of h: an advisory lock it holds is free again.
Released(h) == IF lock # NULL /\ using[lock] = h THEN NULL ELSE lock

\* What the body of the migration leaves.
AfterBody(c) ==
  IF pc[c] = "up" THEN applied \cup {marked[c]} ELSE applied \ {Above(marked[c])}

\* What the end of the sessions of calls may leave: a body that one of them is in
\* the middle of has been run, or has not.
Interrupted(calls) ==
  {applied} \cup {AfterBody(c) : c \in {d \in calls : lock = d /\ pc[d] \in Body}}

\* EnsureConnected has returned nil.
Connected(c) == Goto(c, IF goal[c] = "read" THEN "version" ELSE "lock")

\* The calls that c disturbs when it sets the version.
Disturbed(c) == disturbed \cup {d \in Call \ {c} : pc[d] \in Active}

\* c is through with what it had to do: a start-up leaves the schema, a step goes
\* on to GetSchemaVersion, the others return.
Finish(c) ==
  IF kind[c] \in Steps /\ goal[c] = "migrate"
  THEN /\ Goto(c, "ensure")
       /\ goal' = [goal EXCEPT ![c] = "read"]
  ELSE /\ Goto(c, IF kind[c] = "start" THEN "ready" ELSE "done")
       /\ UNCHANGED goal

-----------------------------------------------------------------------------
\* A process starts, or a request arrives at one that serves.
Issue(c, p, k) ==
  /\ pc[c] = "idle"
  /\ IF k = "start"
     THEN /\ ~serving[p] /\ migrator[p] = NULL
          /\ \A d \in Call : proc[d] = p => pc[d] \in Ended
     ELSE serving[p]
  /\ proc' = [proc EXCEPT ![c] = p]
  /\ kind' = [kind EXCEPT ![c] = k]
  /\ goal' = [goal EXCEPT ![c] = IF k \in Reads THEN "read" ELSE "migrate"]
  /\ Goto(c, IF k = "start" THEN "new" ELSE "ensure")
  /\ UNCHANGED <<dbVars, serverVars, conn, migrator, serving, using, target, marked,
                 disturbed>>

\* NewSchemaManager: without a connection the start-up fails.
NewSchemaManager(c) ==
  /\ pc[c] = "new"
  /\ \/ /\ up
        /\ \E h \in Handle :
             /\ Fresh(h)
             /\ conn' = [conn EXCEPT ![h] = "open"]
             /\ migrator' = [migrator EXCEPT ![proc[c]] = h]
        /\ Goto(c, "ensure")
     \/ /\ ~up
        /\ Goto(c, "failed")
        /\ UNCHANGED <<conn, migrator>>
  /\ UNCHANGED <<dbVars, serverVars, serving, callVars>>

\* EnsureConnected: a handle that can read the version is kept ..
EnsureConnected(c) ==
  /\ pc[c] = "ensure"
  /\ \/ Panics(c)
     \/ Open(Migrator(c)) /\ Connected(c)
     \/ Migrator(c) # NULL /\ ~Open(Migrator(c)) /\ Goto(c, "close")
  /\ UNCHANGED <<dbVars, serverVars, conn, migrator, serving, callVars>>

\* Mutant: errors of Close are ignored.
CloseMigratorAnyway(c) ==
  /\ pc[c] = "close"
  /\ \/ Panics(c) /\ UNCHANGED <<conn, lock, applied>>
     \/ /\ Migrator(c) # NULL
        /\ conn' = [conn EXCEPT ![Migrator(c)] = "closed"]
        /\ lock' = Released(Migrator(c))
        /\ applied' \in Interrupted({d \in Call : using[d] = Migrator(c)})
        /\ Goto(c, "renew")
  /\ UNCHANGED <<version, dirty, forced, serverVars, migrator, serving, callVars>>

\* .. another is closed, when no statement runs on it any more; an error of Close,
\* which a handle that is closed already returns, ends the call ..
CloseMigrator(c) ==
  /\ pc[c] = "close"
  /\ \/ Panics(c) /\ UNCHANGED <<conn, lock, applied>>
     \/ /\ Migrator(c) # NULL
        /\ conn' = [conn EXCEPT ![Migrator(c)] = "closed"]
        /\ lock' = Released(Migrator(c))
        /\ applied' \in Interrupted({d \in Call : using[d] = Migrator(c)})
        /\ \/ conn[Migrator(c)] # "closed" /\ Goto(c, "renew")
           \/ Goto(c, "failed")
  /\ UNCHANGED <<version, dirty, forced, serverVars, migrator, serving, callVars>>

\* .. and sm.migrator gets what migrate.New returns, a handle or nil.
RenewMigrator(c) ==
  /\ pc[c] = "renew"
  /\ \/ /\ up
        /\ \E h \in Handle :
             /\ Fresh(h)
             /\ conn' = [conn EXCEPT ![h] = "open"]
             /\ migrator' = [migrator EXCEPT ![proc[c]] = h]
        /\ Connected(c)
     \/ /\ ~up
        /\ migrator' = [migrator EXCEPT ![proc[c]] = NULL]
        /\ Goto(c, "failed")
        /\ UNCHANGED conn
  /\ UNCHANGED <<dbVars, serverVars, serving, callVars>>

\* Mutant: an off-by-one.
NeedsMigrationOneShort(c) == ~dirty /\ Reported(version) + 1 < MinVersion[proc[c]]

\* A start-up leaves a dirty schema alone, and one that is new enough.
NeedsMigration(c) == ~dirty /\ Reported(version) < MinVersion[proc[c]]

\* What a start-up has just seen, it knows; but not how a dirty schema ends.
Looked(c) == IF dirty THEN disturbed \cup {c} ELSE disturbed \ {c}

\* GetSchemaVersion, and what main.go does with it.
GetSchemaVersion(c) ==
  /\ pc[c] = "version"
  /\ \/ Panics(c) /\ UNCHANGED <<goal, disturbed>>
     \/ /\ Migrator(c) # NULL /\ ~Open(Migrator(c))
        /\ Goto(c, "failed")
        /\ UNCHANGED <<goal, disturbed>>
     \/ /\ Open(Migrator(c))
        /\ disturbed' = IF kind[c] = "start" THEN Looked(c) ELSE disturbed
        /\ IF kind[c] = "start" /\ NeedsMigration(c)
           THEN Goto(c, "ensure") /\ goal' = [goal EXCEPT ![c] = "migrate"]
           ELSE Finish(c)
  /\ UNCHANGED <<dbVars, serverVars, conn, migrator, serving, proc, kind, using, target, marked>>

\* The rest of the start-up: the handlers are made, and serverfull starts.
StartServing(c) ==
  /\ pc[c] = "ready"
  /\ serving' = [serving EXCEPT ![proc[c]] = TRUE]
  /\ Goto(c, "done")
  /\ UNCHANGED <<dbVars, serverVars, conn, migrator, callVars>>

-----------------------------------------------------------------------------
\* Steps, Migrate and Force refuse a handle that another request migrates with
\* (ErrLocked), and one that is not connected.
Refused(c) ==
  \/ ~Open(Migrator(c))
  \/ \E d \in Call : using[d] = Migrator(c)

\* The version that the call asks for: one up, one down, or the minimum.
Wanted(c) ==
  CASE kind[c] = "up"   -> Above(version)
    [] kind[c] = "down" -> Below(version)
    [] OTHER            -> MinVersion[proc[c]]

\* Mutant: a version is not looked up in the source.
MayMigrateAnywhere(c) == ~dirty

\* The schema is not dirty, and the source has both versions.
MayMigrate(c) == ~dirty /\ {version, Wanted(c)} \subseteq Known

\* Mutant: a dirty schema is forced clean first.
BeginMigrationForced(c) ==
  /\ pc[c] = "lock" /\ kind[c] # "force"
  /\ Migrator(c) # NULL /\ ~Refused(c) /\ lock = NULL
  /\ version \in Known /\ Wanted(c) \in Known \ {version}
  /\ lock' = c
  /\ using' = [using EXCEPT ![c] = Migrator(c)]
  /\ target' = [target EXCEPT ![c] = Wanted(c)]
  /\ disturbed' = disturbed \ {c}
  /\ dirty' = FALSE
  /\ Goto(c, "mark")
  /\ UNCHANGED <<version, applied, forced, serverVars, conn, migrator, serving,
                 proc, kind, goal, marked>>

\* Steps and Migrate, with the lock, on a schema that is not dirty.
BeginMigration(c) ==
  /\ pc[c] = "lock" /\ kind[c] # "force"
  /\ Migrator(c) # NULL /\ ~Refused(c) /\ lock = NULL
  /\ MayMigrate(c) /\ Wanted(c) # version
  /\ lock' = c
  /\ using' = [using EXCEPT ![c] = Migrator(c)]
  /\ target' = [target EXCEPT ![c] = Wanted(c)]
  /\ disturbed' = disturbed \ {c}
  /\ Goto(c, "mark")
  /\ UNCHANGED <<version, dirty, applied, forced, serverVars, conn, migrator, serving,
                 proc, kind, goal, marked>>

\* Migrate has nothing to do: ErrNoChange, which a start-up takes for success.
NoChange(c) ==
  /\ pc[c] = "lock" /\ kind[c] = "start"
  /\ Migrator(c) # NULL /\ ~Refused(c) /\ lock = NULL
  /\ MayMigrate(c) /\ Wanted(c) = version
  /\ disturbed' = disturbed \ {c}
  /\ Finish(c)
  /\ UNCHANGED <<dbVars, serverVars, conn, migrator, serving, proc, kind, using, target, marked>>

\* Mutant: migrateSchema drops the error of Steps and returns the version it reads.
MigrationFailsUnseen(c) ==
  /\ pc[c] = "lock" /\ Migrator(c) # NULL
  /\ \/ Refused(c)
     \/ lock # NULL
     \/ kind[c] # "force" /\ ~MayMigrate(c)
  /\ Finish(c)
  /\ UNCHANGED <<dbVars, serverVars, conn, migrator, serving, proc, kind, using, target, marked,
                 disturbed>>

\* An error: refused, dirty, no such migration, or the lock not given in time.
MigrationFails(c) ==
  /\ pc[c] = "lock"
  /\ \/ Panics(c)
     \/ /\ Migrator(c) # NULL
        /\ \/ Refused(c)
           \/ lock # NULL
           \/ kind[c] # "force" /\ ~MayMigrate(c)
        /\ Goto(c, "failed")
  /\ UNCHANGED <<dbVars, serverVars, conn, migrator, serving, callVars>>

\* ForceSchemaToVersion sets any version and clears the flag; it runs nothing.
\* (Its uint is made an int: the largest one is NilVersion.)
ForceSchemaToVersion(c) ==
  /\ pc[c] = "lock" /\ kind[c] = "force"
  /\ Migrator(c) # NULL /\ ~Refused(c) /\ lock = NULL
  /\ version' \in Version
  /\ dirty' = FALSE
  /\ forced' = TRUE
  /\ disturbed' = Disturbed(c)
  /\ Finish(c)
  /\ UNCHANGED <<applied, lock, serverVars, conn, migrator, serving, proc, kind, using,
                 target, marked>>

NextVersion(c) == IF target[c] > version THEN Above(version) ELSE Below(version)

\* SetVersion replaces the row; for NilVersion it writes none, with no dirty flag.
MarkDirty(c) ==
  /\ pc[c] = "mark" /\ Open(using[c])
  /\ version' = NextVersion(c)
  /\ marked' = [marked EXCEPT ![c] = NextVersion(c)]
  /\ dirty' = (NextVersion(c) # NilVersion)
  /\ disturbed' = Disturbed(c)
  /\ Goto(c, IF target[c] > version THEN "up" ELSE "down")
  /\ UNCHANGED <<applied, forced, lock, serverVars, conn, migrator, serving,
                 proc, kind, goal, using, target>>

RunBody(c) ==
  /\ pc[c] \in Body /\ Open(using[c])
  /\ applied' = AfterBody(c)
  /\ Goto(c, "clean")
  /\ UNCHANGED <<version, dirty, forced, lock, serverVars, conn, migrator, serving, callVars>>

MarkClean(c) ==
  /\ pc[c] = "clean" /\ Open(using[c])
  /\ dirty' = FALSE
  /\ IF version = target[c]
     THEN /\ lock' = NULL
          /\ using' = [using EXCEPT ![c] = NULL]
          /\ Finish(c)
     ELSE /\ Goto(c, "mark")
          /\ UNCHANGED <<lock, using, goal>>
  /\ UNCHANGED <<version, applied, forced, serverVars, conn, migrator, serving,
                 proc, kind, target, marked, disturbed>>

\* The body of a migration fails and leaves nothing; the version stays as it was
\* marked. A body between BEGIN and COMMIT leaves its session in a transaction that
\* takes no statement any more, the unlock neither: the session keeps the lock.
BodyFails(c) ==
  /\ pc[c] \in Body /\ Open(using[c])
  /\ \/ /\ lock' = NULL
        /\ using' = [using EXCEPT ![c] = NULL]
        /\ UNCHANGED conn
     \/ /\ conn' = [conn EXCEPT ![using[c]] = "broken"]
        /\ UNCHANGED <<lock, using>>
  /\ Goto(c, "failed")
  /\ UNCHANGED <<version, dirty, applied, forced, serverVars, migrator, serving,
                 proc, kind, goal, target, marked, disturbed>>

\* A statement on a connection that is gone.
MigrationBreaks(c) ==
  /\ pc[c] \in Migrating /\ ~Open(using[c])
  /\ using' = [using EXCEPT ![c] = NULL]
  /\ Goto(c, "failed")
  /\ UNCHANGED <<dbVars, serverVars, conn, migrator, serving,
                 proc, kind, goal, target, marked, disturbed>>

-----------------------------------------------------------------------------
\* The database goes away, with every connection and every session.
Outage ==
  /\ up /\ outages < MaxOutages
  /\ up' = FALSE
  /\ outages' = outages + 1
  /\ conn' = [h \in Handle |-> IF conn[h] = "open" THEN "broken" ELSE conn[h]]
  /\ lock' = NULL
  /\ applied' \in Interrupted(Call)
  /\ UNCHANGED <<version, dirty, forced, migrator, serving, callVars, pc>>

\* Process p ends: a start-up has failed, or it is killed at any point, in the
\* middle of a migration too.  Its connection and its requests end with it.
Exit(p) ==
  LET Own == {c \in Call : proc[c] = p} IN
  /\ migrator[p] # NULL \/ serving[p]
  /\ migrator' = [migrator EXCEPT ![p] = NULL]
  /\ serving' = [serving EXCEPT ![p] = FALSE]
  /\ conn' = [h \in Handle |-> IF h = migrator[p] THEN "closed" ELSE conn[h]]
  /\ lock' = IF lock \in Own THEN NULL ELSE lock
  /\ using' = [c \in Call |-> IF c \in Own THEN NULL ELSE using[c]]
  /\ pc' = [c \in Call |-> IF c \in Own /\ pc[c] \in Active THEN "failed" ELSE pc[c]]
  /\ applied' \in Interrupted(Own)
  /\ UNCHANGED <<version, dirty, forced, serverVars, proc, kind, goal, target, marked,
                 disturbed>>

Recovery ==
  /\ ~up
  /\ up' = TRUE
  /\ UNCHANGED <<dbVars, outages, conn, migrator, serving, callVars, pc>>

Step(c) ==
  \/ \E p \in Process, k \in Kinds : Issue(c, p, k)
  \/ NewSchemaManager(c)
  \/ EnsureConnected(c) \/ CloseMigrator(c) \/ RenewMigrator(c)
  \/ GetSchemaVersion(c) \/ StartServing(c)
  \/ BeginMigration(c) \/ NoChange(c) \/ MigrationFails(c)
  \/ ForceSchemaToVersion(c)
  \/ MarkDirty(c) \/ RunBody(c) \/ MarkClean(c)
  \/ BodyFails(c) \/ MigrationBreaks(c)

Next == (\E c \in Call : Step(c)) \/ (\E p \in Process : Exit(p)) \/ Outage \/ Recovery

Spec == Init /\ [][Next]_vars

-----------------------------------------------------------------------------
(***************************************************************************)
(* Properties.                                                             *)
(***************************************************************************)
\* A schema with a version that is not dirty has the migrations it says, as long as
\* no operator forced a version: through outages in the middle of a migration,
\* handles closed under a running one and processes that migrate at once.  Without
\* a version it has none, but for the first, whose way down leaves no dirty flag
\* when it does not come to its end.
CleanMeansApplied ==
  ~dirty /\ ~forced =>
    IF version = NilVersion THEN applied \subseteq {1} ELSE applied = 1..version

\* A handle that is open is the one in sm.migrator, and so is one whose session
\* holds the advisory lock: replacing it leaks no connection, also when two requests
\* replace it at once, and a lock that a failed migration has kept goes with it.
NoLeakedHandle ==
  /\ \A h \in Handle : conn[h] = "open" => \E p \in Process : migrator[p] = h
  /\ lock # NULL => \E p \in Process : migrator[p] = using[lock]

\* "Lowest version of database schema current code is able to handle"
\* (schema.go:31): a start-up that goes on to serve has seen the minimum of its
\* process reached, by its own migration or by those of others, through any number
\* of calls that others make between its own; and there the schema still is, unless
\* it was dirty ("do not touch schema", main.go:60) or another call has set the
\* version since.
StartsOnMinimum ==
  [][\A c \in Call : pc[c] = "ready" /\ pc'[c] = "done" /\ c \notin disturbed =>
       Reported(version) >= MinVersion[proc[c]] /\ ~dirty]_vars

\* migrateSchema reads the version that it returns in a call of its own, after the
\* lock is gone, with a handle that may have been replaced, and without the dirty
\* flag.  It is the version that the step has gone to, unless another call has set
\* it meanwhile ("Resulting Schema Version", api.yaml:470).
StepReturns(c) == kind[c] \in Steps /\ pc[c] = "version" /\ pc'[c] = "done"
StepReturnsItsVersion ==
  [][\A c \in Call : StepReturns(c) /\ c \notin disturbed =>
       version = target[c] /\ ~dirty]_vars

\* "checks if the migrator database connection is functioning properly and
\* replaces it if needed" (schema.go:42): a process that serves has a handle,
\* and not what a failed migrate.New left.
MigratorReplaced == \A p \in Process : serving[p] => migrator[p] # NULL
=============================================================================
