------------------------ MODULE SchemaManagerProofs ------------------------
(***************************************************************************)
(* Proofs about SchemaManager, for any number of processes, requests,      *)
(* handles, migrations and outages.                                        *)
(***************************************************************************)
EXTENDS SchemaManager, TLAPS

-----------------------------------------------------------------------------
(***************************************************************************)
(* The inductive invariant.                                                *)
(***************************************************************************)
\* A call that does something belongs to a process, and what it does next is
\* what its goal says.
Plain == {"ensure", "close", "renew", "version"}
Issued ==
  \A c \in Call :
    /\ pc[c] # "idle" => proc[c] \in Process /\ kind[c] \in Kinds
    /\ pc[c] = "idle" => proc[c] = NULL
    /\ pc[c] = "version" => goal[c] = "read"
    /\ pc[c] \in {"lock"} \cup Migrating => goal[c] = "migrate"

\* A start-up is alone in its process, which does not serve before it ends; it
\* has no handle before NewSchemaManager.
StartAlone ==
  \A c \in Call :
    /\ kind[c] = "start" /\ pc[c] \in Active =>
         /\ ~serving[proc[c]]
         /\ \A d \in Call \ {c} : proc[d] = proc[c] => pc[d] \in Ended
    /\ pc[c] = "new" => kind[c] = "start" /\ migrator[proc[c]] = NULL
    /\ pc[c] = "ready" => kind[c] = "start"

\* Processes have handles of their own; one of them is replaced by the one call
\* that has closed it.
HandlesOwned ==
  /\ \A p \in Process : migrator[p] # NULL => conn[migrator[p]] # "unused"
  /\ \A p, q \in Process : migrator[p] # NULL /\ migrator[p] = migrator[q] => p = q
OpenOwned == \A h \in Handle : conn[h] = "open" => \E p \in Process : migrator[p] = h
Replacing ==
  \A c \in Call : pc[c] = "renew" =>
    /\ migrator[proc[c]] # NULL => conn[migrator[proc[c]]] = "closed"
    /\ \A d \in Call : pc[d] = "renew" /\ proc[d] = proc[c] => d = c

\* The calls that migrate have handles of their own, and so has one that failed and
\* kept the lock.  The one whose handle is still open, at most one, has the lock:
\* the others can only fail.
UsingOwned ==
  /\ \A c \in Call : pc[c] \in Migrating => using[c] # NULL
  /\ \A c \in Call : using[c] # NULL =>
       pc[c] \in Migrating \cup {"failed"} /\ conn[using[c]] # "unused"
  /\ \A c, d \in Call : using[c] # NULL /\ using[c] = using[d] => c = d
LockHeld ==
  /\ \A c \in Call : pc[c] \in Migrating =>
       (lock = c <=> conn[using[c]] = "open")
  /\ \A c \in Call : lock = c =>
       /\ pc[c] # "idle" /\ using[c] # NULL /\ migrator[proc[c]] = using[c]
       /\ conn[using[c]] # "closed"

\* How far the migration under the lock is: it goes from one version that the source
\* has to another, and what its body leaves is what the marked version says.
Progress ==
  \A c \in Call : lock = c /\ pc[c] \in Migrating =>
    /\ version \in Known /\ target[c] \in Known
    /\ pc[c] = "mark" => target[c] # version /\ ~dirty
    /\ pc[c] \in Body => version = marked[c]
    /\ pc[c] = "up" => version # NilVersion
AppliedMatches ==
  \A c \in Call : ~forced /\ lock = c =>
    /\ pc[c] \in Body => AfterBody(c) = 1..version
    /\ pc[c] = "clean" => applied = 1..version

\* A start-up migrates to the version it needs.
StartTarget ==
  \A c \in Call : kind[c] = "start" /\ pc[c] \in Migrating =>
    target[c] = MinVersion[proc[c]]

\* A start-up that was not disturbed since it saw the minimum still sees it.
StartDone ==
  \A c \in Call : pc[c] = "ready" /\ c \notin disturbed =>
    Reported(version) >= MinVersion[proc[c]] /\ ~dirty

\* A step that is through with migrating, and was not disturbed, left the schema
\* at its version.
StepDone ==
  \A c \in Call :
    kind[c] \in Steps /\ goal[c] = "read" /\ pc[c] \in Plain /\ c \notin disturbed =>
      version = target[c] /\ ~dirty

Handles == Issued /\ StartAlone /\ HandlesOwned /\ OpenOwned /\ Replacing
Lock    == UsingOwned /\ LockHeld
Schema  == Progress /\ AppliedMatches /\ CleanMeansApplied
Calls   == StartTarget /\ StartDone /\ StepDone
IInv    == TypeOK /\ Handles /\ Lock /\ Schema /\ Calls

-----------------------------------------------------------------------------
\* The versions next to one that the source has, on the way to another one.
LEMMA Neighbours ==
  ASSUME NEW v \in Known, NEW t \in Known, t # v
  PROVE  /\ t > v => Above(v) \in Known \ {NilVersion}
         /\ t < v => Below(v) \in Known /\ v \in 1..Last /\ Above(Below(v)) = v
BY SchemaAssumption DEF Known, Version, NilVersion, Above, Below

\* The migrations of one version more, and of one less.
LEMMA Upto ==
  ASSUME NEW v \in Known, NEW S
  PROVE  /\ v = NilVersion /\ S \subseteq {1} => S \cup {Above(v)} = 1..Above(v)
         /\ v # NilVersion /\ S = 1..v => S \cup {Above(v)} = 1..Above(v)
         /\ v # NilVersion /\ S = 1..v => S \ {v} = 1..Below(v)
         /\ 1..NilVersion = {}
<1>1. Last \in Nat /\ v \in Int /\ (v = -1 \/ v >= 1)
  BY SchemaAssumption DEF Known, Version, NilVersion
<1>2. CASE v = NilVersion
  BY <1>2 DEF NilVersion, Above
<1>3. CASE v # NilVersion
  <2>1. v \in Nat /\ v >= 1 /\ Above(v) = v + 1
    BY <1>1, <1>3 DEF NilVersion, Above
  <2>2. (1..v) \cup {v + 1} = 1..(v + 1)
    BY <2>1
  <2>3. (1..v) \ {v} = 1..Below(v)
    BY <2>1 DEF Below, NilVersion
  <2>4. 1..NilVersion = {}
    BY DEF NilVersion
  <2> QED BY <1>3, <2>1, <2>2, <2>3, <2>4
<1> QED BY <1>2, <1>3

\* What the body of a migration leaves, as a set of migrations.
LEMMA AfterBodyType ==
  ASSUME TypeOK, Progress, NEW c \in Call, lock = c, pc[c] \in Body
  PROVE  AfterBody(c) \in SUBSET (1..Last)
<1>1. applied \in SUBSET (1..Last)
  BY DEF TypeOK
<1>2. pc[c] = "up" => marked[c] \in Known \ {NilVersion}
  BY DEF Progress, Migrating, Body
<1>3. pc[c] = "up" => marked[c] \in 1..Last
  BY <1>2, SchemaAssumption DEF Known, Version, NilVersion
<1> QED BY <1>1, <1>3 DEF AfterBody

\* A session that ends leaves the migrations as they are, or has them as the marked
\* version says.
LEMMA InterruptedLeaves ==
  ASSUME TypeOK, Schema, NEW calls \in SUBSET Call, applied' \in Interrupted(calls),
         UNCHANGED <<version, dirty, forced>>
  PROVE  applied' \in SUBSET (1..Last) /\ CleanMeansApplied'
<1>1. CASE applied' = applied
  BY <1>1 DEF TypeOK, Schema, CleanMeansApplied
<1>2. CASE \E c \in calls : lock = c /\ pc[c] \in Body /\ applied' = AfterBody(c)
  <2> PICK c \in calls : lock = c /\ pc[c] \in Body /\ applied' = AfterBody(c)
    BY <1>2
  <2>1. applied' \in SUBSET (1..Last)
    BY AfterBodyType DEF Schema
  <2>2. version \in Known /\ (~forced => applied' = 1..version)
    BY DEF Schema, Progress, AppliedMatches, Migrating
  <2> QED BY <2>1, <2>2, Upto DEF CleanMeansApplied
<1> QED BY <1>1, <1>2 DEF Interrupted

-----------------------------------------------------------------------------
(***************************************************************************)
(* What the actions have in common.                                        *)
(***************************************************************************)
\* A call that has been issued has a process, and the process a handle or NULL.
LEMMA CallParts ==
  ASSUME TypeOK, Issued, NEW c \in Call, pc[c] # "idle"
  PROVE  /\ proc[c] \in Process /\ kind[c] \in Kinds
         /\ Migrator(c) \in Handle \cup {NULL}
BY DEF TypeOK, Issued, Migrator

\* A start-up wants the minimum of its process.
LEMMA StartWants ==
  ASSUME NEW c \in Call, kind[c] = "start"
  PROVE  Wanted(c) = MinVersion[proc[c]]
BY Zenon DEF Wanted

\* A step of a call that does not migrate leaves the migrations alone.
LEMMA SchemaStays ==
  ASSUME TypeOK, UsingOwned, LockHeld, Schema, NEW c \in Call, NEW label,
         pc[c] \notin Migrating, label \notin Migrating, Goto(c, label),
         lock' \in {lock, NULL}, UNCHANGED <<version, dirty, applied, forced, target, marked>>
  PROVE  Schema'
<1>1. /\ \A d \in Call : d # c => pc'[d] = pc[d]
      /\ pc'[c] \notin Migrating
  BY DEF TypeOK, Goto
<1>2. ASSUME NEW d \in Call, lock' = d, pc'[d] \in Migrating
      PROVE  lock = d /\ pc'[d] = pc[d] /\ AfterBody(d)' = AfterBody(d)
  BY <1>1, <1>2, SchemaAssumption DEF AfterBody
<1>3. Progress'
  BY <1>2 DEF Schema, Progress
<1>4. AppliedMatches'
  BY <1>2 DEF Schema, AppliedMatches, Migrating
<1> QED BY <1>3, <1>4 DEF Schema, CleanMeansApplied

\* .. and the lock, when the handle of its process stays, or was not in use.
LEMMA LockStays ==
  ASSUME TypeOK, Issued, HandlesOwned, Lock, NEW c \in Call, NEW label, pc[c] # "idle",
         pc[c] \notin Migrating \cup {"failed"}, label \notin Migrating \cup {"idle"},
         Goto(c, label),
         \A h \in Handle : conn[h] # "unused" => conn'[h] = conn[h],
         \/ migrator' = migrator
         \/ /\ migrator[proc[c]] = NULL \/ conn[migrator[proc[c]]] = "closed"
            /\ \A p \in Process \ {proc[c]} : migrator'[p] = migrator[p],
         UNCHANGED <<lock, using, proc>>
  PROVE  Lock'
<1>1. /\ \A d \in Call : d # c => pc'[d] = pc[d]
      /\ pc'[c] = label
  BY DEF TypeOK, Goto
<1>2. UsingOwned'
  BY <1>1 DEF TypeOK, Lock, UsingOwned
<1>3. ASSUME NEW d \in Call, pc'[d] \in Migrating
      PROVE  (lock = d <=> conn[using[d]] = "open")'
  BY <1>1, <1>3 DEF TypeOK, Lock, UsingOwned, LockHeld
<1>4. ASSUME NEW d \in Call, lock' = d
      PROVE  /\ pc'[d] # "idle" /\ using'[d] # NULL /\ migrator'[proc'[d]] = using'[d]
             /\ conn'[using'[d]] # "closed"
  <2>1. /\ pc[d] # "idle" /\ using[d] \in Handle /\ migrator[proc[d]] = using[d]
        /\ conn[using[d]] \notin {"closed", "unused"} /\ proc[d] \in Process
        /\ using[d] # NULL
    BY <1>4 DEF TypeOK, Issued, Lock, UsingOwned, LockHeld
  <2>2. migrator'[proc[d]] = migrator[proc[d]]
    BY <2>1
  <2> QED BY <1>1, <2>1, <2>2 DEF Lock, UsingOwned
<1> QED BY <1>2, <1>3, <1>4 DEF Lock, LockHeld

-----------------------------------------------------------------------------
(***************************************************************************)
(* The actions, one lemma each: they keep the five parts of IInv.          *)
(***************************************************************************)
LEMMA IssueKeeps ==
  ASSUME IInv, NEW c \in Call, NEW p \in Process, NEW k \in Kinds, Issue(c, p, k)
  PROVE  IInv'
<1>1. TypeOK'
  BY DEF IInv, TypeOK, Issue, Goto, dbVars, serverVars, Active
<1>2. Handles'
  BY DEF IInv, TypeOK, Handles, Issued, StartAlone, HandlesOwned, OpenOwned, Replacing,
     Issue, Goto, Active, Migrating, Body, Ended
<1>3. Lock'
  BY SchemaAssumption DEF IInv, Lock, UsingOwned, LockHeld, Issue, Goto, dbVars, Migrating,
     Body
<1>4. Schema'
  BY CallParts, SchemaAssumption, SchemaStays DEF IInv, TypeOK, Lock, Issue, Goto, Steps,
     Reads, Migrator, dbVars, serverVars, callVars, Active, Migrating, Body, Ended
<1>5. Calls'
  BY DEF IInv, TypeOK, Calls, StartTarget, StartDone, StepDone, Steps, Reads, Issue, Goto, dbVars,
     Migrating, Body
<1> QED BY <1>1, <1>2, <1>3, <1>4, <1>5 DEF IInv

LEMMA NewSchemaManagerKeeps ==
  ASSUME IInv, NEW c \in Call, NewSchemaManager(c)
  PROVE  IInv'
<1>1. TypeOK'
  BY DEF IInv, TypeOK, NewSchemaManager, Goto, dbVars, serverVars, callVars, Active, Ended
<1>2. Handles'
  <2> DEFINE p == proc[c]
  <2>1. /\ p \in Process /\ \A d \in Call \ {c} : pc'[d] = pc[d]
        /\ pc[c] = "new" /\ pc'[c] \in {"ensure", "failed"}
        /\ migrator[p] = NULL
        /\ UNCHANGED <<proc, kind, goal, serving>>
    BY CallParts DEF IInv, TypeOK, Handles, StartAlone, Replacing, Migrator, NewSchemaManager, Goto,
       callVars
  <2>2. \/ \E h \in Handle : /\ conn[h] = "unused" /\ conn' = [conn EXCEPT ![h] = "open"]
                            /\ migrator' = [migrator EXCEPT ![p] = h]
        \/ conn' = conn /\ migrator' \in {migrator, [migrator EXCEPT ![p] = NULL]}
    BY DEF NewSchemaManager, Fresh
  <2>3. conn \in [Handle -> {"unused", "open", "broken", "closed"}] /\ NULL \notin Handle
        /\ migrator \in [Process -> Handle \cup {NULL}]
    BY SchemaAssumption DEF IInv, TypeOK
  <2>4. Issued'
    BY <2>1 DEF IInv, Handles, Issued, Migrating, Body
  <2>5. StartAlone'
    BY <2>1, <2>2, <2>3 DEF IInv, Handles, Issued, StartAlone, Active, Migrating, Body, Ended
  <2>6. HandlesOwned'
    BY <2>1, <2>2, <2>3 DEF IInv, Handles, HandlesOwned
  <2>7. OpenOwned'
    BY <2>1, <2>2, <2>3 DEF IInv, Handles, HandlesOwned, OpenOwned
  <2>8. Replacing'
    BY <2>1, <2>2, <2>3 DEF IInv, Handles, StartAlone, HandlesOwned, Replacing, Issued,
       Active, Ended
  <2> QED BY <2>4, <2>5, <2>6, <2>7, <2>8 DEF Handles
<1>3. Lock'
  BY LockStays DEF IInv, TypeOK, Handles, StartAlone, NewSchemaManager, Fresh, dbVars,
     callVars, Migrating, Body
<1>4. Schema'
  BY SchemaStays DEF IInv, Lock, NewSchemaManager, dbVars, callVars, Migrating, Body
<1>5. Calls'
  BY DEF IInv, TypeOK, Calls, StartTarget, StartDone, StepDone, Steps, Migrating, Body,
     NewSchemaManager, Goto, dbVars, callVars, Handles, StartAlone
<1> QED BY <1>1, <1>2, <1>3, <1>4, <1>5 DEF IInv

LEMMA EnsureConnectedKeeps ==
  ASSUME IInv, NEW c \in Call, EnsureConnected(c)
  PROVE  IInv'
<1>1. TypeOK'
  BY DEF IInv, TypeOK, EnsureConnected, Goto, Panics, Connected, dbVars, serverVars,
     callVars, Active, Ended
<1>2. Handles'
  BY DEF IInv, TypeOK, Handles, Issued, StartAlone, HandlesOwned, OpenOwned, Replacing,
     EnsureConnected, Goto, Panics, Connected, callVars, Migrating, Body, Ended
<1>3. Lock'
  BY LockStays DEF IInv, Handles, EnsureConnected, Panics, Connected, dbVars, callVars,
     Migrating, Body
<1>4. Schema'
  BY SchemaStays DEF IInv, Lock, EnsureConnected, Panics, Connected, dbVars, callVars,
     Migrating, Body
<1>5. Calls'
  BY DEF IInv, TypeOK, Calls, StartTarget, StartDone, StepDone, Plain, EnsureConnected, Goto,
         Panics,
     Connected, dbVars, callVars, Migrating, Body
<1> QED BY <1>1, <1>2, <1>3, <1>4, <1>5 DEF IInv

LEMMA CloseMigratorKeeps ==
  ASSUME IInv, NEW c \in Call, CloseMigrator(c)
  PROVE  IInv'
<1>0. applied' \in SUBSET (1..Last) /\ CleanMeansApplied'
  BY InterruptedLeaves DEF IInv, TypeOK, Schema, CleanMeansApplied, CloseMigrator, Panics
<1>1. TypeOK'
  BY <1>0 DEF IInv, TypeOK, CloseMigrator, Goto, Panics, Released, serverVars, callVars, Active,
     Ended
<1>2. Handles'
  BY DEF IInv, TypeOK, Handles, Issued, StartAlone, HandlesOwned, OpenOwned, Replacing,
     CloseMigrator, Goto, Panics, Migrator, callVars, Migrating, Body, Ended
<1>3. Lock'
  BY SchemaAssumption DEF IInv, TypeOK, Lock, UsingOwned, LockHeld, CloseMigrator, Goto,
     Panics, Released, callVars, Migrating, Body
<1>4. Schema'
  <2>1. CASE applied' = applied
    BY <2>1, SchemaStays DEF IInv, Lock, CloseMigrator, Panics, Released, callVars,
       Migrating, Body
  <2>2. CASE applied' # applied
    <3>1. lock' = NULL
      BY <2>2, SchemaAssumption DEF CloseMigrator, Interrupted, Released
    <3> QED BY <1>0, <3>1, SchemaAssumption DEF Schema, Progress, AppliedMatches
  <2> QED BY <2>1, <2>2
<1>5. Calls'
  BY DEF IInv, TypeOK, Calls, StartTarget, StartDone, StepDone, Plain, CloseMigrator, Goto, Panics,
     callVars, Migrating, Body
<1> QED BY <1>1, <1>2, <1>3, <1>4, <1>5 DEF IInv

LEMMA RenewMigratorKeeps ==
  ASSUME IInv, NEW c \in Call, RenewMigrator(c)
  PROVE  IInv'
<1>1. TypeOK'
  BY DEF IInv, TypeOK, RenewMigrator, Goto, Connected, dbVars, serverVars, callVars, Active,
     Ended
<1>2. Handles'
  <2> DEFINE p == proc[c]
  <2>1. /\ p \in Process /\ \A d \in Call \ {c} : pc'[d] = pc[d]
        /\ pc[c] = "renew" /\ pc'[c] \in {"version", "lock", "failed"}
        /\ pc'[c] = "version" => goal[c] = "read"
        /\ pc'[c] = "lock" => goal[c] = "migrate"
        /\ migrator[p] # NULL => conn[migrator[p]] = "closed"
        /\ UNCHANGED <<proc, kind, goal, serving>>
    BY CallParts DEF IInv, TypeOK, Handles, StartAlone, Replacing, Migrator, RenewMigrator, Goto,
                     Connected, callVars
  <2>2. \/ \E h \in Handle : /\ conn[h] = "unused" /\ conn' = [conn EXCEPT ![h] = "open"]
                            /\ migrator' = [migrator EXCEPT ![p] = h]
        \/ conn' = conn /\ migrator' \in {migrator, [migrator EXCEPT ![p] = NULL]}
    BY DEF RenewMigrator, Fresh
  <2>3. conn \in [Handle -> {"unused", "open", "broken", "closed"}] /\ NULL \notin Handle
        /\ migrator \in [Process -> Handle \cup {NULL}]
    BY SchemaAssumption DEF IInv, TypeOK
  <2>4. Issued'
    BY <2>1 DEF IInv, Handles, Issued, Migrating, Body
  <2>5. StartAlone'
    BY <2>1, <2>2, <2>3 DEF IInv, Handles, Issued, StartAlone, Active, Migrating, Body, Ended
  <2>6. HandlesOwned'
    BY <2>1, <2>2, <2>3 DEF IInv, Handles, HandlesOwned
  <2>7. OpenOwned'
    BY <2>1, <2>2, <2>3 DEF IInv, Handles, HandlesOwned, OpenOwned
  <2>8. Replacing'
    BY <2>1, <2>2, <2>3 DEF IInv, Handles, StartAlone, HandlesOwned, Replacing, Issued,
       Active, Ended
  <2> QED BY <2>4, <2>5, <2>6, <2>7, <2>8 DEF Handles
<1>3. Lock'
  BY LockStays DEF IInv, TypeOK, Handles, Replacing, RenewMigrator, Fresh, Connected,
     dbVars, callVars, Migrating, Body
<1>4. Schema'
  BY SchemaStays DEF IInv, Lock, RenewMigrator, Connected, dbVars, callVars, Migrating, Body
<1>5. Calls'
  BY DEF IInv, TypeOK, Calls, StartTarget, StartDone, StepDone, Plain, RenewMigrator, Goto,
         Connected,
     dbVars, callVars, Migrating, Body
<1> QED BY <1>1, <1>2, <1>3, <1>4, <1>5 DEF IInv

LEMMA GetSchemaVersionKeeps ==
  ASSUME IInv, NEW c \in Call, GetSchemaVersion(c)
  PROVE  IInv'
<1>1. TypeOK'
  <2>1. pc' \in [Call -> {"idle"} \cup Active \cup Ended]
    BY DEF IInv, TypeOK, GetSchemaVersion, Panics, Finish, Goto, Active, Ended
  <2>2. goal' \in [Call -> {"read", "migrate"}] /\ disturbed' \subseteq Call
    BY DEF IInv, TypeOK, GetSchemaVersion, Looked, Finish
  <2> QED BY <2>1, <2>2 DEF IInv, TypeOK, GetSchemaVersion, dbVars, serverVars
<1>2. Handles'
  BY DEF IInv, TypeOK, Handles, Issued, StartAlone, HandlesOwned, OpenOwned, Replacing,
     GetSchemaVersion, Goto, Panics, Finish, Active, Migrating, Body, Ended
<1>3. Lock'
  BY LockStays DEF IInv, Handles, GetSchemaVersion, Panics, Finish, dbVars, Migrating, Body
<1>4. Schema'
  BY SchemaStays DEF IInv, Lock, GetSchemaVersion, Panics, Finish, dbVars, Migrating, Body
<1>5. Calls'
  <2>1. StartTarget'
    BY DEF IInv, TypeOK, Calls, StartTarget, GetSchemaVersion, Goto, Panics, Finish, Migrating,
       Body
  <2>2. StartDone'
    <3>1. version' = version /\ dirty' = dirty /\ proc' = proc
      BY DEF GetSchemaVersion, dbVars
    <3>2. ASSUME NEW d \in Call \ {c}
          PROVE  pc'[d] = pc[d] /\ (d \in disturbed' <=> d \in disturbed)
      BY DEF IInv, TypeOK, GetSchemaVersion, Looked, Goto, Panics, Finish
    <3>3. ASSUME pc'[c] = "ready", c \notin disturbed'
          PROVE  Reported(version) >= MinVersion[proc[c]] /\ ~dirty
      <4>1. ~dirty /\ ~NeedsMigration(c)
        BY <3>3 DEF IInv, TypeOK, GetSchemaVersion, Looked, Goto, Panics, Finish
      <4>2. Reported(version) \in Int /\ MinVersion[proc[c]] \in Int
        BY CallParts, SchemaAssumption DEF IInv, Handles, TypeOK, GetSchemaVersion, Reported,
           Version, NilVersion
      <4> QED BY <4>1, <4>2 DEF NeedsMigration
    <3> QED BY <3>1, <3>2, <3>3 DEF IInv, Calls, StartDone, Reported
  <2>3. StepDone'
    BY DEF IInv, TypeOK, Handles, Issued, Calls, StepDone, Plain, Steps,
       GetSchemaVersion, Looked, Goto, Panics, Finish, dbVars
  <2> QED BY <2>1, <2>2, <2>3 DEF Calls
<1> QED BY <1>1, <1>2, <1>3, <1>4, <1>5 DEF IInv

LEMMA StartServingKeeps ==
  ASSUME IInv, NEW c \in Call, StartServing(c)
  PROVE  IInv'
<1>1. TypeOK'
  BY DEF IInv, TypeOK, StartServing, Goto, dbVars, serverVars, callVars, Ended
<1>2. Handles'
  BY DEF IInv, TypeOK, Handles, Issued, StartAlone, HandlesOwned, OpenOwned, Replacing,
     StartServing, Goto, callVars, Active, Migrating, Body, Ended
<1>3. Lock'
  BY LockStays DEF IInv, Handles, StartServing, dbVars, callVars, Migrating, Body
<1>4. Schema'
  BY SchemaStays DEF IInv, Lock, StartServing, dbVars, callVars, Migrating, Body
<1>5. Calls'
  BY DEF IInv, TypeOK, Calls, StartTarget, StartDone, StepDone, Plain, StartServing, Goto,
     dbVars, callVars, Migrating, Body
<1> QED BY <1>1, <1>2, <1>3, <1>4, <1>5 DEF IInv

LEMMA NoChangeKeeps ==
  ASSUME IInv, NEW c \in Call, NoChange(c)
  PROVE  IInv'
<1>1. TypeOK'
  <2>1. pc' \in [Call -> {"idle"} \cup Active \cup Ended]
    BY DEF IInv, TypeOK, NoChange, Finish, Goto, Active, Ended
  <2>2. goal' \in [Call -> {"read", "migrate"}] /\ disturbed' \subseteq Call
    BY DEF IInv, TypeOK, NoChange, Finish
  <2> QED BY <2>1, <2>2 DEF IInv, TypeOK, NoChange, dbVars, serverVars
<1>2. Handles'
  BY DEF IInv, TypeOK, Handles, Issued, StartAlone, HandlesOwned, OpenOwned, Replacing,
     NoChange, Goto, Finish, Active, Migrating, Body, Ended
<1>3. Lock'
  BY LockStays DEF IInv, Handles, NoChange, Finish, dbVars, Migrating, Body
<1>4. Schema'
  BY SchemaStays DEF IInv, Lock, NoChange, Finish, dbVars, Migrating, Body
<1>5. Calls'
  <2>1. /\ Wanted(c) = MinVersion[proc[c]] /\ Wanted(c) = version /\ ~dirty
        /\ proc[c] \in Process
    BY StartWants, CallParts DEF IInv, Handles, NoChange, MayMigrate
  <2>2. version \in Nat
    <3>1. Last \in Nat /\ MinVersion \in [Process -> 0..Last] /\ proc[c] \in Process
      BY <2>1, SchemaAssumption
    <3>2. MinVersion[proc[c]] \in 0..Last
      BY <3>1
    <3> QED BY <2>1, <3>1, <3>2
  <2>3. Reported(version) >= MinVersion[proc[c]]
    BY <2>1, <2>2 DEF Reported, NilVersion
  <2> QED
    BY <2>1, <2>3 DEF IInv, TypeOK, Calls, StartTarget, StartDone, StepDone, Plain, Steps,
       Reported, NoChange, Goto, Finish, dbVars, Migrating, Body
<1> QED BY <1>1, <1>2, <1>3, <1>4, <1>5 DEF IInv

LEMMA MigrationFailsKeeps ==
  ASSUME IInv, NEW c \in Call, MigrationFails(c)
  PROVE  IInv'
<1>1. TypeOK'
  BY DEF IInv, TypeOK, MigrationFails, Goto, Panics, dbVars, serverVars, callVars, Ended
<1>2. Handles'
  BY DEF IInv, TypeOK, Handles, Issued, StartAlone, HandlesOwned, OpenOwned, Replacing,
     MigrationFails, Goto, Panics, callVars, Ended
<1>3. Lock'
  BY LockStays DEF IInv, Handles, MigrationFails, Panics, dbVars, callVars, Migrating, Body
<1>4. Schema'
  BY SchemaStays DEF IInv, Lock, MigrationFails, Panics, dbVars, callVars, Migrating, Body
<1>5. Calls'
  BY DEF IInv, TypeOK, Calls, StartTarget, StartDone, StepDone, Plain, MigrationFails, Goto, Panics,
     dbVars, callVars, Migrating, Body
<1> QED BY <1>1, <1>2, <1>3, <1>4, <1>5 DEF IInv

LEMMA BeginMigrationKeeps ==
  ASSUME IInv, NEW c \in Call, BeginMigration(c)
  PROVE  IInv'
<1>1. TypeOK'
  BY CallParts DEF IInv, Handles, TypeOK, BeginMigration, Goto, MayMigrate, Known, serverVars,
     Active, Migrating
<1>2. Handles'
  BY DEF IInv, Handles, Issued, StartAlone, HandlesOwned, OpenOwned, Replacing,
     BeginMigration, Goto, Active, Ended
<1>3. Lock'
  BY SchemaAssumption DEF IInv, TypeOK, Lock, UsingOwned, LockHeld, BeginMigration, Goto,
     Refused, Open, Migrator, Migrating
<1>4. Schema'
  BY DEF IInv, TypeOK, Schema, Progress, AppliedMatches, AfterBody, CleanMeansApplied,
     BeginMigration, Goto, MayMigrate, Body
<1>5. Calls'
  BY StartWants
     DEF IInv, TypeOK, Calls, StartTarget, StartDone, StepDone, Plain, BeginMigration, Goto
<1> QED BY <1>1, <1>2, <1>3, <1>4, <1>5 DEF IInv

LEMMA ForceSchemaToVersionKeeps ==
  ASSUME IInv, NEW c \in Call, ForceSchemaToVersion(c)
  PROVE  IInv'
<1>1. TypeOK'
  <2>1. pc' \in [Call -> {"idle"} \cup Active \cup Ended]
    BY DEF IInv, TypeOK, ForceSchemaToVersion, Finish, Goto, Active, Ended
  <2>2. goal' \in [Call -> {"read", "migrate"}]
    BY DEF IInv, TypeOK, ForceSchemaToVersion, Finish
  <2> QED BY <2>1, <2>2 DEF IInv, TypeOK, ForceSchemaToVersion, Disturbed, serverVars
<1>2. Handles'
  BY CallParts DEF IInv, TypeOK, Handles, Issued, StartAlone, HandlesOwned, OpenOwned,
     Replacing, Steps, ForceSchemaToVersion, Goto, Finish, Ended
<1>3. Lock'
  BY DEF IInv, TypeOK, Lock, UsingOwned, LockHeld, ForceSchemaToVersion, Goto, Finish,
     Migrating, Body
<1>4. Schema'
  BY SchemaAssumption DEF IInv, TypeOK, Schema, Progress, AppliedMatches, CleanMeansApplied,
     ForceSchemaToVersion, Goto, Finish
<1>5. Calls'
  BY DEF IInv, TypeOK, Calls, StartTarget, StartDone, StepDone, Plain, Steps, ForceSchemaToVersion,
     Goto, Finish, Disturbed, Ended
<1> QED BY <1>1, <1>2, <1>3, <1>4, <1>5 DEF IInv

LEMMA MarkDirtyKeeps ==
  ASSUME IInv, NEW c \in Call, MarkDirty(c)
  PROVE  IInv'
<1> DEFINE v == version
           w == NextVersion(c)
<1>0. /\ lock = c /\ pc[c] = "mark" /\ ~dirty /\ v \in Known /\ target[c] \in Known
      /\ target[c] # v /\ target[c] \in Int /\ v \in Int
  BY SchemaAssumption DEF IInv, TypeOK, Lock, LockHeld, Schema, Progress, MarkDirty, Open,
     Migrating, Known, Version, NilVersion
<1>a. /\ version' = w /\ marked' = [marked EXCEPT ![c] = w] /\ dirty' = (w # NilVersion)
      /\ pc' = [pc EXCEPT ![c] = IF target[c] > v THEN "up" ELSE "down"]
      /\ UNCHANGED <<applied, forced, lock, target>>
  BY DEF MarkDirty, Goto
<1>b. /\ w \in Known
      /\ target[c] > v => w = Above(v) /\ w # NilVersion
      /\ ~(target[c] > v) => w = Below(v) /\ v # NilVersion /\ Above(w) = v
  <2>1. CASE target[c] > v
    BY <1>0, <2>1, Neighbours DEF NextVersion
  <2>2. CASE ~(target[c] > v)
    BY <1>0, <2>2, Neighbours DEF NextVersion, NilVersion
  <2> QED BY <2>1, <2>2
<1>1. TypeOK'
  <2>1. w \in Version
    BY <1>b DEF Known
  <2>2. pc' \in [Call -> {"idle"} \cup Active \cup Ended]
    BY <1>a DEF IInv, TypeOK, Active, Migrating, Body
  <2> QED BY <2>1, <2>2 DEF IInv, TypeOK, MarkDirty, Disturbed, serverVars
<1>2. Handles'
  BY DEF IInv, Handles, Issued, StartAlone, HandlesOwned, OpenOwned, Replacing,
     MarkDirty, Goto, Active, Migrating, Body, Ended
<1>3. Lock'
  BY DEF IInv, Lock, UsingOwned, LockHeld, MarkDirty, Goto, Migrating, Body
<1>4. Schema'
  <2>1. pc \in [Call -> {"idle"} \cup Active \cup Ended] /\ marked \in [Call -> Version]
    BY DEF IInv, TypeOK
  <2>2. ~forced => IF v = NilVersion THEN applied \subseteq {1} ELSE applied = 1..v
    BY <1>0 DEF IInv, Schema, CleanMeansApplied
  <2>3. ~forced => AfterBody(c)' = 1..w
    <3>1. CASE target[c] > v
      <4>1. AfterBody(c)' = applied \cup {Above(v)}
        BY <1>a, <1>b, <2>1, <3>1 DEF AfterBody
      <4> QED BY <1>0, <1>b, <2>2, <3>1, <4>1, Upto
    <3>2. CASE ~(target[c] > v)
      <4>1. AfterBody(c)' = applied \ {v}
        BY <1>a, <1>b, <2>1, <3>2 DEF AfterBody
      <4> QED BY <1>0, <1>b, <2>2, <3>2, <4>1, Upto
    <3> QED BY <3>1, <3>2
  <2>4. Progress'
    BY <1>0, <1>a, <1>b, <2>1 DEF Progress, Body
  <2>5. AppliedMatches'
    BY <1>0, <1>a, <2>1, <2>3 DEF AppliedMatches
  <2>6. CleanMeansApplied'
    <3>1. w = NilVersion => v = 1
      BY <1>0, <1>b DEF Below, NilVersion, Known, Version
    <3>2. 1..1 = {1}
      OBVIOUS
    <3> QED BY <1>a, <1>b, <2>2, <3>1, <3>2 DEF CleanMeansApplied
  <2> QED BY <2>4, <2>5, <2>6 DEF Schema
<1>5. Calls'
  BY DEF IInv, Calls, StartTarget, StartDone, StepDone, Plain, MarkDirty, Goto, Disturbed, Active,
     Migrating, Body
<1> QED BY <1>1, <1>2, <1>3, <1>4, <1>5 DEF IInv

LEMMA RunBodyKeeps ==
  ASSUME IInv, NEW c \in Call, RunBody(c)
  PROVE  IInv'
<1>1. TypeOK'
  <2>1. applied' \in SUBSET (1..Last)
    BY AfterBodyType DEF IInv, Lock, LockHeld, Schema, RunBody, Open, Migrating
  <2>2. pc' \in [Call -> {"idle"} \cup Active \cup Ended]
    BY DEF IInv, TypeOK, RunBody, Goto, Active, Migrating
  <2> QED BY <2>1, <2>2 DEF IInv, TypeOK, RunBody, serverVars, callVars
<1>2. Handles'
  BY DEF IInv, Handles, Issued, StartAlone, HandlesOwned, OpenOwned, Replacing,
     RunBody, Goto, callVars, Active, Migrating, Body, Ended
<1>3. Lock'
  BY DEF IInv, Lock, UsingOwned, LockHeld, RunBody, Goto, callVars, Migrating
<1>4. Schema'
  <2>1. /\ lock = c /\ pc[c] \in Body /\ version = marked[c] /\ version \in Version
        /\ version \in Known /\ applied' = AfterBody(c)
        /\ UNCHANGED <<version, dirty, forced, lock, target>>
    BY DEF IInv, TypeOK, Lock, LockHeld, Schema, Progress, RunBody, Open, Migrating, callVars
  <2>2. ~forced => applied' = 1..version
    BY <2>1 DEF IInv, Schema, AppliedMatches
  <2>3. pc'[c] = "clean" /\ \A d \in Call \ {c} : pc'[d] = pc[d]
    BY DEF IInv, TypeOK, RunBody, Goto
  <2>4. AppliedMatches'
    BY <2>1, <2>2, <2>3 DEF AppliedMatches, Body
  <2>5. Progress'
    BY <2>1, <2>3 DEF IInv, Schema, Progress, Migrating, Body
  <2>6. CleanMeansApplied'
    BY <2>1, <2>2, Upto DEF CleanMeansApplied
  <2> QED BY <2>4, <2>5, <2>6 DEF Schema
<1>5. Calls'
  BY DEF IInv, Calls, StartTarget, StartDone, StepDone, Plain, RunBody, Goto, callVars, Migrating
<1> QED BY <1>1, <1>2, <1>3, <1>4, <1>5 DEF IInv

LEMMA MarkCleanKeeps ==
  ASSUME IInv, NEW c \in Call, MarkClean(c)
  PROVE  IInv'
<1>1. TypeOK'
  <2>1. pc' \in [Call -> {"idle"} \cup Active \cup Ended]
    BY DEF IInv, TypeOK, MarkClean, Finish, Goto, Active, Migrating, Ended
  <2>2. goal' \in [Call -> {"read", "migrate"}]
    BY DEF IInv, TypeOK, MarkClean, Finish
  <2>3. lock' \in Call \cup {NULL} /\ using' \in [Call -> Handle \cup {NULL}]
    BY DEF IInv, TypeOK, MarkClean
  <2> QED BY <2>1, <2>2, <2>3 DEF IInv, TypeOK, MarkClean, serverVars
<1>2. Handles'
  BY DEF IInv, TypeOK, Handles, Issued, StartAlone, HandlesOwned, OpenOwned, Replacing,
     MarkClean, Goto, Finish, Active, Migrating, Body, Ended
<1>3. Lock'
  BY SchemaAssumption DEF IInv, TypeOK, Lock, UsingOwned, LockHeld, MarkClean, Goto, Open,
     Finish, Migrating, Body
<1>4. Schema'
  <2>1. /\ lock = c /\ pc[c] = "clean" /\ version \in Known /\ target[c] \in Known
        /\ ~forced => applied = 1..version
        /\ ~dirty' /\ UNCHANGED <<version, applied, forced, target, marked>>
    BY DEF IInv, Lock, LockHeld, Schema, Progress, AppliedMatches, MarkClean, Open, Migrating
  <2>2. CleanMeansApplied'
    BY <2>1, Upto DEF CleanMeansApplied
  <2>3. CASE version = target[c]
    BY <2>2, <2>3, SchemaAssumption DEF Schema, Progress, AppliedMatches, MarkClean
  <2>4. CASE version # target[c]
    <3>1. lock' = c /\ pc'[c] = "mark"
      BY <2>1, <2>4 DEF IInv, TypeOK, MarkClean, Goto
    <3> QED BY <2>1, <2>2, <2>4, <3>1 DEF Schema, Progress, AppliedMatches, Body
  <2> QED BY <2>3, <2>4
<1>5. Calls'
  <2>1. /\ pc[c] = "clean" /\ ~dirty' /\ UNCHANGED <<version, proc, kind, target, disturbed>>
        /\ \A d \in Call \ {c} : pc'[d] = pc[d] /\ goal'[d] = goal[d]
    BY DEF IInv, TypeOK, MarkClean, Goto, Finish
  <2>2. StartTarget'
    BY DEF IInv, TypeOK, Calls, StartTarget, MarkClean, Goto, Finish, Migrating, Body
  <2>3. StartDone'
    <3>1. ASSUME pc'[c] = "ready"
          PROVE  Reported(version) >= MinVersion[proc[c]]
      <4>1. version = target[c] /\ kind[c] = "start"
        BY <3>1 DEF IInv, TypeOK, MarkClean, Goto, Finish
      <4>2. version = MinVersion[proc[c]] /\ proc[c] \in Process
        BY <2>1, <4>1, CallParts DEF IInv, Handles, Calls, StartTarget, Migrating
      <4> QED BY <4>2, SchemaAssumption DEF Reported, NilVersion
    <3> QED BY <2>1, <3>1 DEF IInv, Calls, StartDone, Reported
  <2>4. StepDone'
    BY DEF IInv, TypeOK, Calls, StepDone, Plain, MarkClean, Goto, Finish
  <2> QED BY <2>2, <2>3, <2>4 DEF Calls
<1> QED BY <1>1, <1>2, <1>3, <1>4, <1>5 DEF IInv

LEMMA BodyFailsKeeps ==
  ASSUME IInv, NEW c \in Call, BodyFails(c)
  PROVE  IInv'
<1>0. lock = c /\ using[c] # NULL /\ migrator[proc[c]] = using[c] /\ pc[c] \in Body
  BY DEF IInv, Lock, LockHeld, UsingOwned, BodyFails, Open, Migrating
<1>1. TypeOK'
  <2>1. pc' \in [Call -> {"idle"} \cup Active \cup Ended]
    BY DEF IInv, TypeOK, BodyFails, Goto, Ended
  <2> QED BY <2>1 DEF IInv, TypeOK, BodyFails, serverVars
<1>2. Handles'
  <2>1. /\ \A h \in Handle : /\ conn'[h] \in {conn[h], "broken"}
                             /\ conn'[h] # conn[h] => conn[h] = "open"
        /\ pc'[c] = "failed" /\ \A d \in Call \ {c} : pc'[d] = pc[d]
        /\ UNCHANGED <<proc, kind, goal, serving, migrator>>
    BY <1>0 DEF IInv, TypeOK, BodyFails, Open, Goto
  <2>2. Issued' /\ StartAlone'
    BY <1>0, <2>1 DEF IInv, Handles, Issued, StartAlone, Active, Migrating, Body, Ended
  <2>3. HandlesOwned' /\ OpenOwned' /\ Replacing'
    BY <2>1 DEF IInv, TypeOK, Handles, Issued, HandlesOwned, OpenOwned, Replacing
  <2> QED BY <2>2, <2>3 DEF Handles
<1>3. Lock'
  BY <1>0, SchemaAssumption DEF IInv, TypeOK, Lock, UsingOwned, LockHeld, BodyFails, Goto,
     Migrating, Body
<1>4. Schema'
  BY <1>0, SchemaAssumption DEF IInv, TypeOK, Schema, Progress, AppliedMatches,
     CleanMeansApplied, BodyFails, Goto, Migrating, Body
<1>5. Calls'
  BY DEF IInv, Calls, StartTarget, StartDone, StepDone, Plain, BodyFails, Goto, Migrating, Body
<1> QED BY <1>1, <1>2, <1>3, <1>4, <1>5 DEF IInv

LEMMA MigrationBreaksKeeps ==
  ASSUME IInv, NEW c \in Call, MigrationBreaks(c)
  PROVE  IInv'
<1>0. lock # c
  BY DEF IInv, Lock, LockHeld, UsingOwned, MigrationBreaks, Open
<1>1. TypeOK'
  <2>1. pc' \in [Call -> {"idle"} \cup Active \cup Ended]
    BY DEF IInv, TypeOK, MigrationBreaks, Goto, Ended
  <2> QED BY <2>1 DEF IInv, TypeOK, MigrationBreaks, dbVars, serverVars
<1>2. Handles'
  BY DEF IInv, TypeOK, Handles, Issued, StartAlone, HandlesOwned, OpenOwned, Replacing,
     MigrationBreaks, Goto, dbVars, Migrating, Body, Ended
<1>3. Lock'
  BY <1>0, SchemaAssumption DEF IInv, TypeOK, Lock, UsingOwned, LockHeld, MigrationBreaks,
     Goto, dbVars, Migrating, Body
<1>4. Schema'
  BY <1>0 DEF IInv, TypeOK, Schema, Progress, AppliedMatches, AfterBody, CleanMeansApplied,
     MigrationBreaks, Goto, dbVars, Migrating, Body
<1>5. Calls'
  BY DEF IInv, Calls, StartTarget, StartDone, StepDone, Plain, MigrationBreaks, Goto, dbVars,
     Migrating, Body
<1> QED BY <1>1, <1>2, <1>3, <1>4, <1>5 DEF IInv

LEMMA OutageKeeps ==
  ASSUME IInv, Outage
  PROVE  IInv'
<1>0. applied' \in SUBSET (1..Last) /\ CleanMeansApplied'
  BY InterruptedLeaves DEF IInv, Outage
<1>1. TypeOK'
  <2>1. outages' \in 0..MaxOutages
    BY SchemaAssumption DEF IInv, TypeOK, Outage
  <2> QED BY <1>0, <2>1 DEF IInv, TypeOK, Outage, callVars
<1>2. Handles'
  BY DEF IInv, TypeOK, Handles, Issued, StartAlone, HandlesOwned, OpenOwned, Replacing,
     Outage, callVars
<1>3. Lock'
  BY SchemaAssumption DEF IInv, TypeOK, Lock, UsingOwned, LockHeld, Outage, callVars
<1>4. Schema'
  BY <1>0, SchemaAssumption DEF Schema, Progress, AppliedMatches, Outage
<1>5. Calls'
  BY DEF IInv, Calls, StartTarget, StartDone, StepDone, Outage, callVars
<1> QED BY <1>1, <1>2, <1>3, <1>4, <1>5 DEF IInv

LEMMA RecoveryKeeps ==
  ASSUME IInv, Recovery
  PROVE  IInv'
<1>1. TypeOK'
  BY DEF IInv, TypeOK, Recovery, dbVars, callVars
<1>2. Handles'
  BY DEF IInv, Handles, Issued, StartAlone, HandlesOwned, OpenOwned, Replacing,
     Recovery, callVars
<1>3. Lock'
  BY DEF IInv, Lock, UsingOwned, LockHeld, Recovery, dbVars, callVars
<1>4. Schema'
  BY DEF IInv, Schema, Progress, AppliedMatches, AfterBody, CleanMeansApplied, Recovery, dbVars,
     callVars
<1>5. Calls'
  BY DEF IInv, Calls, StartTarget, StartDone, StepDone, Recovery, dbVars, callVars
<1> QED BY <1>1, <1>2, <1>3, <1>4, <1>5 DEF IInv

LEMMA ExitKeeps ==
  ASSUME IInv, NEW p \in Process, Exit(p)
  PROVE  IInv'
<1> DEFINE Own == {c \in Call : proc[c] = p}
<1>0. applied' \in SUBSET (1..Last) /\ CleanMeansApplied'
  BY InterruptedLeaves DEF IInv, Exit
<1>1. TypeOK'
  <2>1. pc' \in [Call -> {"idle"} \cup Active \cup Ended]
    BY DEF IInv, TypeOK, Exit, Ended
  <2> QED BY <1>0, <2>1 DEF IInv, TypeOK, Exit, serverVars
<1>2. Handles'
  BY DEF IInv, TypeOK, Handles, Issued, StartAlone, HandlesOwned, OpenOwned, Replacing,
     Exit, Active, Migrating, Body
<1>3. Lock'
  BY SchemaAssumption DEF IInv, TypeOK, Handles, Issued, HandlesOwned, Lock, UsingOwned,
     LockHeld, Exit, Active, Migrating, Body
<1>4. Schema'
  <2>1. CASE lock \in Own
    BY <1>0, <2>1, SchemaAssumption DEF Schema, Progress, AppliedMatches, Exit
  <2>2. CASE lock \notin Own
    <3>1. applied' = applied /\ lock' = lock
      BY <2>2 DEF Exit, Interrupted
    <3>2. lock \in Call => pc'[lock] = pc[lock]
      BY <2>2 DEF Exit
    <3>3. UNCHANGED <<version, dirty, forced, target, marked>>
      BY DEF Exit
    <3> QED BY <1>0, <3>1, <3>2, <3>3 DEF IInv, Schema, Progress, AppliedMatches, AfterBody
  <2> QED BY <2>1, <2>2
<1>5. Calls'
  BY DEF IInv, Calls, StartTarget, StartDone, StepDone, Plain, Exit, Migrating, Body
<1> QED BY <1>1, <1>2, <1>3, <1>4, <1>5 DEF IInv

-----------------------------------------------------------------------------
(***************************************************************************)
(* The theorems.                                                           *)
(***************************************************************************)
LEMMA InitIInv == Init => IInv
<1> SUFFICES ASSUME Init PROVE IInv
  OBVIOUS
<1>1. TypeOK
  <2>1. /\ version \in Version /\ outages \in 0..MaxOutages /\ applied \in SUBSET (1..Last)
        /\ target \in [Call -> Version] /\ marked \in [Call -> Version]
    BY SchemaAssumption DEF Init, Version
  <2> QED BY <2>1 DEF Init, TypeOK
<1>2. Handles
  BY DEF Init, Handles, Issued, StartAlone, HandlesOwned, OpenOwned, Replacing,
     Migrating, Body, Active
<1>3. Lock
  BY SchemaAssumption DEF Init, Lock, UsingOwned, LockHeld, Migrating, Body
<1>4. Schema
  BY SchemaAssumption DEF Init, Schema, Progress, AppliedMatches, CleanMeansApplied, Body
<1>5. Calls
  BY DEF Init, Calls, StartTarget, StartDone, StepDone, Migrating, Body
<1> QED BY <1>1, <1>2, <1>3, <1>4, <1>5 DEF IInv

\* No action, and no step that changes nothing, breaks the invariant.
LEMMA NextIInv == IInv /\ [Next]_vars => IInv'
<1> SUFFICES ASSUME IInv, [Next]_vars PROVE IInv'
  OBVIOUS
<1>1. ASSUME NEW c \in Call, Step(c) PROVE IInv'
  BY <1>1, IssueKeeps, NewSchemaManagerKeeps, EnsureConnectedKeeps, CloseMigratorKeeps,
     RenewMigratorKeeps, GetSchemaVersionKeeps, BeginMigrationKeeps, NoChangeKeeps,
     MigrationFailsKeeps, ForceSchemaToVersionKeeps, MarkDirtyKeeps, RunBodyKeeps,
     MarkCleanKeeps, BodyFailsKeeps, MigrationBreaksKeeps, StartServingKeeps DEF Step
<1>2. ASSUME NEW p \in Process, Exit(p) PROVE IInv'
  BY <1>2, ExitKeeps
<1>3. CASE UNCHANGED vars
  <2>1. TypeOK' /\ Handles'
    BY <1>3 DEF IInv, TypeOK, Handles, Issued, StartAlone, HandlesOwned, OpenOwned,
       Replacing, vars, dbVars, serverVars, callVars
  <2>2. Lock' /\ Schema'
    BY <1>3 DEF IInv, Lock, UsingOwned, LockHeld, Schema, Progress, AppliedMatches, AfterBody,
       CleanMeansApplied, vars, dbVars, callVars
  <2>3. Calls'
    BY <1>3 DEF IInv, Calls, StartTarget, StartDone, StepDone, vars, dbVars, callVars
  <2> QED BY <2>1, <2>2, <2>3 DEF IInv
<1> QED BY <1>1, <1>2, <1>3, OutageKeeps, RecoveryKeeps DEF Next

\* The inductive invariant holds however calls, migrations, outages and exits of
\* processes are interleaved.
THEOREM IInvCorrect == Spec => []IInv
<1> QED BY InitIInv, NextIInv, PTL DEF Spec

\* Every reachable state has the types declared.
THEOREM TypeCorrect == Spec => []TypeOK
<1>1. IInv => TypeOK
  BY DEF IInv
<1> QED BY <1>1, IInvCorrect, PTL

\* A schema with a version that is not dirty, and was never forced, has the
\* migrations its version says, for any number of processes, requests and outages;
\* one without a version has at most the first.
THEOREM CleanIsApplied == Spec => []CleanMeansApplied
<1>1. IInv => CleanMeansApplied
  BY DEF IInv, Schema
<1> QED BY <1>1, IInvCorrect, PTL

\* Replacing a handle leaks no connection, and no lock.
THEOREM NoHandleLeaks == Spec => []NoLeakedHandle
<1>1. ASSUME IInv PROVE NoLeakedHandle
  <2>1. lock # NULL => lock \in Call /\ proc[lock] \in Process
    BY <1>1 DEF IInv, TypeOK, Handles, Issued, Lock, LockHeld
  <2> QED BY <1>1, <2>1 DEF IInv, Handles, OpenOwned, Lock, LockHeld, NoLeakedHandle
<1> QED BY <1>1, IInvCorrect, PTL

\* A start-up that goes on to serve finds the schema at its minimum, unless it was
\* dirty when it looked or another call has set the version since, however the calls
\* of several start-ups and requests are interleaved.
THEOREM ServesOnMinimum == Spec => StartsOnMinimum
<1> DEFINE Starts == \A c \in Call : pc[c] = "ready" /\ pc'[c] = "done" /\ c \notin disturbed =>
                       Reported(version) >= MinVersion[proc[c]] /\ ~dirty
<1>1. ASSUME IInv PROVE Starts
  BY <1>1 DEF IInv, Calls, StartDone
<1> QED BY <1>1, IInvCorrect, PTL DEF StartsOnMinimum

\* The version that a step returns is the one it has gone to, on a schema that is
\* not dirty, unless another call has set the version meanwhile.
THEOREM StepVersionIsItsOwn == Spec => StepReturnsItsVersion
<1> DEFINE Returns == \A c \in Call :
                        StepReturns(c) /\ c \notin disturbed => version = target[c] /\ ~dirty
<1>1. ASSUME IInv PROVE Returns
  BY <1>1 DEF IInv, Handles, Issued, Calls, StepDone, StepReturns, Plain
<1> QED BY <1>1, IInvCorrect, PTL DEF StepReturnsItsVersion
=============================================================================
