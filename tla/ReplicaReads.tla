---------------------------- MODULE ReplicaReads ----------------------------
(***************************************************************************)
(* Server processes (main.go) between the delivery of events and the       *)
(* lookups, when there is a replica of the database.                       *)
(*                                                                         *)
(* Changes are stored on the primary; the replica replays them, in their   *)
(* order, some time later.  A process decides at its start where its       *)
(* lookups go: to the replica, or to the primary when the replica cannot   *)
(* be reached then.  It keeps to that as long as it runs.                  *)
(***************************************************************************)
EXTENDS EventDelivery, Sequences

CONSTANTS
  Process,     \* server processes
  MaxLag,      \* bound: the changes that the replica is behind
  MaxOutages   \* bound: how often the replica goes away

ASSUME ReplicaAssumption == MaxLag \in Nat /\ MaxOutages \in Nat

VARIABLES
  pending,     \* the events stored on the primary and not yet replayed, in order
  copy,        \* the rows on the replica
  known,       \* known[s]: the events of s that the replica has
  reknown,     \* reknown[s]: how many of them it has once more
  reachable,   \* the replica accepts connections
  outages,     \* how often it went away
  lookups,     \* lookups[p]: replicaStorage, where the lookups of p go; NULL before
               \* the start
  accepted,    \* history: how many events have been stored
  shown        \* history, shown[p]: how many of them the last lookup of p has met

primaryVars == <<rows, happened, delivered, resent>>
replicaVars == <<copy, known, reknown>>
processVars == <<lookups, shown>>
readVars == <<primaryVars, pending, accepted, replicaVars, reachable, outages, processVars>>

ReadsTypeOK ==
  /\ pending \in Seq(Subject \X Event) /\ Len(pending) <= MaxLag
  /\ \A row \in copy : row \in Row
  /\ known \in [Subject -> SUBSET Event]
  /\ reknown \in [Subject -> 0..MaxResends]
  /\ reachable \in BOOLEAN /\ outages \in 0..MaxOutages
  /\ lookups \in [Process -> {"primary", "replica", NULL}]
  /\ accepted \in Nat /\ shown \in [Process -> Nat]

ReadInit ==
  /\ Init
  /\ pending = <<>> /\ accepted = 0
  /\ copy = {}
  /\ known = [s \in Subject |-> {}]
  /\ reknown = [s \in Subject |-> 0]
  /\ reachable = TRUE /\ outages = 0
  /\ lookups = [p \in Process |-> NULL]
  /\ shown = [p \in Process |-> 0]

Serving(p) == lookups[p] # NULL

-----------------------------------------------------------------------------
HappenOutside ==
  /\ \E s \in Subject : Happen(s)
  /\ UNCHANGED <<pending, accepted, replicaVars, reachable, outages, processVars>>

\* Mutant: the insert handler gets the storage of the lookups.
InsertWhereItLooksUp(p, s, i) ==
  /\ Serving(p)
  /\ accepted' = accepted + 1
  /\ IF lookups[p] = "replica"
     THEN /\ i <= happened[s] /\ i \notin delivered[s]
          /\ delivered' = [delivered EXCEPT ![s] = @ \cup {i}]
          /\ copy' = Apply(copy, EventOp(s, i), EventTime(i))
          /\ UNCHANGED <<rows, happened, resent, pending>>
     ELSE /\ Len(pending) < MaxLag
          /\ Deliver(s, i) \/ Resend(s, i)
          /\ pending' = Append(pending, <<s, i>>)
          /\ UNCHANGED copy
  /\ UNCHANGED <<known, reknown, reachable, outages, processVars>>

\* A request to any process is stored on the primary.
Insert(p, s, i) ==
  /\ Serving(p) /\ Len(pending) < MaxLag
  /\ Deliver(s, i) \/ Resend(s, i)
  /\ accepted' = accepted + 1
  /\ pending' = Append(pending, <<s, i>>)
  /\ UNCHANGED <<replicaVars, reachable, outages, processVars>>

Replay ==
  /\ reachable /\ pending # <<>>
  /\ LET s == Head(pending)[1]
         i == Head(pending)[2]
     IN /\ copy' = Apply(copy, EventOp(s, i), EventTime(i))
        /\ IF i \in known[s]
           THEN reknown' = [reknown EXCEPT ![s] = @ + 1] /\ UNCHANGED known
           ELSE known' = [known EXCEPT ![s] = @ \cup {i}] /\ UNCHANGED reknown
  /\ pending' = Tail(pending)
  /\ UNCHANGED <<primaryVars, accepted, reachable, outages, processVars>>

ReplicaGoes ==
  /\ reachable /\ outages < MaxOutages
  /\ reachable' = FALSE
  /\ outages' = outages + 1
  /\ UNCHANGED <<primaryVars, pending, accepted, replicaVars, processVars>>

ReplicaReturns ==
  /\ ~reachable
  /\ reachable' = TRUE
  /\ UNCHANGED <<primaryVars, pending, accepted, replicaVars, outages, processVars>>

-----------------------------------------------------------------------------
\* Mutant: the error of the replica's connection is dropped.
ReplicaStorageNil == IF reachable THEN {"replica"} ELSE {"none"}

\* PostgresConfig.New for the replica, which pings it, and the fall back.  A ping may
\* fail on the way too, and does when no replica is configured.
ReplicaStorage == {"primary"} \cup IF reachable THEN {"replica"} ELSE {}

\* The start-up has reached the primary; it fails without.
Start(p) ==
  /\ ~Serving(p)
  /\ \E storage \in ReplicaStorage : lookups' = [lookups EXCEPT ![p] = storage]
  /\ shown' = [shown EXCEPT ![p] = 0]
  /\ UNCHANGED <<primaryVars, pending, accepted, replicaVars, reachable, outages>>

Stop(p) ==
  /\ Serving(p)
  /\ lookups' = [lookups EXCEPT ![p] = NULL]
  /\ UNCHANGED <<primaryVars, pending, accepted, replicaVars, reachable, outages, shown>>

\* Lookups of p get answers now.
Answers(p) == lookups[p] \in {"primary"} \cup IF reachable THEN {"replica"} ELSE {}

\* Mutant: a lookup that finds no replica goes to the primary.
LookupFallsBack(p) ==
  /\ Serving(p)
  /\ shown' = [shown EXCEPT ![p] =
                 IF lookups[p] = "replica" /\ reachable THEN accepted - Len(pending)
                                                        ELSE accepted]
  /\ UNCHANGED <<primaryVars, pending, accepted, replicaVars, reachable, outages, lookups>>

\* A lookup meets the events that its storage has; or it fails, and changes nothing.
Lookup(p) ==
  /\ Answers(p)
  /\ shown' = [shown EXCEPT ![p] =
                 IF lookups[p] = "replica" THEN accepted - Len(pending) ELSE accepted]
  /\ UNCHANGED <<primaryVars, pending, accepted, replicaVars, reachable, outages, lookups>>

ReadNext ==
  \/ HappenOutside
  \/ \E p \in Process :
       \/ \E s \in Subject, i \in Event : Insert(p, s, i)
       \/ Start(p) \/ Stop(p) \/ Lookup(p)
  \/ Replay \/ ReplicaGoes \/ ReplicaReturns

ReadSpec == ReadInit /\ [][ReadNext]_readVars

\* The replica returns, and replays what it has not yet.
FairReadSpec ==
  ReadSpec /\ WF_readVars(Replay) /\ WF_readVars(ReplicaReturns)

-----------------------------------------------------------------------------
(***************************************************************************)
(* Properties.                                                             *)
(***************************************************************************)
\* The lookups of a process never go back behind what an earlier one has met, also
\* when the replica goes away and returns behind the primary.
LookupsNeverGoBack ==
  [][\A p \in Process :
       Serving(p) /\ lookups'[p] # NULL => shown'[p] >= shown[p]]_readVars

\* What the replica shows is late, and nothing else: its rows too come from a delivery
\* of events, in an order and with repetitions that the primary may have seen.
Replica == INSTANCE EventDelivery
             WITH rows <- copy, delivered <- known, resent <- reknown
ReplicaOnlyLags == Replica!Spec

\* The rows that a lookup of p reads.
Seen(p) == IF lookups[p] = "primary" THEN rows ELSE copy

\* Lookups of p find a subject exactly when it was assigned.
Exact(p) ==
  \A s \in Subject, n \in 0..(2 * Cycles) : Settled(s, n) =>
    \A ts \in Instant \ {EventTime(i) : i \in Event} :
      (\E row \in Seen(p) : row.subject = s /\ ActiveAt(row, ts)) <=> Assigned(s, n, ts)

\* "intermittent lookup failures" (cloudchanges_test.go:59) are lag: what a process
\* shows that goes on serving becomes exact in the end, with or without a replica.
LookupsBecomeExact ==
  \A p \in Process : <>[]Serving(p) => <>[](Answers(p) /\ Exact(p))
=============================================================================
