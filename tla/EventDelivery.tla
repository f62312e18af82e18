--------------------------- MODULE EventDelivery ---------------------------
(***************************************************************************)
(* The events of AWS Config on their way to DB.Store.                      *)
(*                                                                         *)
(* Every subject is assigned and released in turn: event 1, 3, 5.. of a    *)
(* subject is ADDED, event 2, 4, 6.. is DELETED, each later than the one   *)
(* before.  An event is one POST /v1/cloud/change with one operation, and  *)
(* the requests are run one after the other (StoreTx has them run at the   *)
(* same time).  They may arrive out of order, and a client that lost an    *)
(* answer may send an event again; how far that goes is a parameter.       *)
(***************************************************************************)
EXTENDS AssignmentRows

CONSTANTS
  Cycles,        \* bound: how often a subject is assigned and released
  MaxResends,    \* bound: the events of a subject that are sent again
  AcrossCycles,  \* any event may overtake any other of its subject; otherwise
                 \* only a release may overtake the assignment that it ends
  LateResends    \* any delivered event may be sent again; otherwise only an
                 \* assignment, and only before its release is delivered

ASSUME DeliveryAssumption ==
  /\ Cycles \in Nat /\ MaxResends \in Nat
  /\ AcrossCycles \in BOOLEAN /\ LateResends \in BOOLEAN
  /\ NULL \notin Nat

VARIABLES
  rows,       \* the rows of the assignment tables
  happened,   \* happened[s]: how many events of s have happened
  delivered,  \* delivered[s]: those that have been stored
  resent      \* resent[s]: how many were sent again

vars == <<rows, happened, delivered, resent>>

Event == 1..(2 * Cycles)
IsRelease(i) == i % 2 = 0
EventTime(i) == 2 * i         \* leaves an instant between two events
Instant == 1..(EventTime(2 * Cycles) + 1)

EventOp(s, i) ==
  [kind |-> IF IsRelease(i) THEN "DELETED" ELSE "ADDED", subject |-> s]

TypeOK ==
  /\ \A row \in rows : row \in Row
  /\ happened \in [Subject -> 0..(2 * Cycles)]
  /\ delivered \in [Subject -> SUBSET Event]
  /\ resent \in [Subject -> 0..MaxResends]

Init ==
  /\ rows = {}
  /\ happened = [s \in Subject |-> 0]
  /\ delivered = [s \in Subject |-> {}]
  /\ resent = [s \in Subject |-> 0]

-----------------------------------------------------------------------------
MayOvertake(i, j) == AcrossCycles \/ (IsRelease(i) /\ j = i - 1)

MayResend(s, i) == LateResends \/ (~IsRelease(i) /\ i + 1 \notin delivered[s])

Happen(s) ==
  /\ happened[s] < 2 * Cycles
  /\ happened' = [happened EXCEPT ![s] = @ + 1]
  /\ UNCHANGED <<rows, delivered, resent>>

\* Store of a request that holds the event alone.
Store(s, i) == rows' = Apply(rows, EventOp(s, i), EventTime(i))

Deliver(s, i) ==
  /\ i <= happened[s] /\ i \notin delivered[s]
  /\ \A j \in 1..(i - 1) : j \in delivered[s] \/ MayOvertake(i, j)
  /\ Store(s, i)
  /\ delivered' = [delivered EXCEPT ![s] = @ \cup {i}]
  /\ UNCHANGED <<happened, resent>>

Resend(s, i) ==
  /\ i \in delivered[s]
  /\ MayResend(s, i)
  /\ resent[s] < MaxResends
  /\ Store(s, i)
  /\ resent' = [resent EXCEPT ![s] = @ + 1]
  /\ UNCHANGED <<happened, delivered>>

Next ==
  \E s \in Subject :
    \/ Happen(s)
    \/ \E i \in Event : Deliver(s, i) \/ Resend(s, i)

Spec == Init /\ [][Next]_vars

-----------------------------------------------------------------------------
(***************************************************************************)
(* Properties.                                                             *)
(***************************************************************************)
RowsOf(s) == {row \in rows : row.subject = s}

\* The events of s up to n have been delivered, and no others.
Settled(s, n) == delivered[s] = 1..n

\* s is assigned at ts, by its first n events.
Assigned(s, n, ts) ==
  \E i \in 1..n :
    /\ ~IsRelease(i)
    /\ EventTime(i) < ts
    /\ i < n => ts < EventTime(i + 1)

\* Once the events up to some point are in, a lookup at any instant finds the
\* subject exactly when it was assigned: the order of a release and its
\* assignment, and a repeated assignment, leave no trace.
LookupExact ==
  \A s \in Subject, n \in 0..(2 * Cycles) : Settled(s, n) =>
    \A ts \in Instant \ {EventTime(i) : i \in Event} :
      (\E row \in RowsOf(s) : ActiveAt(row, ts)) <=> Assigned(s, n, ts)

\* An epoch row stands exactly for a release whose assignment has not been
\* delivered: "this way we can find unbalanced events" (db.go:567).
EpochMeansUnbalanced ==
  \A s \in Subject, i \in Event : IsRelease(i) =>
    ((\E row \in RowsOf(s) : row.not_before = EPOCH /\ row.not_after = EventTime(i))
      <=> (i \in delivered[s] /\ i - 1 \notin delivered[s]))

\* An assignment and its release are never kept as two halves: a release finds
\* the open row, and an assignment finds the epoch row.
NoHalves == \A open, end \in rows : ~Halves(open, end)
=============================================================================
