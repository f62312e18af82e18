------------------------ MODULE EventDeliveryProofs ------------------------
(***************************************************************************)
(* Proofs about EventDelivery, for any number of subjects and events, and  *)
(* for every order and repetition that the parameters allow.               *)
(***************************************************************************)
EXTENDS EventDelivery, TLAPS

NoHalvesIn(rs) == \A open, end \in rs : ~Halves(open, end)

LEMMA ApplyType ==
  ASSUME NEW rs, rs \subseteq Row, NEW op \in Op, NEW when \in Time, NULL \notin Nat
  PROVE  Apply(rs, op, when) \subseteq Row
<1>1. NewRow(op, when) \in Row
  BY DEF NewRow, EPOCH, Row, Op, Time
<1>2. ASSUME NEW row \in Row PROVE Updated(row, op, when) \in Row
  <2>1. CASE op.kind = "ADDED"
    BY <2>1 DEF Updated, Row, Time
  <2>2. CASE op.kind # "ADDED"
    BY <2>2 DEF Updated, Row, Time
  <2> QED BY <2>1, <2>2
<1> QED BY <1>1, <1>2 DEF Apply

\* An operation run alone never splits an assignment in two halves: an ADDED
\* takes over every epoch row it could be a half of before it would insert an
\* open one, a DELETED closes every open row before it would insert an epoch
\* row.
LEMMA ApplyKeepsWhole ==
  ASSUME NEW rs, rs \subseteq Row, NEW op \in Op, NEW when \in Time, NULL \notin Nat,
         NoHalvesIn(rs)
  PROVE  NoHalvesIn(Apply(rs, op, when))
<1> DEFINE targets == {row \in rs : IsTarget(row, op, when)}
           new == NewRow(op, when)
<1>1. CASE targets # {}
  <2>1. Apply(rs, op, when) = (rs \ targets) \cup {Updated(row, op, when) : row \in targets}
    BY <1>1 DEF Apply
  <2> SUFFICES ASSUME NEW open \in Apply(rs, op, when), NEW end \in Apply(rs, op, when),
                      Halves(open, end)
               PROVE  FALSE
    BY DEF NoHalvesIn
  <2>2. CASE op.kind = "ADDED"
    <3>1. \A row \in targets : LET changed == Updated(row, op, when) IN
            /\ changed.not_before # EPOCH
            /\ changed.not_after # NULL
      BY <2>2 DEF IsTarget, AssignTarget, Updated, Row, Time
    <3>2. open \in rs /\ end \in rs
      BY <2>1, <3>1 DEF Halves
    <3> QED BY <3>2 DEF NoHalvesIn
  <2>3. CASE op.kind # "ADDED"
    <3>1. \A row \in targets : LET changed == Updated(row, op, when) IN
            /\ changed.not_after # NULL
            /\ changed.subject = op.subject
      BY <2>3 DEF IsTarget, ReleaseTarget, Updated, Row, Time
    <3>2. open \in rs /\ open \notin targets /\ open.subject # op.subject
      BY <2>1, <2>3, <3>1 DEF Halves, IsTarget, ReleaseTarget
    <3>3. end \in rs
      BY <2>1, <3>1, <3>2 DEF Halves
    <3> QED BY <3>2, <3>3 DEF NoHalvesIn
  <2> QED BY <2>2, <2>3
<1>2. CASE targets = {}
  <2>1. Apply(rs, op, when) \subseteq rs \cup {new}
    BY <1>2 DEF Apply
  <2> SUFFICES ASSUME NEW open \in rs \cup {new}, NEW end \in rs \cup {new},
                      Halves(open, end)
               PROVE  FALSE
    BY <2>1 DEF NoHalvesIn
  <2>2. CASE op.kind = "ADDED"
    <3>1. new.subject = op.subject /\ new.not_before = when /\ new.not_after = NULL
      BY <2>2 DEF NewRow
    <3>2. end \in rs
      BY <3>1 DEF Halves
    <3>3. open = new
      BY <3>2 DEF NoHalvesIn
    <3>4. end \in targets
      BY <2>2, <3>1, <3>2, <3>3 DEF Halves, IsTarget, AssignTarget
    <3> QED BY <1>2, <3>4
  <2>3. CASE op.kind # "ADDED"
    <3>1. new.subject = op.subject /\ new.not_after = when /\ when # NULL
      BY <2>3 DEF NewRow, Time
    <3>2. open \in rs
      BY <3>1 DEF Halves
    <3>3. end = new
      BY <3>2 DEF NoHalvesIn
    <3>4. open \in targets
      BY <2>3, <3>1, <3>2, <3>3 DEF Halves, IsTarget, ReleaseTarget
    <3> QED BY <1>2, <3>4
  <2> QED BY <2>2, <2>3
<1> QED BY <1>1, <1>2

Whole == rows \subseteq Row /\ NoHalvesIn(rows)

LEMMA EventParts ==
  ASSUME NEW s \in Subject, NEW i \in Event
  PROVE  EventOp(s, i) \in Op /\ EventTime(i) \in Time
BY DeliveryAssumption DEF EventOp, EventTime, Event, Op, Time, EPOCH

LEMMA StoreKeepsWhole ==
  ASSUME Whole, NEW s \in Subject, NEW i \in Event, Store(s, i)
  PROVE  Whole'
BY EventParts, ApplyType, ApplyKeepsWhole, DeliveryAssumption DEF Whole, Store

\* Requests that are stored one after the other never keep an assignment and
\* its release as two halves, in whatever order they arrive and however often
\* (db.go:565-568).  StoreTx shows that requests stored at the same time do.
THEOREM SerialStoresKeepWhole == Spec => []NoHalves
<1>1. Init => Whole
  BY DEF Init, Whole, NoHalvesIn
<1>2. Whole /\ [Next]_vars => Whole'
  <2> SUFFICES ASSUME Whole, [Next]_vars PROVE Whole'
    OBVIOUS
  <2>1. CASE rows' = rows
    BY <2>1 DEF Whole
  <2>2. ASSUME NEW s \in Subject, NEW i \in Event, Store(s, i) PROVE Whole'
    BY <2>2, StoreKeepsWhole
  <2> QED BY <2>1, <2>2 DEF Next, Happen, Deliver, Resend, vars
<1>3. Whole => NoHalves
  BY DEF Whole, NoHalvesIn, NoHalves
<1> QED BY <1>1, <1>2, <1>3, PTL DEF Spec

-----------------------------------------------------------------------------
(***************************************************************************)
(* Type correctness.                                                       *)
(***************************************************************************)
\* Every reachable state has the types declared, for every order of delivery.
THEOREM TypeCorrect == Spec => []TypeOK
<1>1. Init => TypeOK
  BY DeliveryAssumption DEF Init, TypeOK, Event
<1>2. TypeOK /\ [Next]_vars => TypeOK'
  <2> SUFFICES ASSUME TypeOK, [Next]_vars PROVE TypeOK'
    OBVIOUS
  <2>1. CASE UNCHANGED vars
    BY <2>1 DEF TypeOK, vars
  <2>2. ASSUME NEW s \in Subject, NEW i \in Event, Store(s, i) PROVE rows' \subseteq Row
    BY <2>2, EventParts, ApplyType, DeliveryAssumption DEF TypeOK, Store
  <2>3. ASSUME NEW s \in Subject, Happen(s) PROVE TypeOK'
    BY <2>3, DeliveryAssumption DEF TypeOK, Happen
  <2>4. ASSUME NEW s \in Subject, NEW i \in Event, Deliver(s, i) PROVE TypeOK'
    BY <2>2, <2>4 DEF TypeOK, Deliver
  <2>5. ASSUME NEW s \in Subject, NEW i \in Event, Resend(s, i) PROVE TypeOK'
    BY <2>2, <2>5, DeliveryAssumption DEF TypeOK, Resend
  <2> QED BY <2>1, <2>3, <2>4, <2>5 DEF Next
<1> QED BY <1>1, <1>2, PTL DEF Spec

-----------------------------------------------------------------------------
(***************************************************************************)
(* The rows say which events have been delivered.                          *)
(***************************************************************************)
\* The order of delivery of the runs: a release may overtake its assignment, and
\* an assignment may be repeated until its release is delivered.
InOrder == ~AcrossCycles /\ ~LateResends

\* Assignments and releases take turns, and later events have later times.
LEMMA Parity ==
  ASSUME NEW i \in Nat
  PROVE  /\ IsRelease(i + 1) <=> ~IsRelease(i)
         /\ i # 0 => (IsRelease(i - 1) <=> ~IsRelease(i))
         /\ IsRelease(i) /\ i # 0 => i > 1
         /\ EventTime(i) \in Nat
         /\ \A j \in Nat : /\ EventTime(i) = EventTime(j) <=> i = j
                           /\ EventTime(i) < EventTime(j) <=> i < j
BY DEF IsRelease, EventTime

\* The row of an assignment, that of one which has not ended, and that of a
\* release without its assignment.
Closed(s, i) == [subject |-> s, not_before |-> EventTime(i), not_after |-> EventTime(i + 1)]
Opened(s, i) == [subject |-> s, not_before |-> EventTime(i), not_after |-> NULL]
Ending(s, i) == [subject |-> s, not_before |-> EPOCH, not_after |-> EventTime(i)]

\* What the rows are, once the events in have[s] of every subject have been stored.
IsRow(row, have) ==
  \E s \in Subject : \E i \in have[s] :
    \/ ~IsRelease(i) /\ i + 1 \in have[s] /\ row = Closed(s, i)
    \/ ~IsRelease(i) /\ i + 1 \notin have[s] /\ row = Opened(s, i)
    \/ IsRelease(i) /\ i - 1 \notin have[s] /\ row = Ending(s, i)

\* An event is in after those before it, but for the assignment that it ends.
Orderly(have) ==
  \A s \in Subject : \A i \in have[s] : \A j \in 1..(i - 1) :
    j \in have[s] \/ (IsRelease(i) /\ j = i - 1)

\* The rows are those of the events in have, and of nothing else.
RowsOfHistory(rs, have) == \A row : row \in rs <=> IsRow(row, have)

RowsExact ==
  /\ TypeOK
  /\ Orderly(delivered)
  /\ RowsOfHistory(rows, delivered)

LEMMA RowParts ==
  ASSUME NEW s \in Subject, NEW i \in Nat, i # 0
  PROVE  /\ Closed(s, i).subject = s /\ Closed(s, i).not_before = EventTime(i)
         /\ Closed(s, i).not_after = EventTime(i + 1)
         /\ Opened(s, i).subject = s /\ Opened(s, i).not_before = EventTime(i)
         /\ Opened(s, i).not_after = NULL
         /\ Ending(s, i).subject = s /\ Ending(s, i).not_before = EPOCH
         /\ Ending(s, i).not_after = EventTime(i)
         /\ EventTime(i) # EPOCH /\ EventTime(i) # NULL /\ EventTime(i + 1) # NULL
         /\ EventTime(i) \in Time
         /\ Closed(s, i) \in Row /\ Opened(s, i) \in Row /\ Ending(s, i) \in Row
BY DeliveryAssumption DEF Closed, Opened, Ending, EventTime, EPOCH, Row, Time

\* Rows of different events differ.
LEMMA RowsDiffer ==
  ASSUME NEW s \in Subject, NEW u \in Subject, NEW i \in Nat, NEW k \in Nat, i # 0, k # 0
  PROVE  /\ Closed(s, i) # Opened(u, k) /\ Closed(s, i) # Ending(u, k)
         /\ Opened(s, i) # Ending(u, k)
         /\ Opened(s, i) = Opened(u, k) => s = u /\ i = k
         /\ Ending(s, i) = Ending(u, k) => s = u /\ i = k
<1>1. EventTime(i) = EventTime(k) => i = k
  BY Parity
<1> QED BY <1>1, RowParts

Histories == [Subject -> SUBSET Event]

LEMMA EventIsNat == \A i \in Event : i \in Nat /\ i # 0 /\ i + 1 \in Nat /\ i - 1 \in Nat
BY DeliveryAssumption DEF Event

\* Before a release comes its assignment.
LEMMA BeforeRelease ==
  ASSUME NEW i \in Event, IsRelease(i)
  PROVE  /\ i \in Nat /\ i # 0 /\ i - 1 \in Nat /\ i - 1 # 0
         /\ ~IsRelease(i - 1) /\ (i - 1) + 1 = i
<1>1. i \in Nat /\ i # 0 /\ i - 1 \in Nat
  BY EventIsNat
<1> QED BY <1>1, Parity

\* A row of its own shows that the event is in.
LEMMA OwnRows ==
  ASSUME NEW have \in Histories, NEW s \in Subject, NEW i \in Nat, i # 0
  PROVE  /\ IsRow(Opened(s, i), have) => i \in have[s]
         /\ IsRow(Ending(s, i), have) => i \in have[s]
<1> SUFFICES ASSUME NEW row \in {Opened(s, i), Ending(s, i)}, IsRow(row, have)
             PROVE  i \in have[s]
  OBVIOUS
<1>1. PICK u \in Subject :
        \E k \in have[u] : row \in {Closed(u, k), Opened(u, k), Ending(u, k)}
  BY DEF IsRow
<1>2. PICK k \in have[u] : row \in {Closed(u, k), Opened(u, k), Ending(u, k)}
  BY <1>1
<1>3. k \in Nat /\ k # 0
  BY EventIsNat DEF Histories
<1> QED BY <1>2, <1>3, RowsDiffer

\* An assignment more: it takes over the row of its release, or has a row of its own.
LEMMA AssignmentAdds ==
  ASSUME NEW have \in Histories, NEW s \in Subject, NEW i \in Event, ~IsRelease(i),
         i \notin have[s], NEW more, more = [have EXCEPT ![s] = @ \cup {i}], NEW row
  PROVE  IsRow(row, more) <=>
           IF i + 1 \in have[s]
           THEN row = Closed(s, i) \/ (IsRow(row, have) /\ row # Ending(s, i + 1))
           ELSE row = Opened(s, i) \/ IsRow(row, have)
<1>1. /\ more[s] = have[s] \cup {i} /\ \A u \in Subject \ {s} : more[u] = have[u]
      /\ \A u \in Subject : have[u] \subseteq Event /\ more[u] \subseteq Event
  BY DEF Histories
<1>2. i \in Nat /\ i # 0 /\ IsRelease(i + 1) /\ i + 1 # i
  BY EventIsNat, Parity
<1>3. ASSUME NEW u \in Subject, NEW k \in have[u]
      PROVE  /\ ~IsRelease(k) => (k + 1 \in have[u] <=> k + 1 \in more[u])
             /\ IsRelease(k) => (k - 1 \in more[u] <=> k - 1 \in have[u] \/ (u = s /\ k = i + 1))
             /\ k \in Nat /\ k # 0 /\ k \in more[u]
  <2>1. k \in Event /\ k \in Nat /\ k # 0 /\ k \in more[u] /\ k - 1 \in Nat
    BY <1>1, EventIsNat
  <2>2. (IsRelease(k + 1) <=> ~IsRelease(k)) /\ (IsRelease(k - 1) <=> ~IsRelease(k))
    BY <2>1, Parity
  <2>3. CASE u = s
    BY <1>1, <1>2, <2>1, <2>2, <2>3
  <2> QED BY <1>1, <2>1, <2>3
<1>4. ASSUME IsRow(row, have)
      PROVE  IsRow(row, more) \/ (i + 1 \in have[s] /\ row = Ending(s, i + 1))
  BY <1>3, <1>4 DEF IsRow
<1>5. IF i + 1 \in have[s] THEN IsRow(Closed(s, i), more) ELSE IsRow(Opened(s, i), more)
  BY <1>1, <1>2 DEF IsRow
<1>6. ASSUME IsRow(row, more)
      PROVE  \/ IsRow(row, have) /\ row # Ending(s, i + 1)
             \/ i + 1 \in have[s] /\ row = Closed(s, i)
             \/ i + 1 \notin have[s] /\ row = Opened(s, i)
  <2> DEFINE From(u, k) ==
        \/ ~IsRelease(k) /\ k + 1 \in more[u] /\ row = Closed(u, k)
        \/ ~IsRelease(k) /\ k + 1 \notin more[u] /\ row = Opened(u, k)
        \/ IsRelease(k) /\ k - 1 \notin more[u] /\ row = Ending(u, k)
  <2> PICK u \in Subject : \E k \in more[u] : From(u, k)
    BY <1>6 DEF IsRow
  <2>1. PICK k \in more[u] : From(u, k)
    OBVIOUS
  <2>2. CASE u = s /\ k = i
    BY <1>1, <1>2, <2>1, <2>2
  <2>3. CASE ~(u = s /\ k = i)
    <3>1. k \in have[u] /\ k \in Nat /\ k # 0
      BY <1>1, <2>1, <2>3, EventIsNat
    <3>2. IsRow(row, have)
      BY <1>3, <2>1, <3>1 DEF IsRow
    <3>3. row # Ending(s, i + 1)
      BY <1>1, <1>2, <2>1, <3>1, RowsDiffer
    <3> QED BY <3>2, <3>3
  <2> QED BY <2>2, <2>3
<1>7. ASSUME i + 1 \notin have[s] PROVE ~IsRow(Ending(s, i + 1), have)
  BY <1>2, <1>7, OwnRows
<1> QED BY <1>4, <1>5, <1>6, <1>7

\* A release more: it closes the row of its assignment, or has a row of its own.
LEMMA ReleaseAdds ==
  ASSUME NEW have \in Histories, NEW s \in Subject, NEW i \in Event, IsRelease(i),
         i \notin have[s], NEW more, more = [have EXCEPT ![s] = @ \cup {i}], NEW row
  PROVE  IsRow(row, more) <=>
           IF i - 1 \in have[s]
           THEN row = Closed(s, i - 1) \/ (IsRow(row, have) /\ row # Opened(s, i - 1))
           ELSE row = Ending(s, i) \/ IsRow(row, have)
<1>1. /\ more[s] = have[s] \cup {i} /\ \A u \in Subject \ {s} : more[u] = have[u]
      /\ \A u \in Subject : have[u] \subseteq Event /\ more[u] \subseteq Event
  BY DEF Histories
<1>2. i \in Nat /\ i - 1 \in Nat /\ i - 1 # 0 /\ ~IsRelease(i - 1) /\ i - 1 # i /\ (i - 1) + 1 = i
  BY BeforeRelease
<1>3. ASSUME NEW u \in Subject, NEW k \in have[u]
      PROVE  /\ IsRelease(k) => (k - 1 \in have[u] <=> k - 1 \in more[u])
             /\ ~IsRelease(k) => (k + 1 \in more[u] <=> k + 1 \in have[u] \/ (u = s /\ k = i - 1))
             /\ k \in Nat /\ k # 0 /\ k \in more[u]
  <2>1. k \in Event /\ k \in Nat /\ k # 0 /\ k \in more[u] /\ k - 1 \in Nat
    BY <1>1, EventIsNat
  <2>2. (IsRelease(k + 1) <=> ~IsRelease(k)) /\ (IsRelease(k - 1) <=> ~IsRelease(k))
    BY <2>1, Parity
  <2>3. CASE u = s
    BY <1>1, <1>2, <2>1, <2>2, <2>3
  <2> QED BY <1>1, <2>1, <2>3
<1>4. ASSUME IsRow(row, have)
      PROVE  IsRow(row, more) \/ (i - 1 \in have[s] /\ row = Opened(s, i - 1))
  BY <1>3, <1>4 DEF IsRow
<1>5. IF i - 1 \in have[s] THEN IsRow(Closed(s, i - 1), more) ELSE IsRow(Ending(s, i), more)
  BY <1>1, <1>2 DEF IsRow
<1>6. ASSUME IsRow(row, more)
      PROVE  \/ IsRow(row, have) /\ row # Opened(s, i - 1)
             \/ i - 1 \in have[s] /\ row = Closed(s, i - 1)
             \/ i - 1 \notin have[s] /\ row = Ending(s, i)
  <2> DEFINE From(u, k) ==
        \/ ~IsRelease(k) /\ k + 1 \in more[u] /\ row = Closed(u, k)
        \/ ~IsRelease(k) /\ k + 1 \notin more[u] /\ row = Opened(u, k)
        \/ IsRelease(k) /\ k - 1 \notin more[u] /\ row = Ending(u, k)
  <2> PICK u \in Subject : \E k \in more[u] : From(u, k)
    BY <1>6 DEF IsRow
  <2>1. PICK k \in more[u] : From(u, k)
    OBVIOUS
  <2>2. CASE u = s /\ k = i
    BY <1>1, <1>2, <2>1, <2>2
  <2>3. CASE ~(u = s /\ k = i)
    <3>1. k \in have[u] /\ k \in Nat /\ k # 0
      BY <1>1, <2>1, <2>3, EventIsNat
    <3>2. CASE u = s /\ k = i - 1
      BY <1>1, <1>2, <2>1, <3>1, <3>2
    <3>3. CASE ~(u = s /\ k = i - 1)
      <4>1. IsRow(row, have)
        BY <1>3, <2>1, <3>1, <3>3 DEF IsRow
      <4>2. row # Opened(s, i - 1)
        BY <1>2, <2>1, <3>1, <3>3, RowsDiffer
      <4> QED BY <4>1, <4>2
    <3> QED BY <3>2, <3>3
  <2> QED BY <2>2, <2>3
<1>7. ASSUME i - 1 \notin have[s] PROVE ~IsRow(Opened(s, i - 1), have)
  BY <1>2, <1>7, OwnRows
<1> QED BY <1>4, <1>5, <1>6, <1>7

\* What the UPDATE of an assignment meets that is not in yet: the row of its release,
\* if that has come before.
LEMMA AssignmentTargets ==
  ASSUME NEW have \in Histories, Orderly(have), NEW s \in Subject, NEW i \in Event,
         ~IsRelease(i), i \notin have[s], NEW row, IsRow(row, have)
  PROVE  IsTarget(row, EventOp(s, i), EventTime(i)) <=> row = Ending(s, i + 1)
<1>1. IsTarget(row, EventOp(s, i), EventTime(i)) <=> AssignTarget(row, s, EventTime(i))
  BY DEF IsTarget, EventOp
<1>2. i \in Nat /\ i # 0 /\ i + 1 \in Nat /\ i + 1 # 0 /\ EventTime(i) < EventTime(i + 1)
  BY EventIsNat, Parity
<1>3. ASSUME row = Ending(s, i + 1) PROVE AssignTarget(row, s, EventTime(i))
  BY <1>2, <1>3, RowParts DEF AssignTarget
<1>4. ASSUME AssignTarget(row, s, EventTime(i)) PROVE row = Ending(s, i + 1)
  <2>1. PICK u \in Subject : \E k \in have[u] : IsRelease(k) /\ row = Ending(u, k)
    <3>1. row.not_before = EPOCH
      BY <1>4 DEF AssignTarget
    <3>2. \A u \in Subject : \A k \in have[u] : row # Closed(u, k) /\ row # Opened(u, k)
      BY <3>1, RowParts, EventIsNat DEF Histories
    <3> QED BY <3>2 DEF IsRow
  <2>2. PICK k \in have[u] : IsRelease(k) /\ row = Ending(u, k)
    BY <2>1
  <2>3. k \in Event /\ k \in Nat /\ k # 0
    BY EventIsNat DEF Histories
  <2>4. u = s /\ EventTime(k) > EventTime(i)
    BY <1>4, <2>2, <2>3, RowParts DEF AssignTarget
  <2>5. i < k
    BY <1>2, <2>3, <2>4, Parity DEF EventTime
  <2>6. i \in 1..(k - 1)
    BY <1>2, <2>3, <2>5
  <2>7. i = k - 1
    BY <2>4, <2>6 DEF Orderly
  <2> QED BY <1>2, <2>2, <2>3, <2>4, <2>7
<1> QED BY <1>1, <1>3, <1>4

\* The INSERT of an assignment meets its own row only.
LEMMA AssignmentConflicts ==
  ASSUME SlotsDistinct, NEW have \in Histories, NEW s \in Subject, NEW i \in Event,
         ~IsRelease(i), NEW row, IsRow(row, have)
  PROVE  /\ NewRow(EventOp(s, i), EventTime(i)) = Opened(s, i)
         /\ Conflict(Opened(s, i), row) <=> row = Opened(s, i)
<1>1. NewRow(EventOp(s, i), EventTime(i)) = Opened(s, i)
  BY DEF NewRow, EventOp, Opened
<1>2. i \in Nat /\ i # 0
  BY EventIsNat
<1>3. ASSUME Conflict(Opened(s, i), row) PROVE row = Opened(s, i)
  <2>1. row.not_after = NULL /\ row.not_before = EventTime(i) /\ Slot[row.subject] = Slot[s]
    BY <1>2, <1>3, RowParts DEF Conflict
  <2>2. \A u \in Subject : \A k \in have[u] : row # Closed(u, k) /\ row # Ending(u, k)
    BY <2>1, RowParts, EventIsNat DEF Histories
  <2>3. PICK u \in Subject : \E k \in have[u] : row = Opened(u, k)
    BY <2>2 DEF IsRow
  <2>4. PICK k \in have[u] : row = Opened(u, k)
    BY <2>3
  <2>5. k \in Nat /\ k # 0
    BY EventIsNat DEF Histories
  <2>6. EventTime(k) = EventTime(i) /\ u = s
    BY <2>1, <2>4, <2>5, RowParts DEF SlotsDistinct
  <2> QED BY <1>2, <2>4, <2>5, <2>6, Parity
<1>4. Conflict(Opened(s, i), Opened(s, i))
  BY <1>2, RowParts DEF Conflict
<1> QED BY <1>1, <1>3, <1>4

\* What the UPDATE of a release meets that is not in yet: the row of its assignment,
\* if that is in.
LEMMA ReleaseTargets ==
  ASSUME NEW have \in Histories, Orderly(have), NEW s \in Subject, NEW i \in Event,
         IsRelease(i), i \notin have[s],
         \A j \in 1..(i - 1) : j \in have[s] \/ j = i - 1,
         NEW row, IsRow(row, have)
  PROVE  IsTarget(row, EventOp(s, i), EventTime(i)) <=> row = Opened(s, i - 1)
<1>1. IsTarget(row, EventOp(s, i), EventTime(i)) <=> ReleaseTarget(row, s)
  BY DEF IsTarget, EventOp
<1>2. i \in Nat /\ i # 0 /\ i - 1 \in Nat /\ i - 1 # 0 /\ ~IsRelease(i - 1)
  BY BeforeRelease
<1>3. ASSUME row = Opened(s, i - 1) PROVE ReleaseTarget(row, s)
  BY <1>2, <1>3, RowParts DEF ReleaseTarget
<1>4. ASSUME ReleaseTarget(row, s) PROVE row = Opened(s, i - 1)
  <2>1. row.not_after = NULL /\ row.subject = s
    BY <1>4 DEF ReleaseTarget
  <2>2. \A u \in Subject : \A k \in have[u] : row # Closed(u, k) /\ row # Ending(u, k)
    BY <2>1, RowParts, EventIsNat DEF Histories
  <2>3. PICK u \in Subject :
          \E k \in have[u] : ~IsRelease(k) /\ k + 1 \notin have[u] /\ row = Opened(u, k)
    BY <2>2 DEF IsRow
  <2>4. PICK k \in have[u] : ~IsRelease(k) /\ k + 1 \notin have[u] /\ row = Opened(u, k)
    BY <2>3
  <2>5. k \in Nat /\ k # 0 /\ k + 1 \in Nat /\ IsRelease(k + 1) /\ k # i
    BY <2>4, EventIsNat, Parity DEF Histories
  <2>6. u = s
    BY <2>1, <2>4, <2>5, RowParts
  <2>7. ~(i < k)
    <3> SUFFICES ASSUME i < k PROVE FALSE
      OBVIOUS
    <3>1. i \in 1..(k - 1)
      BY <1>2, <2>5
    <3> QED BY <2>4, <2>6, <3>1 DEF Orderly
  <2>8. ~(k + 1 < i)
    <3> SUFFICES ASSUME k + 1 < i PROVE FALSE
      OBVIOUS
    <3>1. k + 1 \in 1..(i - 1)
      BY <1>2, <2>5
    <3>2. k + 1 = i - 1
      BY <2>4, <2>6, <3>1
    <3> QED BY <1>2, <2>5, <3>2
  <2> QED BY <1>2, <2>4, <2>5, <2>6, <2>7, <2>8
<1> QED BY <1>1, <1>3, <1>4

\* Storing an event that is not in yet, as the delivery allows it, makes the rows those
\* of one event more.
LEMMA StoreAssignment ==
  ASSUME SlotsDistinct, NEW have \in Histories, Orderly(have), NEW rs,
         RowsOfHistory(rs, have), NEW s \in Subject, NEW i \in Event, ~IsRelease(i),
         i \notin have[s]
  PROVE  RowsOfHistory(Apply(rs, EventOp(s, i), EventTime(i)),
                       [have EXCEPT ![s] = @ \cup {i}])
<1> DEFINE op == EventOp(s, i)
           when == EventTime(i)
           targets == {row \in rs : IsTarget(row, op, when)}
           more == [have EXCEPT ![s] = @ \cup {i}]
<1>1. i \in Nat /\ i # 0 /\ i + 1 \in Nat /\ i + 1 # 0 /\ IsRelease(i + 1) /\ (i + 1) - 1 = i
  <2>1. i \in Nat /\ i # 0
    BY EventIsNat
  <2>2. IsRelease(i + 1)
    BY <2>1, Parity, Zenon
  <2>3. i + 1 \in Nat /\ i + 1 # 0 /\ (i + 1) - 1 = i
    BY <2>1
  <2> QED BY <2>1, <2>2, <2>3
<1>2. \A row \in rs : IsTarget(row, op, when) <=> row = Ending(s, i + 1)
  BY AssignmentTargets DEF RowsOfHistory
<1>3. CASE i + 1 \in have[s]
  <2>1. IsRow(Ending(s, i + 1), have)
    BY <1>1, <1>3 DEF IsRow
  <2>2. targets = {Ending(s, i + 1)}
    BY <1>2, <2>1 DEF RowsOfHistory
  <2>3. Updated(Ending(s, i + 1), op, when) = Closed(s, i)
    BY DEF Updated, EventOp, Ending, Closed
  <2>4. Apply(rs, op, when) = (rs \ {Ending(s, i + 1)}) \cup {Closed(s, i)}
    BY <2>2, <2>3 DEF Apply
  <2>5. \A row : IsRow(row, more) <=>
          row = Closed(s, i) \/ (IsRow(row, have) /\ row # Ending(s, i + 1))
    BY <1>3, AssignmentAdds
  <2> QED BY <2>4, <2>5 DEF RowsOfHistory
<1>4. CASE i + 1 \notin have[s]
  <2>1. \A row \in rs : row # Ending(s, i + 1)
    <3> SUFFICES ASSUME IsRow(Ending(s, i + 1), have) PROVE FALSE
      BY DEF RowsOfHistory
    <3> QED BY <1>1, <1>4, OwnRows
  <2>2. targets = {}
    BY <1>2, <2>1
  <2>3. NewRow(op, when) = Opened(s, i)
    BY DEF NewRow, EventOp, Opened
  <2>4. \A row \in rs : ~Conflict(Opened(s, i), row)
    <3> SUFFICES ASSUME IsRow(Opened(s, i), have) PROVE FALSE
      BY AssignmentConflicts DEF RowsOfHistory
    <3> QED BY <1>1, OwnRows
  <2>5. Apply(rs, op, when) = rs \cup {Opened(s, i)}
    BY <2>2, <2>3, <2>4 DEF Apply
  <2>6. \A row : IsRow(row, more) <=> row = Opened(s, i) \/ IsRow(row, have)
    BY <1>4, AssignmentAdds
  <2> QED BY <2>5, <2>6 DEF RowsOfHistory
<1> QED BY <1>3, <1>4

LEMMA StoreRelease ==
  ASSUME NEW have \in Histories, Orderly(have), NEW rs, RowsOfHistory(rs, have),
         NEW s \in Subject, NEW i \in Event, IsRelease(i), i \notin have[s],
         \A j \in 1..(i - 1) : j \in have[s] \/ j = i - 1
  PROVE  RowsOfHistory(Apply(rs, EventOp(s, i), EventTime(i)),
                       [have EXCEPT ![s] = @ \cup {i}])
<1> DEFINE op == EventOp(s, i)
           when == EventTime(i)
           targets == {row \in rs : IsTarget(row, op, when)}
           more == [have EXCEPT ![s] = @ \cup {i}]
<1>1. i \in Nat /\ i # 0 /\ i - 1 \in Nat /\ i - 1 # 0 /\ ~IsRelease(i - 1) /\ (i - 1) + 1 = i
  BY BeforeRelease
<1>2. \A row \in rs : IsTarget(row, op, when) <=> row = Opened(s, i - 1)
  BY ReleaseTargets DEF RowsOfHistory
<1>3. CASE i - 1 \in have[s]
  <2>1. IsRow(Opened(s, i - 1), have)
    BY <1>1, <1>3 DEF IsRow
  <2>2. targets = {Opened(s, i - 1)}
    BY <1>2, <2>1 DEF RowsOfHistory
  <2>3. Updated(Opened(s, i - 1), op, when) = Closed(s, i - 1)
    BY <1>1 DEF Updated, EventOp, Opened, Closed
  <2>4. Apply(rs, op, when) = (rs \ {Opened(s, i - 1)}) \cup {Closed(s, i - 1)}
    BY <2>2, <2>3 DEF Apply
  <2>5. \A row : IsRow(row, more) <=>
          row = Closed(s, i - 1) \/ (IsRow(row, have) /\ row # Opened(s, i - 1))
    BY <1>3, ReleaseAdds
  <2> QED BY <2>4, <2>5 DEF RowsOfHistory
<1>4. CASE i - 1 \notin have[s]
  <2>1. \A row \in rs : row # Opened(s, i - 1)
    <3> SUFFICES ASSUME IsRow(Opened(s, i - 1), have) PROVE FALSE
      BY DEF RowsOfHistory
    <3> QED BY <1>1, <1>4, OwnRows
  <2>2. targets = {}
    BY <1>2, <2>1
  <2>3. NewRow(op, when) = Ending(s, i)
    BY DEF NewRow, EventOp, Ending
  <2>4. \A row \in rs : ~Conflict(Ending(s, i), row)
    BY <1>1, RowParts DEF Conflict
  <2>5. Apply(rs, op, when) = rs \cup {Ending(s, i)}
    BY <2>2, <2>3, <2>4 DEF Apply
  <2>6. \A row : IsRow(row, more) <=> row = Ending(s, i) \/ IsRow(row, have)
    BY <1>4, ReleaseAdds
  <2> QED BY <2>5, <2>6 DEF RowsOfHistory
<1> QED BY <1>3, <1>4

\* An assignment again, before its release is in: the INSERT meets the row of the first
\* time, and no UPDATE finds a row.
LEMMA StoreRepeat ==
  ASSUME SlotsDistinct, NEW have \in Histories, Orderly(have), NEW rs,
         RowsOfHistory(rs, have), NEW s \in Subject, NEW i \in Event, ~IsRelease(i),
         i \in have[s], i + 1 \notin have[s]
  PROVE  Apply(rs, EventOp(s, i), EventTime(i)) = rs
<1> DEFINE op == EventOp(s, i)
           when == EventTime(i)
<1>1. i \in Nat /\ i # 0 /\ i + 1 \in Nat /\ IsRelease(i + 1)
  BY EventIsNat, Parity
<1>2. \A row \in rs : ~IsTarget(row, op, when)
  <2> SUFFICES ASSUME NEW row, IsRow(row, have), AssignTarget(row, s, when) PROVE FALSE
    BY DEF RowsOfHistory, IsTarget, EventOp
  <2>1. row.not_before = EPOCH /\ row.subject = s /\ row.not_after > when
    BY DEF AssignTarget
  <2>2. \A u \in Subject : \A k \in have[u] : row # Closed(u, k) /\ row # Opened(u, k)
    BY <2>1, RowParts, EventIsNat DEF Histories
  <2>3. PICK u \in Subject : \E k \in have[u] : IsRelease(k) /\ row = Ending(u, k)
    BY <2>2 DEF IsRow
  <2>4. PICK k \in have[u] : IsRelease(k) /\ row = Ending(u, k)
    BY <2>3
  <2>5. k \in Event /\ k \in Nat /\ k # 0
    BY EventIsNat DEF Histories
  <2>6. u = s /\ i < k
    <3>1. u = s /\ EventTime(k) > EventTime(i)
      BY <2>1, <2>4, <2>5, RowParts
    <3> QED BY <1>1, <2>5, <3>1 DEF EventTime
  <2>7. k # i + 1
    BY <2>6
  <2>8. i + 1 \in 1..(k - 1)
    BY <1>1, <2>5, <2>6, <2>7
  <2>9. i + 1 = k - 1
    BY <2>6, <2>8 DEF Orderly
  <2>10. k - 1 \in Nat /\ ~IsRelease(k - 1)
    BY <2>4, <2>5, Parity, EventIsNat
  <2> QED BY <1>1, <2>9, <2>10
<1>3. Opened(s, i) \in rs /\ NewRow(op, when) = Opened(s, i)
        /\ Conflict(Opened(s, i), Opened(s, i))
  BY <1>1, RowParts DEF RowsOfHistory, IsRow, NewRow, EventOp, Opened, Conflict
<1> QED BY <1>2, <1>3 DEF Apply

LEMMA DeliverKeepsExact ==
  ASSUME InOrder, SlotsDistinct, RowsExact, NEW s \in Subject, NEW i \in Event, Deliver(s, i)
  PROVE  Orderly(delivered') /\ RowsOfHistory(rows', delivered')
<1>1. /\ i \notin delivered[s]
      /\ \A j \in 1..(i - 1) : j \in delivered[s] \/ (IsRelease(i) /\ j = i - 1)
      /\ rows' = Apply(rows, EventOp(s, i), EventTime(i))
      /\ delivered' = [delivered EXCEPT ![s] = @ \cup {i}]
  BY DEF Deliver, Store, MayOvertake, InOrder
<1>2. delivered \in Histories /\ Orderly(delivered) /\ RowsOfHistory(rows, delivered)
  BY DEF RowsExact, TypeOK, Histories
<1>3. Orderly(delivered')
  BY <1>1, <1>2 DEF Orderly, Histories
<1>4. CASE IsRelease(i)
  <2>1. \A j \in 1..(i - 1) : j \in delivered[s] \/ j = i - 1
    BY <1>1
  <2> QED BY <1>1, <1>2, <1>3, <1>4, <2>1, StoreRelease
<1>5. CASE ~IsRelease(i)
  BY <1>1, <1>2, <1>3, <1>5, StoreAssignment
<1> QED BY <1>4, <1>5

LEMMA ResendKeepsRows ==
  ASSUME InOrder, SlotsDistinct, RowsExact, NEW s \in Subject, NEW i \in Event, Resend(s, i)
  PROVE  UNCHANGED <<rows, delivered>>
<1>1. /\ i \in delivered[s] /\ ~IsRelease(i) /\ i + 1 \notin delivered[s]
      /\ rows' = Apply(rows, EventOp(s, i), EventTime(i))
      /\ delivered' = delivered
  BY DEF Resend, Store, MayResend, InOrder
<1>2. delivered \in Histories /\ Orderly(delivered) /\ RowsOfHistory(rows, delivered)
  BY DEF RowsExact, TypeOK, Histories
<1> QED BY <1>1, <1>2, StoreRepeat

\* In order, the table is in every state what the stored events say (db.go:545-723): one
\* row for an assignment and its release, one for each that is alone.
THEOREM RowsExactCorrect == ASSUME InOrder, SlotsDistinct PROVE Spec => []RowsExact
<1>1. Init => RowsExact
  <2> SUFFICES ASSUME Init PROVE RowsExact
    OBVIOUS
  <2>1. TypeOK
    BY DeliveryAssumption DEF Init, TypeOK, Event
  <2> QED BY <2>1 DEF Init, RowsExact, Orderly, RowsOfHistory, IsRow
<1>2. TypeOK /\ TypeOK' /\ RowsExact /\ [Next]_vars => RowsExact'
  <2> SUFFICES ASSUME TypeOK', RowsExact, [Next]_vars
               PROVE  Orderly(delivered') /\ RowsOfHistory(rows', delivered')
    BY DEF RowsExact, Orderly, RowsOfHistory, IsRow
  <2>1. CASE UNCHANGED <<rows, delivered>>
    BY <2>1 DEF RowsExact
  <2>2. ASSUME NEW s \in Subject, NEW i \in Event, Deliver(s, i)
        PROVE  Orderly(delivered') /\ RowsOfHistory(rows', delivered')
    BY <2>2, DeliverKeepsExact
  <2>3. ASSUME NEW s \in Subject, NEW i \in Event, Resend(s, i)
        PROVE  UNCHANGED <<rows, delivered>>
    BY <2>3, ResendKeepsRows
  <2> QED BY <2>1, <2>2, <2>3 DEF Next, Happen, vars
<1> QED BY <1>1, <1>2, TypeCorrect, PTL DEF Spec

\* In order, a lookup at any instant finds a subject exactly when it was assigned, as
\* soon as its events up to some point are in (migration 13): however often the subject
\* was assigned before, and whatever the other subjects did.
THEOREM LookupsAreExact == ASSUME InOrder, SlotsDistinct PROVE Spec => []LookupExact
<1>1. RowsExact => LookupExact
  <2> SUFFICES ASSUME RowsExact, NEW s \in Subject, NEW n \in 0..(2 * Cycles), Settled(s, n),
                      NEW ts \in Instant \ {EventTime(i) : i \in Event}
               PROVE  (\E row \in RowsOf(s) : ActiveAt(row, ts)) <=> Assigned(s, n, ts)
    BY DEF LookupExact
  <2>1. delivered \in Histories /\ delivered[s] = 1..n /\ n \in Nat /\ ts \in Nat
    BY DeliveryAssumption DEF RowsExact, TypeOK, Histories, Settled, Instant, EventTime
  <2>2. ASSUME NEW row \in RowsOf(s), ActiveAt(row, ts) PROVE Assigned(s, n, ts)
    <3>1. row.subject = s /\ IsRow(row, delivered)
      BY DEF RowsOf, RowsExact, RowsOfHistory
    <3>2. PICK u \in Subject : \E k \in delivered[u] :
            \/ ~IsRelease(k) /\ k + 1 \in delivered[u] /\ row = Closed(u, k)
            \/ ~IsRelease(k) /\ k + 1 \notin delivered[u] /\ row = Opened(u, k)
            \/ IsRelease(k) /\ k - 1 \notin delivered[u] /\ row = Ending(u, k)
      BY <3>1 DEF IsRow
    <3>3. PICK k \in delivered[u] :
            \/ ~IsRelease(k) /\ k + 1 \in delivered[u] /\ row = Closed(u, k)
            \/ ~IsRelease(k) /\ k + 1 \notin delivered[u] /\ row = Opened(u, k)
            \/ IsRelease(k) /\ k - 1 \notin delivered[u] /\ row = Ending(u, k)
      BY <3>2
    <3>4. k \in Event /\ k \in Nat /\ k # 0
      BY <2>1, EventIsNat DEF Histories
    <3>5. u = s
      BY <3>1, <3>3, <3>4, RowParts
    <3>6. k \in 1..n
      BY <2>1, <3>5
    <3>7. CASE ~IsRelease(k) /\ k + 1 \in delivered[u] /\ row = Closed(u, k)
      <4>1. EventTime(k) < ts /\ ts < EventTime(k + 1)
        BY <2>2, <3>4, <3>7, RowParts DEF ActiveAt
      <4> QED BY <3>6, <3>7, <4>1 DEF Assigned
    <3>8. CASE ~IsRelease(k) /\ k + 1 \notin delivered[u] /\ row = Opened(u, k)
      <4>1. EventTime(k) < ts
        BY <2>2, <3>4, <3>8, RowParts DEF ActiveAt
      <4>2. ~(k < n)
        BY <2>1, <3>4, <3>5, <3>8
      <4> QED BY <3>6, <3>8, <4>1, <4>2 DEF Assigned
    <3>9. CASE IsRelease(k) /\ k - 1 \notin delivered[u] /\ row = Ending(u, k)
      <4>1. k - 1 \in Nat /\ k - 1 # 0
        BY <3>4, <3>9, BeforeRelease
      <4>2. k - 1 \in 1..n
        BY <2>1, <3>4, <3>6, <4>1
      <4> QED BY <2>1, <3>5, <3>9, <4>2
    <3> QED BY <3>3, <3>7, <3>8, <3>9
  <2>3. ASSUME Assigned(s, n, ts) PROVE \E row \in RowsOf(s) : ActiveAt(row, ts)
    <3>1. PICK i \in 1..n : /\ ~IsRelease(i)
                            /\ EventTime(i) < ts
                            /\ i < n => ts < EventTime(i + 1)
      BY <2>3 DEF Assigned
    <3>2. i \in delivered[s] /\ i \in Nat /\ i # 0
      BY <2>1
    <3>3. CASE i < n
      <4>1. i + 1 \in delivered[s]
        BY <2>1, <3>2, <3>3
      <4>2. Closed(s, i) \in RowsOf(s)
        BY <3>1, <3>2, <4>1, RowParts DEF RowsOf, RowsExact, RowsOfHistory, IsRow
      <4>3. ActiveAt(Closed(s, i), ts)
        BY <2>1, <3>1, <3>2, <3>3, RowParts DEF ActiveAt, EventTime
      <4> QED BY <4>2, <4>3
    <3>4. CASE ~(i < n)
      <4>1. i + 1 \notin delivered[s]
        BY <2>1, <3>2, <3>4
      <4>2. Opened(s, i) \in RowsOf(s)
        BY <3>1, <3>2, <4>1, RowParts DEF RowsOf, RowsExact, RowsOfHistory, IsRow
      <4>3. ActiveAt(Opened(s, i), ts)
        BY <3>1, <3>2, RowParts DEF ActiveAt
      <4> QED BY <4>2, <4>3
    <3> QED BY <3>3, <3>4
  <2> QED BY <2>2, <2>3
<1> QED BY <1>1, RowsExactCorrect, PTL

\* In order, an epoch row stands exactly for a release whose assignment has not come
\* yet ("this way we can find unbalanced events", db.go:567), in every state.
THEOREM EpochRowsAreUnbalanced ==
  ASSUME InOrder, SlotsDistinct PROVE Spec => []EpochMeansUnbalanced
<1>1. RowsExact => EpochMeansUnbalanced
  <2> SUFFICES ASSUME RowsExact, NEW s \in Subject, NEW i \in Event, IsRelease(i)
               PROVE  (\E row \in RowsOf(s) : row.not_before = EPOCH
                                              /\ row.not_after = EventTime(i))
                        <=> (i \in delivered[s] /\ i - 1 \notin delivered[s])
    BY DEF EpochMeansUnbalanced
  <2>1. delivered \in Histories /\ i \in Nat /\ i # 0
    BY EventIsNat DEF RowsExact, TypeOK, Histories
  <2>2. ASSUME NEW row \in RowsOf(s), row.not_before = EPOCH, row.not_after = EventTime(i)
        PROVE  i \in delivered[s] /\ i - 1 \notin delivered[s]
    <3>1. row.subject = s /\ IsRow(row, delivered)
      BY DEF RowsOf, RowsExact, RowsOfHistory
    <3>2. \A u \in Subject : \A k \in delivered[u] : row # Closed(u, k) /\ row # Opened(u, k)
      BY <2>1, <2>2, RowParts, EventIsNat DEF Histories
    <3>3. PICK u \in Subject :
            \E k \in delivered[u] : k - 1 \notin delivered[u] /\ row = Ending(u, k)
      BY <3>1, <3>2 DEF IsRow
    <3>4. PICK k \in delivered[u] : k - 1 \notin delivered[u] /\ row = Ending(u, k)
      BY <3>3
    <3>5. k \in Nat /\ k # 0
      BY <2>1, EventIsNat DEF Histories
    <3>6. u = s /\ EventTime(k) = EventTime(i)
      BY <2>2, <3>1, <3>4, <3>5, RowParts
    <3> QED BY <2>1, <3>4, <3>5, <3>6, Parity
  <2>3. ASSUME i \in delivered[s], i - 1 \notin delivered[s]
        PROVE  Ending(s, i) \in RowsOf(s)
    BY <2>1, <2>3, RowParts DEF RowsOf, RowsExact, RowsOfHistory, IsRow
  <2> QED BY <2>1, <2>2, <2>3, RowParts
<1> QED BY <1>1, RowsExactCorrect, PTL
=============================================================================
