--------------------------- MODULE AssignmentRows ---------------------------
(***************************************************************************)
(* The rows of the three assignment tables (aws_private_ip_assignment,     *)
(* aws_public_ip_assignment, aws_resource_relationship) and what the SQL   *)
(* statements of pkg/storage/db.go do to them.                             *)
(*                                                                         *)
(* The three tables have the same shape and the same six statements, so a  *)
(* row is the SUBJECT its WHERE clauses name - (private, resource, ip),    *)
(* (public, resource, ip, hostname) or (relationship, arn, related arn) -  *)
(* and the interval during which the assignment held.  An operation is the *)
(* kind of a change, applied to one subject.                               *)
(***************************************************************************)
EXTENDS Integers

CONSTANTS
  Subject,   \* what is assigned to what
  Slot,      \* the columns of a subject that its unique index covers
  NULL       \* SQL's NULL, also "no row" and "no request"

\* to_timestamp(0): the not_before of a release without a known assignment.
EPOCH == 0

\* Event times: "1970-01-01 is known to not have AWS resources" (db.go:565).
Time == Nat \ {EPOCH}

Row == [subject : Subject, not_before : Nat, not_after : Nat \cup {NULL}]

Op == [kind : {"ADDED", "DELETED"}, subject : Subject]

-----------------------------------------------------------------------------
\* Mutants of the WHERE clauses: a comparison turned round, the subject
\* forgotten, an end that is known overwritten.
AssignTargetEndsBefore(row, subject, when) ==
  /\ row.subject = subject
  /\ row.not_before = EPOCH
  /\ row.not_after # NULL
  /\ row.not_after < when

AssignTargetAnySubject(row, subject, when) ==
  /\ row.not_before = EPOCH
  /\ row.not_after # NULL
  /\ row.not_after > when

ReleaseTargetClosed(row, subject) == row.subject = subject

\* Mutant: the WHERE clause of the other UPDATE.
ReleaseTargetEpoch(row, subject) ==
  /\ row.subject = subject
  /\ row.not_before = EPOCH
  /\ row.not_after = NULL

\* The WHERE clauses of the two UPDATE statements.
AssignTarget(row, subject, when) ==
  /\ row.subject = subject
  /\ row.not_before = EPOCH
  /\ row.not_after # NULL
  /\ row.not_after > when

ReleaseTarget(row, subject) ==
  /\ row.subject = subject
  /\ row.not_after = NULL

IsTarget(row, op, when) ==
  IF op.kind = "ADDED" THEN AssignTarget(row, op.subject, when)
                       ELSE ReleaseTarget(row, op.subject)

\* Their SET clauses.
Updated(row, op, when) ==
  IF op.kind = "ADDED" THEN [row EXCEPT !.not_before = when]
                       ELSE [row EXCEPT !.not_after = when]

\* Mutant: a nullable not_before, the design that db.go:566 avoids.
NewRowNullStart(op, when) ==
  [subject |-> op.subject,
   not_before |-> IF op.kind = "ADDED" THEN when ELSE NULL,
   not_after |-> IF op.kind = "ADDED" THEN NULL ELSE when]

\* The VALUES of the two INSERT statements.
NewRow(op, when) ==
  IF op.kind = "ADDED"
  THEN [subject |-> op.subject, not_before |-> when, not_after |-> NULL]
  ELSE [subject |-> op.subject, not_before |-> EPOCH, not_after |-> when]

\* Two rows that a partial unique index (.. where not_after is null) cannot
\* hold together: the insert "on conflict" does nothing.
Conflict(row, other) ==
  /\ row.not_after = NULL /\ other.not_after = NULL
  /\ row.not_before = other.not_before
  /\ Slot[row.subject] = Slot[other.subject]

\* Mutant: the INSERT does not look at how many rows the UPDATE has changed.
ApplyAlwaysInserts(rows, op, when) ==
  LET targets == {row \in rows : IsTarget(row, op, when)}
      new     == NewRow(op, when)
  IN (rows \ targets) \cup {Updated(row, op, when) : row \in targets}
     \cup IF \E row \in rows : Conflict(new, row) THEN {} ELSE {new}

\* One operation, run alone, on a set of rows: the UPDATE, and the INSERT
\* when the UPDATE changed no row.  Two equal rows stay equal for ever, so
\* that a set of rows loses nothing that a lookup could see.
Apply(rows, op, when) ==
  LET targets == {row \in rows : IsTarget(row, op, when)}
      new     == NewRow(op, when)
  IN IF targets # {}
     THEN (rows \ targets) \cup {Updated(row, op, when) : row \in targets}
     ELSE IF \E row \in rows : Conflict(new, row) THEN rows ELSE rows \cup {new}

\* The time condition of the lookup functions of migration 13.
ActiveAt(row, ts) ==
  /\ row.not_before < ts
  /\ row.not_after = NULL \/ row.not_after > ts

-----------------------------------------------------------------------------
(***************************************************************************)
(* What the properties speak about.                                        *)
(***************************************************************************)

\* The row records the operation: it starts, or ends, at the event's time.
Records(row, op, when) ==
  /\ row.subject = op.subject
  /\ IF op.kind = "ADDED" THEN row.not_before = when ELSE row.not_after = when

\* The history of a row only grows: an end that is known is never rewritten.
Extends(old, new) ==
  /\ new.subject = old.subject
  /\ old.not_before # EPOCH => new.not_before = old.not_before
  /\ old.not_after # NULL => new.not_after = old.not_after

\* What a request may do to a row, or to a place where there is none: it names
\* the subject, and an end that it adds is one that it reports.
Touched(old, new, q) ==
  /\ \E i \in DOMAIN q.ops : new.subject = q.ops[i].subject
  /\ old # NULL => Extends(old, new)
  /\ \/ new.not_before = EPOCH
     \/ old # NULL /\ new.not_before = old.not_before
     \/ \E i \in DOMAIN q.ops : q.ops[i].kind = "ADDED" /\ Records(new, q.ops[i], q.time)
  /\ \/ new.not_after = NULL
     \/ old # NULL /\ new.not_after = old.not_after
     \/ \E i \in DOMAIN q.ops : q.ops[i].kind = "DELETED" /\ Records(new, q.ops[i], q.time)

\* One assignment kept in two halves: an open row, and an epoch row that ends
\* after the open row starts.
Halves(open, end) ==
  /\ open.subject = end.subject
  /\ open.not_after = NULL
  /\ end.not_before = EPOCH /\ end.not_after # NULL
  /\ end.not_after > open.not_before

\* The unique indexes cover a subject whole: true of private addresses and of
\* relationships, and of public addresses as long as an address of a resource
\* has one hostname.
SlotsDistinct == \A s, u \in Subject : Slot[s] = Slot[u] => s = u
=============================================================================
