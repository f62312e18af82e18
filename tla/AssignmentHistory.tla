------------------------- MODULE AssignmentHistory -------------------------
(***************************************************************************)
(* What DB.Store promises, without transactions, statements, locks or      *)
(* failures: accepting a request is one atomic step, after which a row     *)
(* records each of its operations.  The step touches only rows of the      *)
(* subjects the request names, invents no event, and rewrites no start and *)
(* no end that an earlier request reported.                                *)
(*                                                                         *)
(* It does not promise in which row an event ends up: two halves of one    *)
(* assignment may stay apart (NoHalves of StoreTx does not hold).          *)
(***************************************************************************)
EXTENDS AssignmentRows, Sequences

CONSTANTS
  Txn,      \* the calls of Store
  RowId,    \* the names of rows
  Request   \* the requests a client may send

VARIABLES
  rows,      \* rows[r]: the row r, or NULL
  accepted   \* accepted[t]: the request that call t stored, or NULL

vars == <<rows, accepted>>

Init ==
  /\ rows = [r \in RowId |-> NULL]
  /\ accepted = [t \in Txn |-> NULL]

\* Request q is stored: it changes rows as a request may, and all of it is recorded.
Accept(t, q) ==
  /\ accepted[t] = NULL
  /\ accepted' = [accepted EXCEPT ![t] = q]
  /\ rows' \in [RowId -> Row \cup {NULL}]
  /\ \A r \in RowId : rows'[r] # rows[r] =>
       rows'[r] # NULL /\ Touched(rows[r], rows'[r], q)
  /\ \A i \in 1..Len(q.ops) :
       \E r \in RowId : rows'[r] # NULL /\ Records(rows'[r], q.ops[i], q.time)

Next == \E t \in Txn : \E q \in Request : Accept(t, q)

Spec == Init /\ [][Next]_vars
=============================================================================
