---------------------------- MODULE MCBulkExport ----------------------------
(***************************************************************************)
(* Instances of BulkExport for TLC: three resources, of which the second   *)
(* may be registered during the export.                                    *)
(***************************************************************************)
EXTENDS BulkExport

CONSTANT ip1

Address(table, r, ip) == [table |-> table, of |-> r, ip |-> ip]

Subjects ==
  {Address(table, r, ip1) : table \in {"private", "public"}, r \in Resource}

Slots == [s \in Subject |-> s]

Open(s) == [subject |-> s, not_before |-> 2, not_after |-> NULL]

\* All resources are held before the snapshot, or all but the second.
Ledgers == {{Open(s) : s \in {x \in Subject : x.of # r}} : r \in {0, 2}}
=============================================================================
