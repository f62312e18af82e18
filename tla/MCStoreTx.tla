----------------------------- MODULE MCStoreTx -----------------------------
(***************************************************************************)
(* Instances of StoreTx for TLC.                                           *)
(***************************************************************************)
EXTENDS StoreTx, TLC

CONSTANTS t1, t2, t3, s1, s2, region, region2, account, resource, resource2

Sub1 == {s1}
Sub2 == {s1, s2}
Slots == [s \in Subject |-> s]

Two   == {t1, t2}
Three == {t1, t2, t3}
Symmetry == Permutations(Txn)

Keys == {region, region2, account, resource, resource2}

Added(s)   == [kind |-> "ADDED", subject |-> s]
Deleted(s) == [kind |-> "DELETED", subject |-> s]

Req(time, ops) ==
  [names |-> {region, account}, resource |-> resource, time |-> time, ops |-> ops]

\* One assignment and its release.
OneSubject == {Req(1, <<Added(s1)>>), Req(2, <<Deleted(s1)>>)}

\* Requests with two operations that meet in both orders: two releases can
\* deadlock on the rows, two equal assignments on the unique index.
TwoSubjects ==
  {Req(1, <<Added(s1), Added(s2)>>), Req(2, <<Deleted(s2), Deleted(s1)>>),
   Req(3, <<Deleted(s1), Deleted(s2)>>), Req(1, <<Added(s2), Added(s1)>>),
   Req(4, <<Deleted(s1), Added(s1)>>)}

\* Requests about a registered resource that deadlock on the unique index, and
\* requests that share names and a resource nobody has registered yet.
Registered1 == {region, resource}

FirstSight ==
  {[names |-> {region}, resource |-> resource, time |-> 1, ops |-> <<Added(s1), Added(s2)>>],
   [names |-> {region}, resource |-> resource, time |-> 1, ops |-> <<Added(s2), Added(s1)>>],
   [names |-> {region2, account}, resource |-> resource2, time |-> 2, ops |-> <<Deleted(s1)>>],
   [names |-> {region}, resource |-> resource2, time |-> 2, ops |-> <<>>]}
=============================================================================
