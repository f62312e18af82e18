------------------------- MODULE MCResourceLookup -------------------------
(***************************************************************************)
(* Instances of ResourceLookup for TLC: a network interface, a load        *)
(* balancer that it is related to, and a resource of another account with  *)
(* the ARN id of the load balancer.  The interface has a private address   *)
(* outside of the private networks too, which another one has as public.   *)
(***************************************************************************)
EXTENDS ResourceLookup

CONSTANTS eni, elb, other, arn1, arn2, mine, theirs, ip1, ip2, name1, l1

Resources == {eni, elb, other}
ArnIds == [r \in Resources |-> IF r = eni THEN arn1 ELSE arn2]
AccountOf == [r \in Resources |-> IF r = other THEN theirs ELSE mine]

Private(r, ip) == [table |-> "private", of |-> r, ip |-> ip, hostname |-> NULL]
Public(r, ip, name) == [table |-> "public", of |-> r, ip |-> ip, hostname |-> name]

Subjects ==
  {Private(eni, ip1), Private(eni, ip2), Public(eni, ip2, name1),
   Private(elb, ip1), Public(other, ip2, name1),
   [table |-> "relationship", of |-> arn1, related |-> arn2]}

Networks == {ip1}
Slots == [s \in Subject |-> s]
=============================================================================
