-------------------------- MODULE MCChangeRequest --------------------------
(***************************************************************************)
(* Instances of ChangeRequest for TLC: the bodies a client may send.       *)
(***************************************************************************)
EXTENDS ChangeRequest

CONSTANTS acct1, acct2, priv1, priv2, pub1, pub2, host1, host2, rel

\* An instance, a volume with the same id, and two load balancers that differ in
\* their names only.
instance == <<"instance", "i1">>
volume   == <<"volume", "i1">>
alb1     == <<"loadbalancer", "app", "alb1", "i1">>
alb2     == <<"loadbalancer", "app", "alb2", "i1">>

Arns       == {instance, volume, alb1, alb2}
Zones      == {0, 2}
Accounts   == {acct1, acct2}
PrivateIPs == {priv1, priv2}
PublicIPs  == {pub1, pub2}
\* One address of each kind is not in its range.
InNetwork  == {priv1, pub2}
Hostnames  == {host1, host2}
Types      == {"ADDED", "added", "DELETED", "deleted"}
AddedTypes == {"ADDED", "added"}

Change(type, privates, publics, hosts, related) ==
  [changeType |-> type, privateIPs |-> privates, publicIPs |-> publics,
   hostnames |-> hosts, related |-> related]

Body(arn, acct, time, zone, changes) ==
  [arn |-> arn, account |-> acct, time |-> time, zone |-> zone, changes |-> changes]

\* A change has addresses of both kinds and one hostname, or private ones only, or
\* lacks the hostname, which the schema of the API allows.
Both(type) == Change(type, <<priv1>>, <<pub2, pub1>>, <<host1>>, <<rel>>)
Changes(type) ==
  {Both(type), Change(type, <<priv1, priv2>>, <<>>, <<>>, <<>>),
   Change(type, <<>>, <<pub1>>, <<>>, <<>>)}

OneHostname ==
  {Body(instance, acct1, time, zone, <<c>>) :
     time \in {2, 4, 6}, zone \in Zones, c \in Changes("ADDED") \cup Changes("deleted")}
  \cup {Body(instance, acct2, 4, 0, <<Both(type)>>) : type \in Types}
  \cup {Body(arn, acct1, 4, 0, <<Both(type)>>) :
          arn \in Arns, type \in {"ADDED", "DELETED"}}
  \cup {Body(instance, acct1, 4, 0, <<d, a>>) :
          d \in Changes("DELETED"), a \in Changes("added")}
  \cup {Body(instance, acct1, 4, 0, <<Both("ADDED"), d>>) : d \in Changes("DELETED")}
=============================================================================
