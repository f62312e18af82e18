-------------------------- MODULE MCAccountOwners --------------------------
(***************************************************************************)
(* Instances of AccountOwners for TLC.                                     *)
(***************************************************************************)
EXTENDS AccountOwners

CONSTANTS t1, t2, t3, a1, a2, p1, p2, p3, e1, e2, e3

Three == {t1, t2, t3}

Accounts == {a1, a2}
Logins   == {p1, p2, p3}
Emails   == {e1, e2, e3}

Person(l, e, name) == [login |-> l, details |-> [email |-> e, name |-> name]]
Owns(a, p, champs) == [account |-> a, owner |-> p, champions |-> champs]

\* Requests that lock the same persons in opposite orders, replace the owner
\* and the champions of one account, move an e-mail from one login to another,
\* and name a person twice.
Requests ==
  {Owns(a1, Person(p1, e1, 1), <<Person(p2, e2, 1), Person(p1, e1, 2)>>),
   Owns(a1, Person(p2, e2, 2), <<Person(p1, e3, 2)>>),
   Owns(a2, Person(p3, e1, 3), <<>>)}
=============================================================================
