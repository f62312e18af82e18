-------------------------- MODULE AccountDirectory --------------------------
(***************************************************************************)
(* What DB.StoreAccountOwner promises: a request replaces the owner and    *)
(* the champions of its account and updates the persons it names, in one   *)
(* atomic step, or it changes nothing.  No two persons share an e-mail.    *)
(***************************************************************************)
EXTENDS Integers, Sequences

CONSTANTS
  Txn,      \* the calls of StoreAccountOwner
  Account, Login, Email, Name,
  Request,  \* the requests a client may send
  NULL

Details == [email : Email, name : Name]
Entry == [login : Login, details : Details]

VARIABLES
  person,     \* person[l]: the details of l, NULL when l is unknown
  accounts,   \* the accounts that are known
  owner,      \* owner[a]: the login of the owner of a, or NULL
  champions,  \* champions[a]: the logins of the champions of a
  accepted    \* accepted[t]: the request that call t stored, or NULL

vars == <<person, accounts, owner, champions, accepted>>

\* The persons of a request in the order in which they are stored.
Persons(q) == <<q.owner>> \o q.champions

\* Where a request says last what it has to say of l.
Mentions(q, l) == {i \in 1..Len(Persons(q)) : Persons(q)[i].login = l}
LastMention(q, l) ==
  CHOOSE i \in Mentions(q, l) : \A j \in Mentions(q, l) : j <= i

Champions(q) == {q.champions[i].login : i \in 1..Len(q.champions)}

EmailsDiffer(directory) ==
  \A k, l \in Login :
    k # l /\ directory[k] # NULL /\ directory[l] # NULL =>
      directory[k].email # directory[l].email

Init ==
  /\ person = [l \in Login |-> NULL]
  /\ accounts = {}
  /\ owner = [a \in Account |-> NULL]
  /\ champions = [a \in Account |-> {}]
  /\ accepted = [t \in Txn |-> NULL]

Accept(t, q) ==
  /\ accepted[t] = NULL
  /\ accepted' = [accepted EXCEPT ![t] = q]
  /\ person' = [l \in Login |-> IF Mentions(q, l) = {}
                                THEN person[l]
                                ELSE Persons(q)[LastMention(q, l)].details]
  /\ EmailsDiffer(person')
  /\ accounts' = accounts \cup {q.account}
  /\ owner' = [owner EXCEPT ![q.account] = q.owner.login]
  /\ champions' = [champions EXCEPT ![q.account] = Champions(q)]

Next == \E t \in Txn : \E q \in Request : Accept(t, q)

Spec == Init /\ [][Next]_vars
=============================================================================
