------------------------ MODULE ReplicaReadsProofs ------------------------
(***************************************************************************)
(* Proofs about ReplicaReads, for any number of processes, subjects and    *)
(* events, any lag of the replica and any outages.                         *)
(***************************************************************************)
EXTENDS ReplicaReads, EventDeliveryProofs, FiniteSetTheorems

\* What the replica will have when it has replayed the events before the k-th of those
\* that are pending.
WillHave(have, queue, k, s, i) == i \in have[s] \/ \E j \in 1..(k - 1) : queue[j] = <<s, i>>

\* The k-th of the pending events is to be replayed as EventDelivery allows: delivered
\* in order, or sent again as a client may.
Replayable(have, queue, k, s, i) ==
  /\ ~WillHave(have, queue, k, s, i) =>
       /\ i <= happened[s]
       /\ \A j \in 1..(i - 1) : WillHave(have, queue, k, s, j) \/ MayOvertake(i, j)
  /\ WillHave(have, queue, k, s, i) =>
       LateResends \/ (~IsRelease(i) /\ ~WillHave(have, queue, k, s, i + 1))

InReplayOrder ==
  \A k \in 1..Len(pending), s \in Subject, i \in Event :
    pending[k] = <<s, i>> => Replayable(known, pending, k, s, i)

\* When all is replayed, the replica has what the primary has.
NothingIsLost ==
  \A s \in Subject, i \in Nat :
    i \in delivered[s] <=> WillHave(known, pending, Len(pending) + 1, s, i)

\* The pending events of s that the replica will have a second time then, each at its
\* place among all that were stored.
Replayed == accepted - Len(pending)
Again(s) ==
  {m \in (Replayed + 1)..accepted :
     \E i \in Event : /\ pending[m - Replayed] = <<s, i>>
                      /\ WillHave(known, pending, m - Replayed, s, i)}

RepeatsCounted ==
  \A s \in Subject : reknown[s] + Cardinality(Again(s)) = resent[s]

\* No lookup has met more than its storage has.
ShownIsThere ==
  \A p \in Process : Serving(p) =>
    shown[p] <= IF lookups[p] = "replica" THEN Replayed ELSE accepted

Parts ==
  /\ Replayed \in Nat
  /\ InReplayOrder /\ NothingIsLost /\ RepeatsCounted /\ ShownIsThere

IInv == TypeOK /\ ReadsTypeOK /\ Parts

-----------------------------------------------------------------------------
Queues == Seq(Subject \X Event)

\* A queue with an event more, and one with an event less that the replica has got.
LEMMA Appended ==
  ASSUME NEW have, NEW queue \in Queues, NEW e \in Subject \X Event, NEW k \in Nat,
         k <= Len(queue) + 1, NEW s, NEW i
  PROVE  /\ WillHave(have, Append(queue, e), k, s, i) <=> WillHave(have, queue, k, s, i)
         /\ WillHave(have, Append(queue, e), Len(queue) + 2, s, i)
              <=> WillHave(have, queue, Len(queue) + 1, s, i) \/ e = <<s, i>>
<1> DEFINE longer == Append(queue, e)
<1>1. /\ Len(queue) \in Nat /\ longer[Len(queue) + 1] = e
      /\ \A j \in 1..Len(queue) : longer[j] = queue[j]
  BY DEF Queues
<1>2. \A j \in 1..(k - 1) : j \in 1..Len(queue)
  BY <1>1
<1>3. WillHave(have, longer, k, s, i) <=> WillHave(have, queue, k, s, i)
  BY <1>1, <1>2 DEF WillHave
<1>4. 1..((Len(queue) + 2) - 1) = 1..((Len(queue) + 1) - 1) \cup {Len(queue) + 1}
  BY <1>1
<1>5. \A j \in 1..((Len(queue) + 1) - 1) : longer[j] = queue[j]
  BY <1>1
<1>6. WillHave(have, longer, Len(queue) + 2, s, i)
        <=> WillHave(have, queue, Len(queue) + 1, s, i) \/ e = <<s, i>>
  BY <1>1, <1>4, <1>5 DEF WillHave
<1> QED BY <1>3, <1>6

LEMMA Taken ==
  ASSUME NEW have \in Histories, NEW queue \in Queues, queue # <<>>,
         NEW u \in Subject, NEW n \in Event, Head(queue) = <<u, n>>,
         NEW k \in Nat, k # 0, k <= Len(queue), NEW s \in Subject, NEW i
  PROVE  WillHave([have EXCEPT ![u] = @ \cup {n}], Tail(queue), k, s, i)
           <=> WillHave(have, queue, k + 1, s, i)
<1> DEFINE more == [have EXCEPT ![u] = @ \cup {n}]
<1>1. /\ Len(queue) \in Nat /\ queue[1] = <<u, n>>
      /\ \A j \in 1..(Len(queue) - 1) : Tail(queue)[j] = queue[j + 1]
  BY DEF Queues
<1>2. i \in more[s] <=> i \in have[s] \/ queue[1] = <<s, i>>
  BY <1>1 DEF Histories
<1>3. ASSUME WillHave(more, Tail(queue), k, s, i) PROVE WillHave(have, queue, k + 1, s, i)
  <2>1. CASE i \in more[s]
    BY <1>2, <2>1 DEF WillHave
  <2>2. ASSUME NEW j \in 1..(k - 1), Tail(queue)[j] = <<s, i>>
        PROVE  WillHave(have, queue, k + 1, s, i)
    <3>1. j + 1 \in 1..((k + 1) - 1) /\ queue[j + 1] = <<s, i>>
      BY <1>1, <2>2
    <3> QED BY <3>1 DEF WillHave
  <2> QED BY <1>3, <2>1, <2>2 DEF WillHave
<1>4. ASSUME WillHave(have, queue, k + 1, s, i) PROVE WillHave(more, Tail(queue), k, s, i)
  <2>1. CASE i \in have[s] \/ queue[1] = <<s, i>>
    BY <1>2, <2>1 DEF WillHave
  <2>2. ASSUME NEW j \in 1..((k + 1) - 1), j # 1, queue[j] = <<s, i>>
        PROVE  WillHave(more, Tail(queue), k, s, i)
    <3>1. j - 1 \in 1..(k - 1) /\ Tail(queue)[j - 1] = queue[j]
      BY <1>1, <2>2
    <3> QED BY <2>2, <3>1 DEF WillHave
  <2> QED BY <1>4, <2>1, <2>2 DEF WillHave
<1> QED BY <1>3, <1>4

LEMMA QueueParts ==
  ASSUME IInv
  PROVE  /\ pending \in Queues /\ Len(pending) \in Nat /\ accepted \in Nat
         /\ Replayed \in Nat /\ Replayed + Len(pending) = accepted
         /\ known \in Histories /\ delivered \in Histories
         /\ happened \in [Subject -> 0..(2 * Cycles)]
         /\ reknown \in [Subject -> 0..MaxResends] /\ resent \in [Subject -> 0..MaxResends]
         /\ \A s \in Subject : IsFiniteSet(Again(s)) /\ Cardinality(Again(s)) \in Nat
<1>1. /\ pending \in Queues /\ Len(pending) \in Nat /\ accepted \in Nat
      /\ Replayed \in Nat /\ Replayed + Len(pending) = accepted
  BY DEF IInv, ReadsTypeOK, Parts, Queues, Replayed
<1>2. \A s \in Subject : IsFiniteSet(Again(s))
  <2> SUFFICES ASSUME NEW s \in Subject PROVE IsFiniteSet(Again(s))
    OBVIOUS
  <2>1. IsFiniteSet((Replayed + 1)..accepted)
    BY <1>1, FS_Interval
  <2>2. Again(s) \subseteq (Replayed + 1)..accepted
    BY DEF Again
  <2> QED BY <2>1, <2>2, FS_Subset
<1> QED BY <1>1, <1>2, FS_CardinalityType DEF IInv, TypeOK, ReadsTypeOK, Histories

-----------------------------------------------------------------------------
(***************************************************************************)
(* A change that is stored on the primary.                                 *)
(***************************************************************************)
\* What Insert does to the primary, one way or the other.
LEMMA InsertParts ==
  ASSUME IInv, NEW p \in Process, NEW s \in Subject, NEW i \in Event, Insert(p, s, i)
  PROVE  /\ pending' = Append(pending, <<s, i>>) /\ accepted' = accepted + 1
         /\ Len(pending') = Len(pending) + 1 /\ Replayed' = Replayed
         /\ pending'[Len(pending) + 1] = <<s, i>>
         /\ \A k \in 1..Len(pending) : pending'[k] = pending[k]
         /\ delivered' = [delivered EXCEPT ![s] = @ \cup {i}]
         /\ resent' = IF i \in delivered[s] THEN [resent EXCEPT ![s] = @ + 1] ELSE resent
         /\ UNCHANGED <<happened, known, reknown, lookups, shown>>
<1>1. pending \in Queues /\ Len(pending) \in Nat /\ accepted \in Nat
  BY QueueParts
<1>2. pending' = Append(pending, <<s, i>>) /\ accepted' = accepted + 1
  BY DEF Insert
<1>3. /\ Len(pending') = Len(pending) + 1 /\ pending'[Len(pending) + 1] = <<s, i>>
      /\ \A k \in 1..Len(pending) : pending'[k] = pending[k]
  BY <1>1, <1>2 DEF Queues
<1>4. Replayed' = Replayed
  BY <1>1, <1>2, <1>3 DEF Replayed
<1>5. /\ delivered' = [delivered EXCEPT ![s] = @ \cup {i}]
      /\ resent' = IF i \in delivered[s] THEN [resent EXCEPT ![s] = @ + 1] ELSE resent
      /\ happened' = happened
  <2>1. CASE Deliver(s, i)
    BY <2>1 DEF Deliver
  <2>2. CASE Resend(s, i)
    <3>1. delivered[s] \cup {i} = delivered[s]
      BY <2>2 DEF Resend
    <3> QED BY <2>2, <3>1, QueueParts DEF Resend, Histories
  <2> QED BY <2>1, <2>2 DEF Insert
<1> QED BY <1>2, <1>3, <1>4, <1>5 DEF Insert, replicaVars, processVars

LEMMA InsertKeepsOrder ==
  ASSUME IInv, NEW p \in Process, NEW s \in Subject, NEW i \in Event, Insert(p, s, i)
  PROVE  InReplayOrder'
<1> DEFINE end == Len(pending) + 1
<1>1. pending \in Queues /\ Len(pending) \in Nat
  BY QueueParts
<1>2. /\ pending' = Append(pending, <<s, i>>) /\ Len(pending') = end
      /\ pending'[end] = <<s, i>> /\ \A k \in 1..Len(pending) : pending'[k] = pending[k]
      /\ happened' = happened /\ known' = known
  BY InsertParts
<1>3. \A k \in 1..end : \A u, n :
        WillHave(known', pending', k, u, n) <=> WillHave(known, pending, k, u, n)
  <2> SUFFICES ASSUME NEW k \in 1..end, NEW u, NEW n
               PROVE  WillHave(known', pending', k, u, n) <=> WillHave(known, pending, k, u, n)
    OBVIOUS
  <2>1. k \in Nat /\ k <= Len(pending) + 1 /\ <<s, i>> \in Subject \X Event
    BY <1>1
  <2> QED BY <1>1, <1>2, <2>1, Appended
<1> SUFFICES ASSUME NEW k \in 1..end, NEW u \in Subject, NEW n \in Event,
                    pending'[k] = <<u, n>>
             PROVE  Replayable(known, pending, k, u, n)
  BY <1>2, <1>3 DEF InReplayOrder, Replayable, MayOvertake
<1>4. CASE k # end
  <2>1. k \in 1..Len(pending)
    BY <1>1, <1>4
  <2> QED BY <1>2, <2>1 DEF IInv, Parts, InReplayOrder
<1>5. CASE k = end
  <2>1. u = s /\ n = i /\ i \in Nat
    BY <1>2, <1>5, EventIsNat
  <2>2. \A j \in Nat : j \in delivered[s] <=> WillHave(known, pending, k, s, j)
    BY <1>5 DEF IInv, Parts, NothingIsLost
  <2>3. i + 1 \in Nat /\ \A j \in 1..(i - 1) : j \in Nat
    BY <2>1
  <2>4. CASE Deliver(s, i)
    BY <2>1, <2>2, <2>3, <2>4 DEF Deliver, Replayable
  <2>5. CASE Resend(s, i)
    BY <2>1, <2>2, <2>3, <2>5 DEF Resend, MayResend, Replayable
  <2> QED BY <2>4, <2>5 DEF Insert
<1> QED BY <1>4, <1>5

LEMMA InsertLosesNothing ==
  ASSUME IInv, NEW p \in Process, NEW s \in Subject, NEW i \in Event, Insert(p, s, i)
  PROVE  NothingIsLost'
<1> SUFFICES ASSUME NEW u \in Subject, NEW n \in Nat
             PROVE  n \in delivered'[u] <=> WillHave(known', pending', Len(pending') + 1, u, n)
  BY DEF NothingIsLost
<1>1. /\ pending \in Queues /\ Len(pending) \in Nat /\ delivered \in Histories
      /\ <<s, i>> \in Subject \X Event /\ Len(pending) + 1 \in Nat
  BY QueueParts
<1>2. /\ pending' = Append(pending, <<s, i>>) /\ Len(pending') + 1 = Len(pending) + 2
      /\ delivered' = [delivered EXCEPT ![s] = @ \cup {i}] /\ known' = known
  BY <1>1, InsertParts
<1>3. WillHave(known, Append(pending, <<s, i>>), Len(pending) + 2, u, n)
        <=> WillHave(known, pending, Len(pending) + 1, u, n) \/ <<s, i>> = <<u, n>>
  BY <1>1, Appended
<1>4. n \in delivered[u] <=> WillHave(known, pending, Len(pending) + 1, u, n)
  BY DEF IInv, Parts, NothingIsLost
<1> QED BY <1>1, <1>2, <1>3, <1>4 DEF Histories

LEMMA InsertCountsRepeats ==
  ASSUME IInv, NEW p \in Process, NEW s \in Subject, NEW i \in Event, Insert(p, s, i)
  PROVE  RepeatsCounted'
<1>1. /\ pending \in Queues /\ Len(pending) \in Nat /\ accepted \in Nat
      /\ Replayed \in Nat /\ Replayed + Len(pending) = accepted
  BY QueueParts
<1>2. /\ pending' = Append(pending, <<s, i>>) /\ accepted' = accepted + 1
      /\ Replayed' = Replayed /\ known' = known /\ reknown' = reknown
      /\ pending'[Len(pending) + 1] = <<s, i>>
      /\ \A k \in 1..Len(pending) : pending'[k] = pending[k]
  BY InsertParts
<1>3. \A k \in 1..(Len(pending) + 1) : \A u, n :
        WillHave(known', pending', k, u, n) <=> WillHave(known, pending, k, u, n)
  <2> SUFFICES ASSUME NEW k \in 1..(Len(pending) + 1), NEW u, NEW n
               PROVE  WillHave(known', pending', k, u, n) <=> WillHave(known, pending, k, u, n)
    OBVIOUS
  <2>1. k \in Nat /\ k <= Len(pending) + 1 /\ <<s, i>> \in Subject \X Event
    BY <1>1
  <2> QED BY <1>1, <1>2, <2>1, Appended
<1>4. i \in delivered[s] <=> WillHave(known, pending, Len(pending) + 1, s, i)
  BY EventIsNat DEF IInv, Parts, NothingIsLost
<1> SUFFICES ASSUME NEW u \in Subject
             PROVE  reknown'[u] + Cardinality(Again(u)') = resent'[u]
  BY DEF RepeatsCounted
<1>5. reknown[u] + Cardinality(Again(u)) = resent[u] /\ IsFiniteSet(Again(u))
        /\ Cardinality(Again(u)) \in Nat /\ accepted + 1 \notin Again(u)
        /\ reknown[u] \in Nat
  <2>1. reknown[u] + Cardinality(Again(u)) = resent[u]
    BY DEF IInv, Parts, RepeatsCounted
  <2>2. accepted + 1 \notin Again(u)
    BY <1>1 DEF Again
  <2> QED BY <2>1, <2>2, QueueParts, DeliveryAssumption
<1>6. \A m \in (Replayed + 1)..accepted : m \in Again(u)' <=> m \in Again(u)
  <2> SUFFICES ASSUME NEW m \in (Replayed + 1)..accepted PROVE m \in Again(u)' <=> m \in Again(u)
    OBVIOUS
  <2>1. /\ m \in (Replayed + 1)..(accepted + 1)
        /\ m - Replayed \in 1..Len(pending) /\ m - Replayed \in 1..(Len(pending) + 1)
    BY <1>1
  <2> QED BY <1>2, <1>3, <2>1 DEF Again
<1>7. accepted + 1 \in Again(u)' <=> u = s /\ i \in delivered[s]
  <2>1. /\ (accepted + 1) - Replayed = Len(pending) + 1
        /\ accepted + 1 \in (Replayed + 1)..(accepted + 1)
        /\ Len(pending) + 1 \in 1..(Len(pending) + 1)
    BY <1>1
  <2>2. accepted + 1 \in Again(u)'
          <=> \E n \in Event : /\ <<s, i>> = <<u, n>>
                               /\ WillHave(known, pending, Len(pending) + 1, u, n)
    BY <1>2, <1>3, <2>1 DEF Again
  <2> QED BY <1>4, <2>2
<1>8. Again(u)' \subseteq ((Replayed + 1)..accepted) \cup {accepted + 1}
        /\ Again(u) \subseteq (Replayed + 1)..accepted
  BY <1>1, <1>2 DEF Again
<1>9. CASE u = s /\ i \in delivered[s]
  <2>1. Again(u)' = Again(u) \cup {accepted + 1}
    BY <1>6, <1>7, <1>8, <1>9
  <2>2. Cardinality(Again(u)') = Cardinality(Again(u)) + 1
    BY <1>5, <2>1, FS_AddElement
  <2>3. resent'[u] = resent[u] + 1
    BY <1>9, InsertParts, QueueParts
  <2> QED BY <1>2, <1>5, <2>2, <2>3
<1>10. CASE ~(u = s /\ i \in delivered[s])
  <2>1. Again(u)' = Again(u)
    BY <1>6, <1>7, <1>8, <1>10
  <2>2. resent'[u] = resent[u]
    BY <1>10, InsertParts, QueueParts
  <2> QED BY <1>2, <1>5, <2>1, <2>2
<1> QED BY <1>9, <1>10

LEMMA InsertKeeps ==
  ASSUME IInv, NEW p \in Process, NEW s \in Subject, NEW i \in Event, Insert(p, s, i)
  PROVE  Parts'
<1>1. (Replayed \in Nat)' /\ ShownIsThere'
  BY InsertParts, QueueParts DEF IInv, ReadsTypeOK, Parts, ShownIsThere, Serving
<1> QED BY <1>1, InsertKeepsOrder, InsertLosesNothing, InsertCountsRepeats DEF Parts

-----------------------------------------------------------------------------
(***************************************************************************)
(* A change that is replayed.                                              *)
(***************************************************************************)
\* Replay takes the first of the pending events, whose subject is s.
Replays(s, i) == Replay /\ Head(pending) = <<s, i>>

LEMMA ReplayParts ==
  ASSUME IInv, NEW s \in Subject, NEW i \in Event, Replays(s, i)
  PROVE  /\ pending # <<>> /\ pending[1] = <<s, i>> /\ pending' = Tail(pending)
         /\ Len(pending) # 0 /\ Len(pending') = Len(pending) - 1
         /\ Replayed' = Replayed + 1
         /\ \A k \in 1..(Len(pending) - 1) : pending'[k] = pending[k + 1]
         /\ known' = [known EXCEPT ![s] = @ \cup {i}]
         /\ reknown' = IF i \in known[s] THEN [reknown EXCEPT ![s] = @ + 1] ELSE reknown
         /\ copy' = Apply(copy, EventOp(s, i), EventTime(i))
         /\ UNCHANGED <<rows, happened, delivered, resent, accepted, lookups, shown>>
<1>1. pending \in Queues /\ Len(pending) \in Nat /\ accepted \in Nat /\ known \in Histories
  BY QueueParts
<1>2. /\ pending # <<>> /\ pending' = Tail(pending) /\ Head(pending) = <<s, i>>
      /\ UNCHANGED <<rows, happened, delivered, resent, accepted, lookups, shown>>
  BY DEF Replays, Replay, primaryVars, processVars
<1>3. /\ Len(pending) # 0 /\ Len(pending') = Len(pending) - 1 /\ pending[1] = <<s, i>>
      /\ \A k \in 1..(Len(pending) - 1) : pending'[k] = pending[k + 1]
  BY <1>1, <1>2 DEF Queues
<1>4. Replayed' = Replayed + 1
  BY <1>1, <1>2, <1>3 DEF Replayed
<1>5. /\ copy' = Apply(copy, EventOp(s, i), EventTime(i))
      /\ IF i \in known[s]
         THEN reknown' = [reknown EXCEPT ![s] = @ + 1] /\ known' = known
         ELSE known' = [known EXCEPT ![s] = @ \cup {i}] /\ reknown' = reknown
  BY <1>2 DEF Replays, Replay
<1>6. i \in known[s] => known = [known EXCEPT ![s] = @ \cup {i}]
  <2>1. i \in known[s] => known[s] \cup {i} = known[s]
    OBVIOUS
  <2> QED BY <1>1, <2>1 DEF Histories
<1> QED BY <1>2, <1>3, <1>4, <1>5, <1>6

\* What the replica will have does not change with a replay.
LEMMA ReplayShifts ==
  ASSUME IInv, NEW s \in Subject, NEW i \in Event, Replays(s, i),
         NEW k \in 1..Len(pending), NEW u \in Subject, NEW n
  PROVE  WillHave(known', pending', k, u, n) <=> WillHave(known, pending, k + 1, u, n)
<1>1. /\ pending \in Queues /\ Len(pending) \in Nat /\ known \in Histories
      /\ k \in Nat /\ k # 0 /\ k <= Len(pending)
  BY QueueParts
<1>2. pending # <<>> /\ Head(pending) = <<s, i>> /\ pending' = Tail(pending)
        /\ known' = [known EXCEPT ![s] = @ \cup {i}]
  BY ReplayParts DEF Replays
<1> QED BY <1>1, <1>2, Taken

LEMMA ReplayKeepsOrder ==
  ASSUME IInv, NEW s \in Subject, NEW i \in Event, Replays(s, i)
  PROVE  InReplayOrder' /\ NothingIsLost'
<1>1. Len(pending) \in Nat /\ Len(pending) # 0 /\ Len(pending') = Len(pending) - 1
        /\ UNCHANGED <<happened, delivered>>
        /\ \A k \in 1..(Len(pending) - 1) : pending'[k] = pending[k + 1]
  BY QueueParts, ReplayParts
<1>2. ASSUME NEW k \in 1..Len(pending'), NEW u \in Subject, NEW n \in Event,
             pending'[k] = <<u, n>>
      PROVE  Replayable(known, pending, k, u, n)'
  <2>1. k \in 1..Len(pending) /\ k + 1 \in 1..Len(pending) /\ pending[k + 1] = <<u, n>>
    BY <1>1, <1>2
  <2>2. Replayable(known, pending, k + 1, u, n)
    BY <2>1 DEF IInv, Parts, InReplayOrder
  <2>3. \A j : WillHave(known', pending', k, u, j) <=> WillHave(known, pending, k + 1, u, j)
    BY <2>1, ReplayShifts
  <2> QED BY <1>1, <2>2, <2>3 DEF Replayable, MayOvertake
<1>3. ASSUME NEW u \in Subject, NEW n \in Nat
      PROVE  n \in delivered'[u] <=> WillHave(known', pending', Len(pending') + 1, u, n)
  <2>1. Len(pending) \in 1..Len(pending) /\ Len(pending') + 1 = Len(pending)
    BY <1>1
  <2>2. n \in delivered[u] <=> WillHave(known, pending, Len(pending) + 1, u, n)
    BY DEF IInv, Parts, NothingIsLost
  <2> QED BY <1>1, <2>1, <2>2, ReplayShifts
<1> QED BY <1>2, <1>3 DEF InReplayOrder, NothingIsLost, Replayable, MayOvertake

LEMMA ReplayCountsRepeats ==
  ASSUME IInv, NEW s \in Subject, NEW i \in Event, Replays(s, i)
  PROVE  RepeatsCounted' /\ (i \in known[s] => reknown[s] < resent[s])
<1>1. /\ Len(pending) \in Nat /\ accepted \in Nat /\ Len(pending) # 0
      /\ Replayed \in Nat /\ Replayed + Len(pending) = accepted
      /\ Replayed' = Replayed + 1 /\ accepted' = accepted
      /\ pending[1] = <<s, i>>
      /\ \A k \in 1..(Len(pending) - 1) : pending'[k] = pending[k + 1]
  BY QueueParts, ReplayParts
<1>2. \A u \in Subject : /\ reknown[u] + Cardinality(Again(u)) = resent[u]
                         /\ IsFiniteSet(Again(u)) /\ Cardinality(Again(u)) \in Nat
                         /\ reknown[u] \in Nat
  BY QueueParts, DeliveryAssumption DEF IInv, Parts, RepeatsCounted
<1>3. \A u \in Subject : Replayed + 1 \in Again(u) <=> u = s /\ i \in known[s]
  <2> SUFFICES ASSUME NEW u \in Subject
               PROVE  Replayed + 1 \in Again(u) <=> u = s /\ i \in known[s]
    OBVIOUS
  <2>1. Replayed + 1 \in (Replayed + 1)..accepted /\ (Replayed + 1) - Replayed = 1
    BY <1>1
  <2>2. \A n \in Event : WillHave(known, pending, 1, u, n) <=> n \in known[u]
    BY DEF WillHave
  <2> QED BY <1>1, <2>1, <2>2 DEF Again
<1>4. \A u \in Subject : Again(u)' = Again(u) \ {Replayed + 1}
  <2> SUFFICES ASSUME NEW u \in Subject PROVE Again(u)' = Again(u) \ {Replayed + 1}
    OBVIOUS
  <2>1. \A m \in (Replayed + 2)..accepted : m \in Again(u)' <=> m \in Again(u)
    <3> SUFFICES ASSUME NEW m \in (Replayed + 2)..accepted
                 PROVE  m \in Again(u)' <=> m \in Again(u)
      OBVIOUS
    <3> DEFINE k == m - (Replayed + 1)
    <3>1. /\ k \in 1..Len(pending) /\ k \in 1..(Len(pending) - 1) /\ m - Replayed = k + 1
          /\ m \in ((Replayed + 1) + 1)..accepted /\ m \in (Replayed + 1)..accepted
      BY <1>1
    <3>2. \A n : WillHave(known', pending', k, u, n) <=> WillHave(known, pending, k + 1, u, n)
      BY <3>1, ReplayShifts
    <3>3. pending'[k] = pending[k + 1]
      BY <1>1, <3>1
    <3>4. m \in Again(u)' <=> \E n \in Event : /\ pending'[k] = <<u, n>>
                                               /\ WillHave(known', pending', k, u, n)
      BY <1>1, <3>1 DEF Again
    <3>5. m \in Again(u) <=> \E n \in Event : /\ pending[k + 1] = <<u, n>>
                                              /\ WillHave(known, pending, k + 1, u, n)
      BY <3>1 DEF Again
    <3> QED BY <3>2, <3>3, <3>4, <3>5
  <2>2. Again(u)' \subseteq (Replayed + 2)..accepted
    <3>1. Again(u)' \subseteq (Replayed' + 1)..accepted'
      BY DEF Again
    <3>2. (Replayed + 1) + 1 = Replayed + 2
      BY <1>1
    <3> QED BY <1>1, <3>1, <3>2
  <2>3. Again(u) \subseteq (Replayed + 1)..accepted
    BY DEF Again
  <2>4. (Replayed + 1)..accepted = {Replayed + 1} \cup (Replayed + 2)..accepted
          /\ Replayed + 1 \notin (Replayed + 2)..accepted
    BY <1>1
  <2> QED BY <2>1, <2>2, <2>3, <2>4
<1>5. ASSUME i \in known[s] PROVE Cardinality(Again(s)) > 0
  BY <1>2, <1>3, <1>5, FS_EmptySet
<1>6. \A u \in Subject : reknown'[u] + Cardinality(Again(u)') = resent'[u]
  <2> SUFFICES ASSUME NEW u \in Subject
               PROVE  reknown'[u] + Cardinality(Again(u)') = resent'[u]
    OBVIOUS
  <2>1. resent' = resent
    BY ReplayParts
  <2>2. CASE u = s /\ i \in known[s]
    <3>1. Cardinality(Again(u)') = Cardinality(Again(u)) - 1
      BY <1>2, <1>3, <1>4, <2>2, FS_RemoveElement
    <3>2. reknown'[u] = reknown[u] + 1
      BY <2>2, ReplayParts, QueueParts
    <3> QED BY <1>2, <2>1, <3>1, <3>2
  <2>3. CASE ~(u = s /\ i \in known[s])
    <3>1. Again(u)' = Again(u)
      BY <1>3, <1>4, <2>3
    <3>2. reknown'[u] = reknown[u]
      BY <2>3, ReplayParts, QueueParts
    <3> QED BY <1>2, <2>1, <3>1, <3>2
  <2> QED BY <2>2, <2>3
<1>7. i \in known[s] => reknown[s] < resent[s]
  <2>1. \A a, b, c \in Nat : a + b = c /\ b > 0 => a < c
    OBVIOUS
  <2>2. resent[s] \in Nat
    BY QueueParts, DeliveryAssumption
  <2> QED BY <1>2, <1>5, <2>1, <2>2
<1> QED BY <1>6, <1>7 DEF RepeatsCounted

LEMMA ReplayKeeps ==
  ASSUME IInv, NEW s \in Subject, NEW i \in Event, Replays(s, i)
  PROVE  Parts'
<1>1. (Replayed \in Nat)'
  BY ReplayParts, QueueParts
<1>2. ShownIsThere'
  <2>1. /\ Replayed' = Replayed + 1 /\ Replayed \in Nat /\ accepted' = accepted
        /\ UNCHANGED <<lookups, shown>> /\ shown \in [Process -> Nat]
    BY ReplayParts, QueueParts DEF IInv, ReadsTypeOK
  <2>2. \A p \in Process : shown[p] <= Replayed => shown[p] <= Replayed + 1
    BY <2>1
  <2> QED BY <2>1, <2>2 DEF IInv, Parts, ShownIsThere, Serving
<1> QED BY <1>1, <1>2, ReplayKeepsOrder, ReplayCountsRepeats DEF Parts

LEMMA ReplayReplays ==
  ASSUME IInv, Replay
  PROVE  \E s \in Subject : \E i \in Event : Replays(s, i)
<1>1. pending \in Queues /\ pending # <<>>
  BY QueueParts DEF Replay
<1>2. Head(pending) \in Subject \X Event
  BY <1>1 DEF Queues
<1>3. PICK s \in Subject, i \in Event : Head(pending) = <<s, i>>
  BY <1>2
<1> QED BY <1>3 DEF Replays

-----------------------------------------------------------------------------
(***************************************************************************)
(* The other steps, and the invariant.                                     *)
(***************************************************************************)
LEMMA OthersKeep ==
  ASSUME IInv, UNCHANGED <<pending, accepted, known, reknown, delivered, resent>>,
         \A s \in Subject : happened[s] <= happened'[s],
         happened' \in [Subject -> 0..(2 * Cycles)], ShownIsThere'
  PROVE  Parts'
<1>1. (Replayed \in Nat)' /\ NothingIsLost' /\ RepeatsCounted'
  BY DEF IInv, Parts, Replayed, NothingIsLost, RepeatsCounted, Again, WillHave
<1>2. InReplayOrder'
  <2> SUFFICES ASSUME NEW k \in 1..Len(pending), NEW s \in Subject, NEW i \in Event,
                      Replayable(known, pending, k, s, i)
               PROVE  Replayable(known, pending, k, s, i)'
    BY DEF IInv, Parts, InReplayOrder
  <2>1. i <= happened[s] => i <= happened'[s]
    BY EventIsNat, QueueParts, DeliveryAssumption
  <2>2. \A j : WillHave(known', pending', k, s, j) <=> WillHave(known, pending, k, s, j)
    OBVIOUS
  <2> QED BY <2>1, <2>2 DEF Replayable, MayOvertake
<1> QED BY <1>1, <1>2 DEF Parts

LEMMA HappenOutsideKeeps == ASSUME IInv, HappenOutside, TypeOK' PROVE Parts'
<1>1. PICK s \in Subject : Happen(s)
  BY DEF HappenOutside
<1>2. \A u \in Subject : happened[u] <= happened'[u]
  BY <1>1, QueueParts, DeliveryAssumption DEF Happen
<1>3. UNCHANGED <<pending, accepted, known, reknown, delivered, resent, lookups, shown>>
  BY <1>1 DEF HappenOutside, Happen, replicaVars, processVars
<1>4. ShownIsThere'
  BY <1>3 DEF IInv, Parts, ShownIsThere, Serving, Replayed
<1> QED BY <1>2, <1>3, <1>4, OthersKeep DEF TypeOK

LEMMA ShownKeeps ==
  ASSUME IInv, UNCHANGED <<primaryVars, pending, accepted, replicaVars>>, ShownIsThere'
  PROVE  Parts'
<1>1. \A s \in Subject : happened[s] <= happened'[s]
  BY QueueParts, DeliveryAssumption DEF primaryVars
<1> QED BY <1>1, OthersKeep, QueueParts DEF primaryVars, replicaVars

LEMMA StartKeeps == ASSUME IInv, NEW p \in Process, Start(p) PROVE Parts'
<1>1. ShownIsThere'
  <2>1. /\ UNCHANGED <<accepted, pending>> /\ accepted \in Nat /\ Replayed \in Nat
        /\ lookups \in [Process -> {"primary", "replica", NULL}]
        /\ shown' = [shown EXCEPT ![p] = 0] /\ shown \in [Process -> Nat]
        /\ \E storage : lookups' = [lookups EXCEPT ![p] = storage]
    BY QueueParts DEF Start, IInv, ReadsTypeOK
  <2> QED BY <2>1 DEF IInv, Parts, ShownIsThere, Serving, Replayed
<1> QED BY <1>1, ShownKeeps DEF Start

LEMMA StopKeeps == ASSUME IInv, NEW p \in Process, Stop(p) PROVE Parts'
<1>1. ShownIsThere'
  BY DEF Stop, IInv, ReadsTypeOK, Parts, ShownIsThere, Serving, Replayed
<1> QED BY <1>1, ShownKeeps DEF Stop

LEMMA LookupKeeps == ASSUME IInv, NEW p \in Process, Lookup(p) PROVE Parts'
<1>1. ShownIsThere'
  <2>1. /\ UNCHANGED <<accepted, pending, lookups>> /\ accepted \in Nat /\ Replayed \in Nat
        /\ shown' = [shown EXCEPT ![p] = IF lookups[p] = "replica" THEN Replayed ELSE accepted]
        /\ shown \in [Process -> Nat]
    BY QueueParts DEF Lookup, IInv, ReadsTypeOK, Replayed
  <2> QED BY <2>1 DEF IInv, Parts, ShownIsThere, Serving, Replayed
<1> QED BY <1>1, ShownKeeps DEF Lookup

LEMMA ReplicaStateKeeps == ASSUME IInv, ReplicaGoes \/ ReplicaReturns PROVE Parts'
<1>1. UNCHANGED <<primaryVars, pending, accepted, replicaVars, processVars>>
  BY DEF ReplicaGoes, ReplicaReturns
<1>2. ShownIsThere'
  BY <1>1 DEF processVars, IInv, Parts, ShownIsThere, Serving, Replayed
<1> QED BY <1>1, <1>2, ShownKeeps

LEMMA StutterKeeps == ASSUME IInv, UNCHANGED readVars PROVE Parts'
<1>1. UNCHANGED <<primaryVars, pending, accepted, replicaVars, processVars>>
  BY DEF readVars
<1>2. ShownIsThere'
  BY <1>1 DEF processVars, IInv, Parts, ShownIsThere, Serving, Replayed
<1> QED BY <1>1, <1>2, ShownKeeps

LEMMA ReadsTypeKeeps == ASSUME IInv, [ReadNext]_readVars PROVE ReadsTypeOK'
<1> USE ReplicaAssumption, DeliveryAssumption DEF IInv
<1>1. CASE UNCHANGED readVars
  BY <1>1 DEF readVars, replicaVars, processVars, ReadsTypeOK
<1>2. CASE HappenOutside
  BY <1>2 DEF HappenOutside, replicaVars, processVars, ReadsTypeOK
<1>3. ASSUME NEW p \in Process, NEW s \in Subject, NEW i \in Event, Insert(p, s, i)
      PROVE  ReadsTypeOK'
  <2>1. pending' \in Seq(Subject \X Event) /\ Len(pending') <= MaxLag
    BY <1>3 DEF Insert, ReadsTypeOK
  <2> QED BY <1>3, <2>1 DEF Insert, replicaVars, processVars, ReadsTypeOK
<1>4. ASSUME NEW p \in Process, Start(p) PROVE ReadsTypeOK'
  BY <1>4 DEF Start, ReplicaStorage, replicaVars, ReadsTypeOK
<1>5. ASSUME NEW p \in Process, Stop(p) PROVE ReadsTypeOK'
  BY <1>5 DEF Stop, replicaVars, ReadsTypeOK
<1>6. ASSUME NEW p \in Process, Lookup(p) PROVE ReadsTypeOK'
  <2>1. accepted \in Nat /\ accepted - Len(pending) \in Nat
    BY DEF Parts, Replayed, ReadsTypeOK
  <2> QED BY <1>6, <2>1 DEF Lookup, replicaVars, ReadsTypeOK
<1>7. CASE Replay
  <2>1. PICK s \in Subject : \E i \in Event : Replays(s, i)
    BY <1>7, ReplayReplays
  <2>2. PICK i \in Event : Replays(s, i)
    BY <2>1
  <2>3. pending' \in Seq(Subject \X Event) /\ Len(pending') <= MaxLag
    <3>1. pending' = Tail(pending) /\ pending # <<>> /\ Len(pending') = Len(pending) - 1
      BY <2>2, ReplayParts
    <3>2. pending' \in Seq(Subject \X Event)
      BY <3>1, QueueParts DEF Queues
    <3> QED BY <3>1, <3>2, QueueParts DEF ReadsTypeOK
  <2>4. \A row \in copy' : row \in Row
    BY <2>2, ReplayParts, ApplyType, EventParts DEF ReadsTypeOK
  <2>5. known' \in [Subject -> SUBSET Event]
    <3>1. known' = [known EXCEPT ![s] = @ \cup {i}] /\ known \in [Subject -> SUBSET Event]
      BY <2>2, ReplayParts DEF ReadsTypeOK
    <3> QED BY <3>1
  <2>6. reknown' \in [Subject -> 0..MaxResends]
    <3>1. i \in known[s] => reknown[s] + 1 \in 0..MaxResends
      BY <2>2, ReplayCountsRepeats, QueueParts
    <3>2. reknown' = IF i \in known[s] THEN [reknown EXCEPT ![s] = @ + 1] ELSE reknown
      BY <2>2, ReplayParts
    <3> QED BY <3>1, <3>2, QueueParts
  <2> QED BY <1>7, <2>2, <2>3, <2>4, <2>5, <2>6, ReplayParts DEF Replay, ReadsTypeOK
<1>8. CASE ReplicaGoes
  <2>1. outages' \in 0..MaxOutages
    BY <1>8 DEF ReplicaGoes, ReadsTypeOK
  <2> QED BY <1>8, <2>1 DEF ReplicaGoes, replicaVars, processVars, ReadsTypeOK
<1>9. CASE ReplicaReturns
  BY <1>9 DEF ReplicaReturns, replicaVars, processVars, ReadsTypeOK
<1> QED BY <1>1, <1>2, <1>3, <1>4, <1>5, <1>6, <1>7, <1>8, <1>9 DEF ReadNext

LEMMA NextIInv == ASSUME IInv, TypeOK', [ReadNext]_readVars PROVE IInv'
<1> SUFFICES Parts'
  BY ReadsTypeKeeps DEF IInv
<1>1. ASSUME NEW p \in Process, NEW s \in Subject, NEW i \in Event, Insert(p, s, i)
      PROVE  Parts'
  BY <1>1, InsertKeeps
<1>2. CASE Replay
  <2>1. PICK s \in Subject : \E i \in Event : Replays(s, i)
    BY <1>2, ReplayReplays
  <2> QED BY <2>1, ReplayKeeps
<1>3. ASSUME NEW p \in Process, Start(p) \/ Stop(p) \/ Lookup(p) PROVE Parts'
  BY <1>3, StartKeeps, StopKeeps, LookupKeeps
<1>4. CASE HappenOutside
  BY <1>4, HappenOutsideKeeps
<1>5. CASE ReplicaGoes \/ ReplicaReturns
  BY <1>5, ReplicaStateKeeps
<1>6. CASE UNCHANGED readVars
  BY <1>6, StutterKeeps
<1> QED BY <1>1, <1>2, <1>3, <1>4, <1>5, <1>6 DEF ReadNext

LEMMA InitIInv == ASSUME ReadInit PROVE IInv
<1>1. TypeOK
  BY DeliveryAssumption DEF ReadInit, Init, TypeOK, Event
<1>2. ReadsTypeOK
  BY DeliveryAssumption, ReplicaAssumption DEF ReadInit, ReadsTypeOK, Event
<1>3. Len(pending) = 0 /\ Replayed = 0 /\ accepted = 0
  <2>1. accepted = 0
    BY DEF ReadInit
  <2>2. Len(pending) = 0
    BY DEF ReadInit
  <2> QED BY <2>1, <2>2 DEF Replayed
<1>4. InReplayOrder /\ ShownIsThere
  BY <1>3 DEF ReadInit, InReplayOrder, ShownIsThere, Serving
<1>5. NothingIsLost
  BY <1>3 DEF ReadInit, Init, NothingIsLost, WillHave
<1>6. RepeatsCounted
  <2>1. \A s \in Subject : Cardinality(Again(s)) = 0
    <3>1. \A s \in Subject : Again(s) = {}
      BY <1>3 DEF Again
    <3> QED BY <3>1, FS_EmptySet
  <2>2. \A s \in Subject : reknown[s] = 0 /\ resent[s] = 0
    BY DEF ReadInit, Init
  <2>3. \A s \in Subject : reknown[s] + Cardinality(Again(s)) = resent[s]
    <3> SUFFICES ASSUME NEW s \in Subject PROVE reknown[s] + Cardinality(Again(s)) = resent[s]
      OBVIOUS
    <3>1. reknown[s] = 0 /\ Cardinality(Again(s)) = 0 /\ resent[s] = 0
      BY <2>1, <2>2
    <3> QED BY <3>1
  <2> QED BY <2>3 DEF RepeatsCounted
<1> QED BY <1>1, <1>2, <1>3, <1>4, <1>5, <1>6 DEF IInv, Parts

-----------------------------------------------------------------------------
(***************************************************************************)
(* The theorems.                                                           *)
(***************************************************************************)
LEMMA PrimaryStep == ASSUME [ReadNext]_readVars PROVE [Next]_vars
<1>1. ASSUME NEW p \in Process, NEW s \in Subject, NEW i \in Event, Insert(p, s, i)
      PROVE  [Next]_vars
  BY <1>1 DEF Insert, Next
<1>2. CASE HappenOutside
  BY <1>2 DEF HappenOutside, Next
<1>3. CASE UNCHANGED primaryVars
  BY <1>3 DEF primaryVars, vars
<1> QED
  BY <1>1, <1>2, <1>3
  DEF ReadNext, Start, Stop, Lookup, Replay, ReplicaGoes, ReplicaReturns, readVars

\* With a replica and with lookups next to it, what is stored on the primary is stored
\* as EventDelivery has it: the processes, and what their lookups read, make no
\* difference to the changes (main.go gives the insert handler the primary).
THEOREM PrimaryDelivers == ReadSpec => Spec
<1>1. ReadInit => Init
  BY DEF ReadInit
<1> QED BY <1>1, PrimaryStep, PTL DEF ReadSpec, Spec

\* What is proved of the delivery therefore holds next to a replica as well.
THEOREM PrimaryHolds ==
  ASSUME InOrder, SlotsDistinct PROVE ReadSpec => [](LookupExact /\ EpochMeansUnbalanced)
BY PrimaryDelivers, LookupsAreExact, EpochRowsAreUnbalanced, PTL

\* In every state the replica is a prefix of what the primary has stored, and each
\* lookup has shown no more than its storage has.
THEOREM IInvCorrect == ReadSpec => []IInv
<1>1. ReadSpec => []TypeOK
  BY PrimaryDelivers, TypeCorrect, PTL
<1> QED BY <1>1, InitIInv, NextIInv, PTL DEF ReadSpec

\* Every reachable state has the types declared; above all, the replica has no event
\* more often than the primary.
THEOREM ReadsTypeCorrect == ReadSpec => []ReadsTypeOK
BY IInvCorrect, PTL DEF IInv

LEMMA LookupStep ==
  ASSUME IInv, [ReadNext]_readVars, NEW p \in Process, Serving(p), lookups'[p] # NULL
  PROVE  shown'[p] >= shown[p]
<1>1. shown[p] \in Nat /\ Replayed \in Nat /\ accepted \in Nat
        /\ shown[p] <= IF lookups[p] = "replica" THEN Replayed ELSE accepted
  BY QueueParts DEF IInv, ReadsTypeOK, Parts, ShownIsThere
<1>2. ASSUME NEW q \in Process, Start(q) PROVE shown'[p] = shown[p]
  <2>1. q # p
    BY <1>2 DEF Start
  <2> QED BY <1>2, <2>1 DEF Start, IInv, ReadsTypeOK
<1>3. ASSUME NEW q \in Process, Lookup(q) PROVE shown'[p] >= shown[p]
  BY <1>1, <1>3 DEF Lookup, IInv, ReadsTypeOK, Replayed
<1>4. CASE UNCHANGED shown
  BY <1>1, <1>4
<1>5. CASE UNCHANGED processVars
  BY <1>1, <1>5 DEF processVars
<1> QED
  BY <1>1, <1>2, <1>3, <1>4, <1>5
  DEF ReadNext, HappenOutside, Insert, Stop, Replay, ReplicaGoes, ReplicaReturns, readVars

\* The lookups of a process never go back behind what an earlier one has met (main.go
\* chooses their storage once, at the start).
THEOREM LookupsAdvance == ReadSpec => LookupsNeverGoBack
<1>1. IInv /\ [ReadNext]_readVars =>
        [\A p \in Process : Serving(p) /\ lookups'[p] # NULL => shown'[p] >= shown[p]]_readVars
  BY LookupStep
<1> QED BY <1>1, IInvCorrect, PTL DEF ReadSpec, LookupsNeverGoBack

LEMMA ReplicaApply ==
  ASSUME NEW rs, NEW s \in Subject, NEW i \in Event
  PROVE  Replica!Apply(rs, Replica!EventOp(s, i), Replica!EventTime(i))
           = Apply(rs, EventOp(s, i), EventTime(i))
<1>1. Replica!EventOp(s, i) = EventOp(s, i) /\ Replica!EventTime(i) = EventTime(i)
  BY DEF EventOp, EventTime, IsRelease, Replica!EventOp, Replica!EventTime, Replica!IsRelease
<1>2. \A op, when : \A row : Replica!IsTarget(row, op, when) <=> IsTarget(row, op, when)
  BY DEF IsTarget, AssignTarget, ReleaseTarget, EPOCH,
         Replica!IsTarget, Replica!AssignTarget, Replica!ReleaseTarget, Replica!EPOCH
<1>3. \A op, when : /\ Replica!NewRow(op, when) = NewRow(op, when)
                    /\ \A row : Replica!Updated(row, op, when) = Updated(row, op, when)
  BY DEF NewRow, Updated, EPOCH, Replica!NewRow, Replica!Updated, Replica!EPOCH
<1>4. \A row, other : Replica!Conflict(row, other) <=> Conflict(row, other)
  BY DEF Conflict, Replica!Conflict
<1> QED BY <1>1, <1>2, <1>3, <1>4 DEF Apply, Replica!Apply

\* A replay is a delivery, or an event sent again, on the replica.
LEMMA ReplicaStep == ASSUME IInv, [ReadNext]_readVars PROVE [Replica!Next]_(Replica!vars)
<1>1. CASE HappenOutside
  <2>1. PICK s \in Subject : Happen(s)
    BY <1>1 DEF HappenOutside
  <2>2. Replica!Happen(s)
    BY <1>1, <2>1 DEF HappenOutside, replicaVars, Happen, Replica!Happen
  <2> QED BY <2>2 DEF Replica!Next
<1>2. ASSUME NEW s \in Subject, NEW i \in Event, Replays(s, i)
      PROVE  Replica!Deliver(s, i) \/ Replica!Resend(s, i)
  <2>1. /\ Replica!Store(s, i) /\ happened' = happened
        /\ known' = [known EXCEPT ![s] = @ \cup {i}]
        /\ reknown' = IF i \in known[s] THEN [reknown EXCEPT ![s] = @ + 1] ELSE reknown
    BY <1>2, ReplayParts, ReplicaApply DEF Replica!Store
  <2>2. Replayable(known, pending, 1, s, i)
    <3>1. 1 \in 1..Len(pending) /\ pending[1] = <<s, i>>
      BY <1>2, QueueParts, ReplayParts
    <3> QED BY <3>1 DEF IInv, Parts, InReplayOrder
  <2>3. \A n : WillHave(known, pending, 1, s, n) <=> n \in known[s]
    BY DEF WillHave
  <2>4. CASE i \notin known[s]
    BY <2>1, <2>2, <2>3, <2>4
    DEF Replayable, MayOvertake, IsRelease, Replica!Deliver, Replica!MayOvertake, Replica!IsRelease
  <2>5. CASE i \in known[s]
    <3>1. Replica!MayResend(s, i)
      BY <2>2, <2>3, <2>5
      DEF Replayable, IsRelease, Replica!MayResend, Replica!IsRelease
    <3>2. reknown[s] < MaxResends
      BY <1>2, <2>5, ReplayCountsRepeats, QueueParts, DeliveryAssumption
    <3>3. known' = known
      <4>1. known[s] \cup {i} = known[s]
        BY <2>5
      <4> QED BY <2>1, <4>1, QueueParts DEF Histories
    <3> QED BY <2>1, <2>5, <3>1, <3>2, <3>3 DEF Replica!Resend
  <2> QED BY <2>4, <2>5
<1>3. CASE Replay
  <2>1. PICK s \in Subject : \E i \in Event : Replays(s, i)
    BY <1>3, ReplayReplays
  <2> QED BY <1>2, <2>1 DEF Replica!Next, Replica!Event, Event
<1>4. ASSUME UNCHANGED <<copy, happened, known, reknown>> PROVE [Replica!Next]_(Replica!vars)
  BY <1>4 DEF Replica!vars
<1>5. ASSUME NEW p \in Process, NEW s \in Subject, NEW i \in Event, Insert(p, s, i)
      PROVE  UNCHANGED <<copy, happened, known, reknown>>
  BY <1>5, InsertParts DEF Insert, replicaVars
<1> QED
  BY <1>1, <1>3, <1>4, <1>5
  DEF ReadNext, Start, Stop, Lookup, ReplicaGoes, ReplicaReturns, readVars, primaryVars,
      replicaVars

\* The replica is a delivery of events of its own: what it shows is late, and nothing
\* else, however far it is behind.
THEOREM ReplicaLags == ReadSpec => ReplicaOnlyLags
<1>1. ReadInit => Replica!Init
  BY DEF ReadInit, Init, Replica!Init
<1> QED BY <1>1, ReplicaStep, IInvCorrect, PTL DEF ReadSpec, ReplicaOnlyLags, Replica!Spec

\* The theorems about the delivery, of the rows of the replica.
OnReplica == INSTANCE EventDeliveryProofs
               WITH rows <- copy, delivered <- known, resent <- reknown

\* A lookup on the replica finds a subject exactly when it was assigned, as far as the
\* replica has its events.
THEOREM ReplicaShowsWhatItHas ==
  ASSUME InOrder, SlotsDistinct PROVE ReadSpec => []OnReplica!LookupExact
<1>1. OnReplica!InOrder /\ OnReplica!SlotsDistinct
  BY DEF InOrder, SlotsDistinct, OnReplica!InOrder, OnReplica!SlotsDistinct
<1>2. OnReplica!Spec => []OnReplica!LookupExact
  BY <1>1, DeliveryAssumption, OnReplica!LookupsAreExact, PTL
<1>3. ReadSpec => OnReplica!Spec
  <2>1. Replica!Init => OnReplica!Init
    BY DEF Replica!Init, OnReplica!Init
  <2>2. [Replica!Next]_(Replica!vars) => [OnReplica!Next]_(OnReplica!vars)
    <3>1. Replica!vars = OnReplica!vars
      BY DEF Replica!vars, OnReplica!vars
    <3>2. Replica!Next <=> OnReplica!Next
      BY Zenon DEF
      Replica!Next, Replica!Happen, Replica!Deliver, Replica!Resend,
      Replica!Store, Replica!MayOvertake, Replica!MayResend, Replica!IsRelease,
      Replica!Event, Replica!EventOp, Replica!EventTime, Replica!Apply,
      Replica!IsTarget, Replica!AssignTarget, Replica!ReleaseTarget,
      Replica!Updated, Replica!NewRow, Replica!Conflict, Replica!EPOCH,
      OnReplica!Next, OnReplica!Happen, OnReplica!Deliver, OnReplica!Resend,
      OnReplica!Store, OnReplica!MayOvertake, OnReplica!MayResend,
      OnReplica!IsRelease, OnReplica!Event, OnReplica!EventOp,
      OnReplica!EventTime, OnReplica!Apply, OnReplica!IsTarget,
      OnReplica!AssignTarget, OnReplica!ReleaseTarget, OnReplica!Updated,
      OnReplica!NewRow, OnReplica!Conflict, OnReplica!EPOCH
    <3> QED BY <3>1, <3>2 DEF Replica!vars, OnReplica!vars
  <2> QED BY <2>1, <2>2, ReplicaLags, PTL
      DEF ReplicaOnlyLags, Replica!Spec, OnReplica!Spec
<1> QED BY <1>2, <1>3, PTL
=============================================================================
