------------------------ MODULE ChangeRequestProofs ------------------------
(***************************************************************************)
(* Proofs about ChangeRequest, for any requests with any number of changes *)
(* and addresses.                                                          *)
(***************************************************************************)
EXTENDS ChangeRequest, WellFoundedInduction, TLAPS

-----------------------------------------------------------------------------
(***************************************************************************)
(* Induction, over sets of numbers.                                        *)
(***************************************************************************)
LEMMA Least ==
  ASSUME NEW T, T \subseteq Nat, T # {}
  PROVE  \E m \in T : \A k \in T : m <= k
<1> DEFINE R == OpToRel(<, Nat)
<1>1. \A k, m \in Nat : k < m => <<k, m>> \in R
  BY DEF OpToRel
<1>2. IsWellFoundedOn(R, Nat)
  BY NatLessThanWellFounded
<1> HIDE DEF R
<1>3. PICK m \in T : \A k \in T : <<k, m>> \notin R
  BY <1>2, WFMin, Zenon
<1>4. \A k \in T : ~(k < m)
  BY <1>1, <1>3
<1> QED BY <1>4

LEMMA Induction ==
  ASSUME NEW S, 0 \in S, \A n \in Nat : n \in S => n + 1 \in S
  PROVE  Nat \subseteq S
<1> SUFFICES ASSUME Nat \ S # {} PROVE FALSE
  OBVIOUS
<1>1. PICK m \in Nat \ S : \A k \in Nat \ S : m <= k
  BY Least
<1>2. m - 1 \in Nat /\ m - 1 \notin Nat \ S
  BY <1>1
<1> QED BY <1>1, <1>2

-----------------------------------------------------------------------------
(***************************************************************************)
(* Sequences put one behind the other.                                     *)
(***************************************************************************)
\* The concatenation of the first i of seqs.
LEMMA FlattenSteps ==
  ASSUME NEW seqs, Len(seqs) \in Nat \ {0}
  PROVE  \E f : /\ FlattenSeq(seqs) = f[Len(seqs)]
                /\ \A i \in 1..Len(seqs) :
                     f[i] = IF i = 1 THEN seqs[1] ELSE f[i - 1] \o seqs[i]
<1> DEFINE n == Len(seqs)
           Def(m, g) == g = [i \in 1..m |-> IF i = 1 THEN seqs[i] ELSE g[i - 1] \o seqs[i]]
           S == {m \in Nat : \E g : Def(m, g)}
<1>1. 0 \in S
  <2>1. Def(0, [i \in 1..0 |-> 0])
    OBVIOUS
  <2> HIDE DEF Def
  <2> QED BY <2>1
<1>2. ASSUME NEW m \in Nat, m \in S PROVE m + 1 \in S
  <2>1. PICK g : Def(m, g)
    BY <1>2
  <2> DEFINE last == IF m = 0 THEN seqs[1] ELSE g[m] \o seqs[m + 1]
             h == [i \in 1..(m + 1) |-> IF i = m + 1 THEN last ELSE g[i]]
  <2>2. \A i \in 1..(m + 1) : h[i] = IF i = 1 THEN seqs[i] ELSE h[i - 1] \o seqs[i]
    <3> SUFFICES ASSUME NEW i \in 1..(m + 1)
                 PROVE  h[i] = IF i = 1 THEN seqs[i] ELSE h[i - 1] \o seqs[i]
      OBVIOUS
    <3>1. CASE i = m + 1
      BY <3>1
    <3>2. CASE i # m + 1
      <4>1. i \in 1..m /\ i - 1 # m + 1
        BY <3>2
      <4>2. g[i] = IF i = 1 THEN seqs[i] ELSE g[i - 1] \o seqs[i]
        BY <2>1, <4>1
      <4> QED BY <4>1, <4>2
    <3> QED BY <3>1, <3>2
  <2>3. Def(m + 1, h)
    BY <2>2
  <2> HIDE DEF Def
  <2> QED BY <2>3
<1> DEFINE f == CHOOSE g : Def(n, g)
<1>3. Def(n, f)
  <2> HIDE DEF Def
  <2>1. n \in S
    BY <1>1, <1>2, Induction
  <2> QED BY <2>1
<1>4. FlattenSeq(seqs) = f[n]
  BY DEF FlattenSeq
<1>5. \A i \in 1..n : f[i] = IF i = 1 THEN seqs[1] ELSE f[i - 1] \o seqs[i]
  <2> HIDE DEF f
  <2> QED BY <1>3
<1> HIDE DEF f
<1> QED BY <1>4, <1>5

\* The rows after the first i operations.
LEMMA AfterSteps ==
  ASSUME NEW ops, Len(ops) \in Nat, NEW when
  PROVE  \E f : /\ AfterAll(ops, when) = f[Len(ops)] /\ f[0] = rows
                /\ \A i \in 1..Len(ops) : f[i] = Rows!Apply(f[i - 1], ops[i], when)
<1> DEFINE n == Len(ops)
           Def(m, g) ==
             g = [i \in 0..m |-> IF i = 0 THEN rows ELSE Rows!Apply(g[i - 1], ops[i], when)]
           S == {m \in Nat : \E g : Def(m, g)}
<1>1. 0 \in S
  <2>1. Def(0, [i \in 0..0 |-> rows])
    OBVIOUS
  <2> HIDE DEF Def
  <2> QED BY <2>1
<1>2. ASSUME NEW m \in Nat, m \in S PROVE m + 1 \in S
  <2>1. PICK g : Def(m, g)
    BY <1>2
  <2> DEFINE last == Rows!Apply(g[m], ops[m + 1], when)
             h == [i \in 0..(m + 1) |-> IF i = m + 1 THEN last ELSE g[i]]
  <2>2. \A i \in 0..(m + 1) :
          h[i] = IF i = 0 THEN rows ELSE Rows!Apply(h[i - 1], ops[i], when)
    <3> SUFFICES ASSUME NEW i \in 0..(m + 1)
                 PROVE  h[i] = IF i = 0 THEN rows ELSE Rows!Apply(h[i - 1], ops[i], when)
      OBVIOUS
    <3>1. CASE i = m + 1
      BY <3>1
    <3>2. CASE i # m + 1
      <4>1. i \in 0..m /\ i - 1 # m + 1
        BY <3>2
      <4>2. g[i] = IF i = 0 THEN rows ELSE Rows!Apply(g[i - 1], ops[i], when)
        BY <2>1, <4>1
      <4> QED BY <4>1, <4>2
    <3> QED BY <3>1, <3>2
  <2>3. Def(m + 1, h)
    BY <2>2
  <2> HIDE DEF Def
  <2> QED BY <2>3
<1> DEFINE f == CHOOSE g : Def(n, g)
<1>3. Def(n, f)
  <2> HIDE DEF Def
  <2>1. n \in S
    BY <1>1, <1>2, Induction
  <2> QED BY <2>1
<1>4. AfterAll(ops, when) = f[n]
  BY DEF AfterAll
<1>5. /\ f[0] = rows
      /\ \A i \in 1..n : f[i] = Rows!Apply(f[i - 1], ops[i], when)
  <2> HIDE DEF f
  <2> QED BY <1>3
<1> HIDE DEF f
<1> QED BY <1>4, <1>5

\* all is the first m of seqs, one behind the other: from[k] is the one that its k-th
\* element comes from.
Laid(all, from, seqs, m) ==
  /\ from \in [1..Len(all) -> 1..m]
  /\ \A k, l \in 1..Len(all) : k <= l => from[k] <= from[l]
  /\ \A k \in 1..Len(all) : \E j \in 1..Len(seqs[from[k]]) : all[k] = seqs[from[k]][j]
  /\ \A i \in 1..m : \A j \in 1..Len(seqs[i]) :
       \E k \in 1..Len(all) : from[k] = i /\ all[k] = seqs[i][j]

LEMMA LaidNext ==
  ASSUME NEW Elem, NEW seqs \in Seq(Seq(Elem)), NEW m \in Nat, m < Len(seqs),
         NEW all \in Seq(Elem), NEW from, Laid(all, from, seqs, m)
  PROVE  /\ all \o seqs[m + 1] \in Seq(Elem)
         /\ \E g : Laid(all \o seqs[m + 1], g, seqs, m + 1)
<1> DEFINE next == seqs[m + 1]
           more == all \o next
           g == [k \in 1..Len(more) |-> IF k <= Len(all) THEN from[k] ELSE m + 1]
<1>1. next \in Seq(Elem) /\ m + 1 \in 1..Len(seqs)
  OBVIOUS
<1> HIDE DEF next
<1>2. /\ more \in Seq(Elem) /\ Len(more) = Len(all) + Len(next)
      /\ Len(all) \in Nat /\ Len(next) \in Nat
      /\ \A k \in 1..Len(all) : more[k] = all[k]
      /\ \A k \in 1..Len(next) : more[Len(all) + k] = next[k]
  BY <1>1
<1> HIDE DEF more
<1>3. /\ from \in [1..Len(all) -> 1..m]
      /\ \A k \in 1..Len(all) : \E j \in 1..Len(seqs[from[k]]) : all[k] = seqs[from[k]][j]
  BY DEF Laid
<1>4. \A k \in 1..Len(all) : k \in 1..Len(more) /\ g[k] = from[k] /\ from[k] \in 1..m
  <2> SUFFICES ASSUME NEW k \in 1..Len(all)
               PROVE  k \in 1..Len(more) /\ g[k] = from[k] /\ from[k] \in 1..m
    OBVIOUS
  <2>1. k \in 1..Len(more) /\ k <= Len(all)
    BY <1>2
  <2>2. from[k] \in 1..m
    BY <1>3
  <2> QED BY <2>1, <2>2
<1>5. \A k \in 1..Len(next) : Len(all) + k \in 1..Len(more) /\ g[Len(all) + k] = m + 1
  BY <1>2
<1>6. \A k \in 1..Len(more) : k \notin 1..Len(all) =>
        k - Len(all) \in 1..Len(next) /\ g[k] = m + 1 /\ more[k] = next[k - Len(all)]
  <2> SUFFICES ASSUME NEW k \in 1..Len(more), k \notin 1..Len(all)
               PROVE  k - Len(all) \in 1..Len(next) /\ g[k] = m + 1
                      /\ more[k] = next[k - Len(all)]
    OBVIOUS
  <2>1. k - Len(all) \in 1..Len(next) /\ k = Len(all) + (k - Len(all)) /\ ~(k <= Len(all))
    BY <1>2
  <2> QED BY <1>2, <2>1
<1>7. g \in [1..Len(more) -> 1..(m + 1)]
  <2>1. ASSUME NEW k \in 1..Len(more) PROVE g[k] \in 1..(m + 1)
    <3> HIDE DEF g
    <3>1. CASE k \in 1..Len(all)
      BY <1>4, <3>1
    <3>2. CASE k \notin 1..Len(all)
      BY <1>6, <3>2
    <3> QED BY <3>1, <3>2
  <2> QED BY <2>1
<1> HIDE DEF g
<1>8. \A k, l \in 1..Len(more) : k <= l => g[k] <= g[l]
  <2> SUFFICES ASSUME NEW k \in 1..Len(more), NEW l \in 1..Len(more), k <= l
               PROVE  g[k] <= g[l]
    OBVIOUS
  <2>1. CASE l \in 1..Len(all)
    <3>1. k \in 1..Len(all)
      BY <1>2, <2>1
    <3> QED BY <1>4, <2>1, <3>1 DEF Laid
  <2>2. CASE l \notin 1..Len(all)
    <3>1. g[l] = m + 1 /\ g[k] \in 1..(m + 1)
      BY <1>6, <1>7, <2>2
    <3> QED BY <3>1
  <2> QED BY <2>1, <2>2
<1>9. ASSUME NEW k \in 1..Len(more)
      PROVE  \E j \in 1..Len(seqs[g[k]]) : more[k] = seqs[g[k]][j]
  <2>1. CASE k \in 1..Len(all)
    <3>1. g[k] = from[k] /\ more[k] = all[k]
      BY <1>2, <1>4, <2>1
    <3> QED BY <1>3, <2>1, <3>1
  <2>2. CASE k \notin 1..Len(all)
    <3>1. g[k] = m + 1 /\ k - Len(all) \in 1..Len(next) /\ more[k] = next[k - Len(all)]
      BY <1>6, <2>2
    <3> QED BY <3>1 DEF next
  <2> QED BY <2>1, <2>2
<1>10. ASSUME NEW i \in 1..(m + 1), NEW j \in 1..Len(seqs[i])
       PROVE  \E k \in 1..Len(more) : g[k] = i /\ more[k] = seqs[i][j]
  <2>1. CASE i \in 1..m
    <3>1. PICK k \in 1..Len(all) : from[k] = i /\ all[k] = seqs[i][j]
      BY <2>1 DEF Laid
    <3> QED BY <1>2, <1>4, <3>1
  <2>2. CASE i = m + 1
    <3>1. j \in 1..Len(next) /\ next[j] = seqs[i][j]
      BY <2>2 DEF next
    <3> QED BY <1>2, <1>5, <2>2, <3>1
  <2> QED BY <2>1, <2>2
<1>11. Laid(more, g, seqs, m + 1)
  BY <1>7, <1>8, <1>9, <1>10, Zenon DEF Laid
<1>12. more = all \o seqs[m + 1]
  BY DEF more, next
<1> QED BY <1>2, <1>11, <1>12

\* FlattenSeq leaves nothing out, adds nothing, and keeps the order.
LEMMA FlattenParts ==
  ASSUME NEW Elem, NEW seqs \in Seq(Seq(Elem))
  PROVE  /\ FlattenSeq(seqs) \in Seq(Elem)
         /\ \E from : Laid(FlattenSeq(seqs), from, seqs, Len(seqs))
<1> DEFINE n == Len(seqs)
<1>1. n \in Nat /\ \A i \in 1..n : seqs[i] \in Seq(Elem)
  OBVIOUS
<1>2. CASE n = 0
  <2>1. seqs = <<>> /\ FlattenSeq(seqs) = <<>>
    BY <1>2 DEF FlattenSeq
  <2>2. Laid(<<>>, [k \in 1..0 |-> 0], seqs, 0)
    BY DEF Laid
  <2>3. <<>> \in Seq(Elem)
    OBVIOUS
  <2> QED BY <1>2, <2>1, <2>2, <2>3
<1>3. CASE n # 0
  <2>1. PICK f : /\ FlattenSeq(seqs) = f[n]
                 /\ \A i \in 1..n : f[i] = IF i = 1 THEN seqs[1] ELSE f[i - 1] \o seqs[i]
    BY <1>1, <1>3, FlattenSteps
  <2> DEFINE Good(m) == f[m] \in Seq(Elem) /\ \E from : Laid(f[m], from, seqs, m)
             S == {m \in Nat : m + 1 <= n => Good(m + 1)}
  <2>2. 0 \in S
    <3>1. <<>> \in Seq(Elem) /\ Laid(<<>>, [k \in 1..0 |-> 0], seqs, 0)
      BY DEF Laid
    <3>2. seqs[1] \in Seq(Elem) /\ <<>> \o seqs[1] = seqs[1]
      BY <1>1, <1>3
    <3>3. \E from : Laid(<<>> \o seqs[0 + 1], from, seqs, 0 + 1)
      <4>1. 0 \in Nat /\ 0 < Len(seqs)
        BY <1>1, <1>3
      <4> QED BY <3>1, <4>1, LaidNext
    <3>4. f[1] = seqs[1]
      BY <1>1, <1>3, <2>1
    <3>5. Good(1)
      BY <3>2, <3>3, <3>4
    <3> HIDE DEF Good
    <3> QED BY <3>5
  <2>3. ASSUME NEW m \in Nat, m \in S PROVE m + 1 \in S
    <3> SUFFICES ASSUME m + 2 <= n PROVE Good(m + 2)
      OBVIOUS
    <3>1. PICK from : f[m + 1] \in Seq(Elem) /\ Laid(f[m + 1], from, seqs, m + 1)
      BY <1>1, <2>3
    <3>2. f[m + 2] = f[m + 1] \o seqs[m + 2]
      <4>1. m + 2 \in 1..n /\ m + 2 # 1 /\ (m + 2) - 1 = m + 1
        BY <1>1
      <4> QED BY <2>1, <4>1
    <3>3. /\ f[m + 1] \o seqs[(m + 1) + 1] \in Seq(Elem)
          /\ \E g : Laid(f[m + 1] \o seqs[(m + 1) + 1], g, seqs, (m + 1) + 1)
      <4>1. m + 1 \in Nat /\ m + 1 < Len(seqs)
        BY <1>1
      <4> QED BY <3>1, <4>1, LaidNext
    <3>4. (m + 1) + 1 = m + 2
      OBVIOUS
    <3> QED BY <3>2, <3>3, <3>4
  <2>4. Good(n)
    <3> HIDE DEF Good
    <3>1. Nat \subseteq S
      <4> HIDE DEF S
      <4> QED BY <2>2, <2>3, Induction
    <3>2. n - 1 \in Nat /\ (n - 1) + 1 = n
      BY <1>1, <1>3
    <3>3. \A k \in Nat : k + 1 <= n => Good(k + 1)
      BY <3>1
    <3>4. (n - 1) + 1 <= n
      BY <1>1, <3>2
    <3> HIDE DEF S, n
    <3> QED BY <3>2, <3>3, <3>4
  <2> QED BY <2>1, <2>4
<1> QED BY <1>2, <1>3

\* The elements of s are among those of all.
Has(all, s) == \A i \in 1..Len(s) : \E k \in 1..Len(all) : all[k] = s[i]

LEMMA ConcatHas ==
  ASSUME NEW Elem, NEW a \in Seq(Elem), NEW b \in Seq(Elem), NEW c \in Seq(Elem),
         NEW all, all = a \o b \o c
  PROVE  all \in Seq(Elem) /\ Has(all, a) /\ Has(all, b) /\ Has(all, c)
<1> DEFINE ab == a \o b
<1>1. /\ ab \in Seq(Elem) /\ Len(ab) = Len(a) + Len(b) /\ Len(a) \in Nat /\ Len(b) \in Nat
      /\ \A i \in 1..Len(a) : ab[i] = a[i]
      /\ \A i \in 1..Len(b) : ab[Len(a) + i] = b[i]
  OBVIOUS
<1> HIDE DEF ab
<1>2. /\ all \in Seq(Elem) /\ Len(all) = Len(ab) + Len(c) /\ Len(c) \in Nat
      /\ \A i \in 1..Len(ab) : all[i] = ab[i]
      /\ \A i \in 1..Len(c) : all[Len(ab) + i] = c[i]
  <2>1. ab \in Seq(Elem) /\ all = ab \o c
    BY <1>1 DEF ab
  <2> HIDE DEF ab
  <2> QED BY <2>1
<1>3. ASSUME NEW i \in 1..Len(a) PROVE \E k \in 1..Len(all) : all[k] = a[i]
  BY <1>1, <1>2
<1>4. ASSUME NEW i \in 1..Len(b) PROVE \E k \in 1..Len(all) : all[k] = b[i]
  <2>1. Len(a) + i \in 1..Len(ab) /\ Len(a) + i \in 1..Len(all)
    BY <1>1, <1>2
  <2> QED BY <1>1, <1>2, <2>1
<1>5. ASSUME NEW i \in 1..Len(c) PROVE \E k \in 1..Len(all) : all[k] = c[i]
  <2>1. Len(ab) + i \in 1..Len(all)
    BY <1>1, <1>2
  <2> QED BY <1>2, <2>1
<1> QED BY <1>2, <1>3, <1>4, <1>5 DEF Has

-----------------------------------------------------------------------------
(***************************************************************************)
(* The operations of a request.                                            *)
(***************************************************************************)
\* What the three loops over a change name.
Names(q, change) ==
  {<<"private", ResourceOf(q), change.privateIPs[i]>> : i \in 1..Len(change.privateIPs)}
  \cup {<<"public", ResourceOf(q), change.publicIPs[i], change.hostnames[j]>> :
          i \in 1..Len(change.publicIPs), j \in 1..Len(change.hostnames)}
  \cup {<<"relationship", resIDFromARN(q.arn), change.related[i]>> :
          i \in 1..Len(change.related)}

LEMMA RequestParts ==
  ASSUME NEW q \in Requests
  PROVE  /\ q.arn \in Arn /\ ResourceOf(q) \in Resource /\ resIDFromARN(q.arn) \in ResourceId
         /\ Len(q.changes) \in Nat
         /\ \A c \in 1..Len(q.changes) : q.changes[c] \in ChangeShape
         /\ Clock(q) \in Rows!Time /\ Clock(q) \in Nat /\ Clock(q) > 0
<1>1. q \in RequestShape /\ q.time + q.zone > 0 /\ Zone \subseteq Int
  BY RequestAssumption
<1>2. q.arn \in Arn /\ q.account \in Account /\ q.changes \in Seq(ChangeShape)
  BY <1>1 DEF RequestShape
<1>3. Clock(q) \in Nat /\ Clock(q) > 0
  <2>1. q.time \in Int /\ q.zone \in Int
    BY <1>1 DEF RequestShape
  <2> QED BY <1>1, <2>1 DEF Clock, WallClock
<1> QED BY <1>2, <1>3 DEF ResourceOf, Resource, ResourceId, Rows!Time, Rows!EPOCH

LEMMA NamesParts ==
  ASSUME NEW q \in Requests, NEW change \in ChangeShape, NEW s \in Names(q, change)
  PROVE  /\ s \in Subjects
         /\ s \in PrivateSubject \cup PublicSubject => s[2] = ResourceOf(q)
<1>1. /\ change.privateIPs \in Seq(PrivateIP) /\ change.publicIPs \in Seq(PublicIP)
      /\ change.hostnames \in Seq(Hostname) /\ change.related \in Seq(Related)
  BY DEF ChangeShape
<1>2. CASE \E i \in 1..Len(change.privateIPs) :
             s = <<"private", ResourceOf(q), change.privateIPs[i]>>
  BY <1>1, <1>2, RequestParts DEF Subjects, PrivateSubject
<1>3. CASE \E i \in 1..Len(change.publicIPs) : \E j \in 1..Len(change.hostnames) :
             s = <<"public", ResourceOf(q), change.publicIPs[i], change.hostnames[j]>>
  BY <1>1, <1>3, RequestParts DEF Subjects, PublicSubject
<1>4. CASE \E i \in 1..Len(change.related) :
             s = <<"relationship", resIDFromARN(q.arn), change.related[i]>>
  <2>1. s \in RelatedSubject
    BY <1>1, <1>4, RequestParts DEF RelatedSubject
  <2>2. s \notin PrivateSubject \cup PublicSubject
    BY <1>4 DEF PrivateSubject, PublicSubject
  <2> QED BY <2>1, <2>2 DEF Subjects
<1> QED BY <1>2, <1>3, <1>4 DEF Names

\* The loops run over all that a change names.
LEMMA ChangeSubjectsParts ==
  ASSUME NEW q \in Requests, NEW change \in ChangeShape
  PROVE  /\ ChangeSubjects(q, change) \in Seq(Names(q, change))
         /\ \A s \in Names(q, change) :
              \E i \in 1..Len(ChangeSubjects(q, change)) : ChangeSubjects(q, change)[i] = s
<1> DEFINE Elem == Names(q, change)
           private == [i \in 1..Len(change.privateIPs) |->
                         <<"private", ResourceOf(q), change.privateIPs[i]>>]
           loops == [i \in 1..Len(change.publicIPs) |->
                       [j \in 1..Len(change.hostnames) |->
                          <<"public", ResourceOf(q), change.publicIPs[i],
                            change.hostnames[j]>>]]
           public == FlattenSeq(loops)
           related == [i \in 1..Len(change.related) |->
                         <<"relationship", resIDFromARN(q.arn), change.related[i]>>]
<1>1. /\ Len(change.privateIPs) \in Nat /\ Len(change.publicIPs) \in Nat
      /\ Len(change.hostnames) \in Nat /\ Len(change.related) \in Nat
  BY DEF ChangeShape
<1>2. private \in Seq(Elem) /\ Len(private) = Len(change.privateIPs)
  <2>1. \A i \in 1..Len(change.privateIPs) :
          <<"private", ResourceOf(q), change.privateIPs[i]>> \in Elem
    BY DEF Names
  <2> HIDE DEF Elem
  <2> QED BY <1>1, <2>1
<1>3. loops \in Seq(Seq(Elem)) /\ Len(loops) = Len(change.publicIPs)
        /\ \A i \in 1..Len(loops) : Len(loops[i]) = Len(change.hostnames)
  <2>1. \A i \in 1..Len(change.publicIPs), j \in 1..Len(change.hostnames) :
          <<"public", ResourceOf(q), change.publicIPs[i], change.hostnames[j]>> \in Elem
    BY DEF Names
  <2> HIDE DEF Elem
  <2> QED BY <1>1, <2>1
<1>4. related \in Seq(Elem) /\ Len(related) = Len(change.related)
  <2>1. \A i \in 1..Len(change.related) :
          <<"relationship", resIDFromARN(q.arn), change.related[i]>> \in Elem
    BY DEF Names
  <2> HIDE DEF Elem
  <2> QED BY <1>1, <2>1
<1>5. public \in Seq(Elem) /\ \E from : Laid(public, from, loops, Len(loops))
  BY <1>3, FlattenParts
<1>6. \A i \in 1..Len(loops) : \A j \in 1..Len(loops[i]) :
        \E k \in 1..Len(public) : public[k] = loops[i][j]
  BY <1>5, Zenon DEF Laid
<1> DEFINE all == ChangeSubjects(q, change)
<1>7. all = private \o public \o related
  BY Zenon DEF ChangeSubjects
<1>8. all \in Seq(Elem) /\ Has(all, private) /\ Has(all, public) /\ Has(all, related)
  <2>1. private \in Seq(Elem) /\ public \in Seq(Elem) /\ related \in Seq(Elem)
    BY <1>2, <1>4, <1>5
  <2> HIDE DEF Elem, private, public, related, all
  <2> QED BY <1>7, <2>1, ConcatHas
<1>9. ASSUME NEW s \in Elem
      PROVE  \E k \in 1..Len(all) : all[k] = s
  <2>1. CASE \E i \in 1..Len(change.privateIPs) :
               s = <<"private", ResourceOf(q), change.privateIPs[i]>>
    <3>1. PICK i \in 1..Len(private) : private[i] = s
      BY <1>2, <2>1
    <3> HIDE DEF private, public, related
    <3> QED BY <1>8, <3>1 DEF Has
  <2>2. CASE \E i \in 1..Len(change.publicIPs) : \E j \in 1..Len(change.hostnames) :
               s = <<"public", ResourceOf(q), change.publicIPs[i], change.hostnames[j]>>
    <3>1. PICK i \in 1..Len(change.publicIPs), j \in 1..Len(change.hostnames) :
            s = <<"public", ResourceOf(q), change.publicIPs[i], change.hostnames[j]>>
      BY <2>2
    <3>2. i \in 1..Len(loops) /\ j \in 1..Len(loops[i]) /\ loops[i][j] = s
      BY <1>3, <3>1
    <3> HIDE DEF private, loops, public, related
    <3> QED BY <1>6, <1>8, <3>2 DEF Has
  <2>3. CASE \E i \in 1..Len(change.related) :
               s = <<"relationship", resIDFromARN(q.arn), change.related[i]>>
    <3>1. PICK i \in 1..Len(related) : related[i] = s
      BY <1>4, <2>3
    <3> HIDE DEF private, public, related
    <3> QED BY <1>8, <3>1 DEF Has
  <2> HIDE DEF private, loops, public, related
  <2> QED BY <2>1, <2>2, <2>3 DEF Names
<1> QED BY <1>8, <1>9

\* The operations come in the order of the changes; those of a change have its kind
\* and name what it names.
Ordered(ops, from, q) ==
  /\ from \in [1..Len(ops) -> 1..Len(q.changes)]
  /\ \A k, l \in 1..Len(ops) : k <= l => from[k] <= from[l]
  /\ \A k \in 1..Len(ops) : /\ ops[k].kind = Kind(q.changes[from[k]])
                            /\ ops[k].subject \in Names(q, q.changes[from[k]])
  /\ \A c \in 1..Len(q.changes) : \A s \in Names(q, q.changes[c]) :
       \E k \in 1..Len(ops) : from[k] = c /\ ops[k].subject = s

LEMMA OperationsParts ==
  ASSUME NEW q \in Requests
  PROVE  /\ Operations(q) \in Seq(Rows!Op)
         /\ \E from : Ordered(Operations(q), from, q)
<1> DEFINE n == Len(q.changes)
           subjects(c) == ChangeSubjects(q, q.changes[c])
           ops(c) == [i \in 1..Len(subjects(c)) |->
                        [kind |-> Kind(q.changes[c]), subject |-> subjects(c)[i]]]
           seqs == [c \in 1..n |-> ops(c)]
<1>1. ASSUME NEW c \in 1..n
      PROVE  /\ subjects(c) \in Seq(Names(q, q.changes[c])) /\ Len(subjects(c)) \in Nat
             /\ \A i \in 1..Len(subjects(c)) : /\ subjects(c)[i] \in Names(q, q.changes[c])
                                               /\ subjects(c)[i] \in Subjects
             /\ \A s \in Names(q, q.changes[c]) :
                  \E i \in 1..Len(subjects(c)) : subjects(c)[i] = s
  <2>1. q.changes[c] \in ChangeShape
    BY RequestParts
  <2>2. /\ subjects(c) \in Seq(Names(q, q.changes[c]))
        /\ \A s \in Names(q, q.changes[c]) :
             \E i \in 1..Len(subjects(c)) : subjects(c)[i] = s
    BY <2>1, ChangeSubjectsParts
  <2> HIDE DEF subjects
  <2>3. /\ Len(subjects(c)) \in Nat
        /\ \A i \in 1..Len(subjects(c)) : subjects(c)[i] \in Names(q, q.changes[c])
    BY <2>2
  <2> QED BY <2>1, <2>2, <2>3, NamesParts
<1>2. ASSUME NEW c \in 1..n
      PROVE  /\ ops(c) \in Seq(Rows!Op) /\ Len(ops(c)) = Len(subjects(c))
             /\ \A i \in 1..Len(subjects(c)) : /\ ops(c)[i].kind = Kind(q.changes[c])
                                               /\ ops(c)[i].subject = subjects(c)[i]
  <2> HIDE DEF subjects
  <2>1. Kind(q.changes[c]) \in {"ADDED", "DELETED"}
    BY DEF Kind
  <2>2. \A i \in 1..Len(subjects(c)) :
          [kind |-> Kind(q.changes[c]), subject |-> subjects(c)[i]] \in Rows!Op
    BY <1>1, <2>1 DEF Rows!Op
  <2> QED BY <1>1, <2>2
<1>3. n \in Nat /\ seqs \in Seq(Seq(Rows!Op)) /\ Len(seqs) = n
        /\ \A c \in 1..n : seqs[c] = ops(c)
  <2> HIDE DEF ops
  <2> QED BY <1>2, RequestParts
<1>4. Operations(q) = FlattenSeq(seqs)
  BY Zenon DEF Operations
<1> DEFINE all == Operations(q)
<1>5. all \in Seq(Rows!Op) /\ \E from : Laid(all, from, seqs, n)
  <2> HIDE DEF seqs
  <2> QED BY <1>3, <1>4, FlattenParts, Zenon
<1>6. PICK from : Laid(all, from, seqs, n)
  BY <1>5
<1> HIDE DEF all, seqs, ops, subjects
<1>7. /\ from \in [1..Len(all) -> 1..n]
      /\ \A k, l \in 1..Len(all) : k <= l => from[k] <= from[l]
  BY <1>6 DEF Laid
<1>8. ASSUME NEW k \in 1..Len(all)
      PROVE  /\ all[k].kind = Kind(q.changes[from[k]])
             /\ all[k].subject \in Names(q, q.changes[from[k]])
  <2>1. from[k] \in 1..n
    BY <1>7
  <2>2. PICK j \in 1..Len(seqs[from[k]]) : all[k] = seqs[from[k]][j]
    BY <1>6 DEF Laid
  <2>3. seqs[from[k]] = ops(from[k])
    BY <1>3, <2>1
  <2>4. /\ Len(ops(from[k])) = Len(subjects(from[k]))
        /\ \A i \in 1..Len(subjects(from[k])) :
             /\ ops(from[k])[i].kind = Kind(q.changes[from[k]])
             /\ ops(from[k])[i].subject = subjects(from[k])[i]
             /\ subjects(from[k])[i] \in Names(q, q.changes[from[k]])
    BY <1>1, <1>2, <2>1
  <2> QED BY <2>2, <2>3, <2>4
<1>9. ASSUME NEW c \in 1..n, NEW s \in Names(q, q.changes[c])
      PROVE  \E k \in 1..Len(all) : from[k] = c /\ all[k].subject = s
  <2>1. PICK i \in 1..Len(subjects(c)) : subjects(c)[i] = s
    BY <1>1
  <2>2. i \in 1..Len(seqs[c]) /\ seqs[c][i].subject = s
    BY <1>2, <1>3, <2>1
  <2>3. PICK k \in 1..Len(all) : from[k] = c /\ all[k] = seqs[c][i]
    BY <1>6, <2>2 DEF Laid
  <2> QED BY <2>2, <2>3
<1>10. Ordered(all, from, q)
  BY <1>7, <1>8, <1>9, Zenon DEF Ordered
<1> QED BY <1>5, <1>10 DEF all

-----------------------------------------------------------------------------
(***************************************************************************)
(* What one operation does to the rows.                                    *)
(***************************************************************************)
LEMMA ApplyParts ==
  ASSUME NEW rs, rs \subseteq Rows!Row, NEW op \in Rows!Op, NEW when \in Rows!Time
  PROVE  /\ Rows!Apply(rs, op, when) \subseteq Rows!Row
         /\ \A row : row.subject # op.subject =>
              (row \in Rows!Apply(rs, op, when) <=> row \in rs)
<1> DEFINE targets == {row \in rs : Rows!IsTarget(row, op, when)}
<1>1. Rows!NewRow(op, when) \in Rows!Row /\ Rows!NewRow(op, when).subject = op.subject
  BY RequestAssumption DEF Rows!NewRow, Rows!EPOCH, Rows!Row, Rows!Op, Rows!Time
<1>2. ASSUME NEW row \in targets
      PROVE  /\ row.subject = op.subject
             /\ Rows!Updated(row, op, when) \in Rows!Row
             /\ Rows!Updated(row, op, when).subject = op.subject
  <2>1. row \in Rows!Row /\ row.subject = op.subject
    BY DEF Rows!IsTarget, Rows!AssignTarget, Rows!ReleaseTarget
  <2>2. CASE op.kind = "ADDED"
    BY <2>1, <2>2 DEF Rows!Updated, Rows!Row, Rows!Time
  <2>3. CASE op.kind # "ADDED"
    BY <2>1, <2>3 DEF Rows!Updated, Rows!Row, Rows!Time
  <2> QED BY <2>1, <2>2, <2>3
<1> QED BY <1>1, <1>2 DEF Rows!Apply

\* What an operation that adds leaves of a start it adds, or finds.
AddedNow(s, when) ==
  {rs \in SUBSET Rows!Row :
     \E row \in rs : /\ row.subject = s /\ row.not_before = when
                     /\ row.not_after = NULL \/ row.not_after > when + 1}

\* What the rows say was reported: starts with their subjects, and ends.
Spoken(q, s) == \E c \in 1..Len(q.changes) : s \in Names(q, q.changes[c])
Reported(row) ==
  /\ row.not_before # Rows!EPOCH =>
       \E r \in Requests : row.not_before = Clock(r) /\ Spoken(r, row.subject)
  /\ row.not_after # NULL => \E r \in Requests : row.not_after = Clock(r)
Sound == {rs \in SUBSET Rows!Row : \A row \in rs : Reported(row)}

LEMMA ApplySound ==
  ASSUME NEW rs \in Sound, NEW op \in Rows!Op, NEW q \in Requests, Spoken(q, op.subject)
  PROVE  Rows!Apply(rs, op, Clock(q)) \in Sound
<1> DEFINE targets == {row \in rs : Rows!IsTarget(row, op, Clock(q))}
<1>1. Clock(q) \in Rows!Time /\ rs \subseteq Rows!Row
  BY RequestParts DEF Sound
<1>2. Rows!Apply(rs, op, Clock(q)) \subseteq Rows!Row
  BY <1>1, ApplyParts
<1>3. Reported(Rows!NewRow(op, Clock(q)))
  <2>1. CASE op.kind = "ADDED"
    BY <2>1 DEF Rows!NewRow, Reported
  <2>2. CASE op.kind # "ADDED"
    BY <2>2 DEF Rows!NewRow, Reported
  <2> QED BY <2>1, <2>2
<1>4. ASSUME NEW row \in targets PROVE Reported(Rows!Updated(row, op, Clock(q)))
  <2>1. row \in Rows!Row /\ row.subject = op.subject /\ Reported(row)
    BY <1>1 DEF Sound, Rows!IsTarget, Rows!AssignTarget, Rows!ReleaseTarget
  <2>2. CASE op.kind = "ADDED"
    <3>1. LET new == Rows!Updated(row, op, Clock(q)) IN
          /\ new.subject = op.subject /\ new.not_before = Clock(q)
          /\ new.not_after = row.not_after
      BY <2>1, <2>2 DEF Rows!Updated, Rows!Row
    <3> QED BY <2>1, <3>1 DEF Reported
  <2>3. CASE op.kind # "ADDED"
    <3>1. LET new == Rows!Updated(row, op, Clock(q)) IN
          /\ new.subject = row.subject /\ new.not_before = row.not_before
          /\ new.not_after = Clock(q)
      BY <2>1, <2>3 DEF Rows!Updated, Rows!Row
    <3> QED BY <2>1, <3>1 DEF Reported
  <2> QED BY <2>2, <2>3
<1>5. \A row \in Rows!Apply(rs, op, Clock(q)) : Reported(row)
  BY <1>3, <1>4 DEF Rows!Apply, Sound
<1> QED BY <1>2, <1>5 DEF Sound

\* A client has one hostname for an address of a resource at one time, and times that
\* are not next to each other, so that there is an instant between them.
OneNameEach ==
  \A q, r \in Requests : Clock(q) = Clock(r) =>
    \A s, u \in Subjects :
      Spoken(q, s) /\ Spoken(r, u) /\ IndexColumns[s] = IndexColumns[u] => s = u
ClocksApart == \A q, r \in Requests : Clock(r) # Clock(q) + 1

LEMMA AddKeepsAdded ==
  ASSUME NEW rs \in Sound, NEW op \in Rows!Op, op.kind = "ADDED", NEW when \in Rows!Time,
         NEW s, NEW t \in Rows!Time, rs \in AddedNow(s, t)
  PROVE  Rows!Apply(rs, op, when) \in AddedNow(s, t)
<1>1. Rows!Apply(rs, op, when) \in SUBSET Rows!Row
  BY ApplyParts DEF Sound
<1>2. PICK row \in rs : /\ row.subject = s /\ row.not_before = t
                        /\ row.not_after = NULL \/ row.not_after > t + 1
  BY DEF AddedNow
<1>3. ~Rows!IsTarget(row, op, when)
  BY <1>2 DEF Rows!IsTarget, Rows!AssignTarget, Rows!Time
<1>4. row \in Rows!Apply(rs, op, when)
  BY <1>3 DEF Rows!Apply
<1> QED BY <1>1, <1>2, <1>4 DEF AddedNow

LEMMA AddAdds ==
  ASSUME OneNameEach, ClocksApart,
         NEW rs \in Sound, NEW op \in Rows!Op, op.kind = "ADDED", NEW q \in Requests,
         Spoken(q, op.subject)
  PROVE  Rows!Apply(rs, op, Clock(q)) \in AddedNow(op.subject, Clock(q))
<1> DEFINE now == Clock(q)
           targets == {row \in rs : Rows!IsTarget(row, op, now)}
           new == Rows!NewRow(op, now)
           after == Rows!Apply(rs, op, now)
<1>1. now \in Nat /\ now > 0 /\ now \in Rows!Time /\ rs \subseteq Rows!Row
        /\ op.subject \in Subjects
  BY RequestParts DEF Sound, Rows!Op
<1>2. after \in SUBSET Rows!Row
  BY <1>1, ApplyParts
<1> SUFFICES \E row \in after : /\ row.subject = op.subject /\ row.not_before = now
                                /\ row.not_after = NULL \/ row.not_after > now + 1
  BY <1>2 DEF AddedNow
<1>3. CASE targets # {}
  <2>1. PICK row \in targets : TRUE
    BY <1>3
  <2>2. /\ row \in Rows!Row /\ Reported(row) /\ row.subject = op.subject
        /\ row.not_after # NULL /\ row.not_after > now
    BY <1>1 DEF Sound, Rows!IsTarget, Rows!AssignTarget
  <2>3. PICK r \in Requests : row.not_after = Clock(r)
    BY <2>2 DEF Reported
  <2>4. row.not_after > now + 1
    <3>1. Clock(r) \in Nat /\ Clock(r) # now + 1
      BY RequestParts DEF ClocksApart
    <3> QED BY <1>1, <2>2, <2>3, <3>1
  <2>5. LET changed == Rows!Updated(row, op, now) IN
        /\ changed.subject = op.subject /\ changed.not_before = now
        /\ changed.not_after = row.not_after
    BY <2>2 DEF Rows!Updated, Rows!Row
  <2>6. Rows!Updated(row, op, now) \in after
    BY <1>3 DEF Rows!Apply
  <2> QED BY <2>4, <2>5, <2>6
<1>4. CASE targets = {}
  <2>1. new.subject = op.subject /\ new.not_before = now /\ new.not_after = NULL
    BY DEF Rows!NewRow
  <2>2. CASE \E row \in rs : Rows!Conflict(new, row)
    <3>1. PICK row \in rs : Rows!Conflict(new, row)
      BY <2>2
    <3>2. /\ row \in Rows!Row /\ Reported(row) /\ row.not_after = NULL /\ row.not_before = now
          /\ IndexColumns[op.subject] = IndexColumns[row.subject]
      BY <1>1, <2>1, <3>1 DEF Sound, Rows!Conflict
    <3>3. PICK r \in Requests : now = Clock(r) /\ Spoken(r, row.subject)
      BY <1>1, <3>2 DEF Reported, Rows!EPOCH
    <3>4. row.subject = op.subject
      BY <1>1, <3>2, <3>3 DEF OneNameEach, Rows!Row
    <3>5. row \in after
      BY <1>4, <2>2 DEF Rows!Apply
    <3> QED BY <3>2, <3>4, <3>5
  <2>3. CASE ~(\E row \in rs : Rows!Conflict(new, row))
    <3>1. new \in after
      BY <1>4, <2>3 DEF Rows!Apply
    <3> QED BY <2>1, <3>1
  <2> QED BY <2>2, <2>3
<1> QED BY <1>3, <1>4

-----------------------------------------------------------------------------
(***************************************************************************)
(* One request after the other.                                            *)
(***************************************************************************)
\* What each step keeps holds to the end.
LEMMA Along ==
  ASSUME NEW f, NEW n \in Nat, NEW m \in 0..n, NEW I, f[m] \in I,
         \A i \in (m + 1)..n : f[i - 1] \in I => f[i] \in I
  PROVE  \A i \in m..n : f[i] \in I
<1> DEFINE S == {k \in Nat : m + k <= n => f[m + k] \in I}
<1>1. 0 \in S
  OBVIOUS
<1>2. ASSUME NEW k \in Nat, k \in S PROVE k + 1 \in S
  <2> SUFFICES ASSUME m + (k + 1) <= n PROVE f[m + (k + 1)] \in I
    OBVIOUS
  <2>1. /\ m + (k + 1) \in (m + 1)..n /\ (m + (k + 1)) - 1 = m + k
        /\ m + k <= n
    OBVIOUS
  <2>2. f[m + k] \in I
    BY <1>2, <2>1
  <2> QED BY <2>1, <2>2
<1>3. Nat \subseteq S
  <2> HIDE DEF S
  <2> QED BY <1>1, <1>2, Induction
<1>4. ASSUME NEW i \in m..n PROVE f[i] \in I
  <2>1. i - m \in Nat /\ m + (i - m) = i /\ i <= n
    OBVIOUS
  <2>2. i - m \in S
    BY <1>3, <2>1
  <2>3. m + (i - m) <= n => f[m + (i - m)] \in I
    BY <2>2
  <2> QED BY <2>1, <2>3
<1> QED BY <1>4

\* f[i] are the rows after the first i operations of q.
Stages(f, from, q) ==
  LET ops == Operations(q) IN
  /\ Ordered(ops, from, q)
  /\ ops \in Seq(Rows!Op)
  /\ \A i \in 1..Len(ops) : f[i] = Rows!Apply(f[i - 1], ops[i], Clock(q))
  /\ \A i \in 0..Len(ops) : f[i] \in Sound

LEMMA StoreSteps ==
  ASSUME NEW q \in Requests, rows \in Sound, Store(q)
  PROVE  \E f, from : Stages(f, from, q) /\ f[0] = rows /\ f[Len(Operations(q))] = rows'
<1> DEFINE ops == Operations(q)
           n == Len(ops)
<1>1. ops \in Seq(Rows!Op) /\ \E from : Ordered(ops, from, q)
  BY OperationsParts
<1> HIDE DEF ops
<1>2. n \in Nat /\ \A i \in 1..n : ops[i] \in Rows!Op
  BY <1>1
<1>3. PICK from : Ordered(ops, from, q)
  BY <1>1
<1>4. PICK f : /\ AfterAll(ops, Clock(q)) = f[n] /\ f[0] = rows
               /\ \A i \in 1..n : f[i] = Rows!Apply(f[i - 1], ops[i], Clock(q))
  BY <1>2, AfterSteps
<1>5. f[n] = rows'
  BY <1>4 DEF Store, Clock, ops
<1>6. ASSUME NEW i \in (0 + 1)..n, f[i - 1] \in Sound
      PROVE  f[i] \in Sound
  <2>1. Spoken(q, ops[i].subject)
    BY <1>3 DEF Ordered, Spoken
  <2> QED BY <1>2, <1>4, <1>6, <2>1, ApplySound
<1>7. \A i \in 0..n : f[i] \in Sound
  <2>1. n \in Nat /\ 0 \in 0..n /\ f[0] \in Sound
    BY <1>2, <1>4
  <2> HIDE DEF n
  <2> QED BY <1>6, <2>1, Along
<1> QED BY <1>1, <1>3, <1>4, <1>5, <1>7 DEF Stages, ops

-----------------------------------------------------------------------------
\* The rows are rows, and say nothing that was not reported: without this an end
\* could be the next instant after a start, which no lookup finds.
IInv ==
  /\ TypeOK
  /\ rows \in Sound

LEMMA IInvInit == Init => IInv
<1> SUFFICES ASSUME Init PROVE IInv
  OBVIOUS
<1>1. <<>> \in Seq(Requests) /\ Len(<<>>) <= MaxStored
  BY RequestAssumption
<1> QED BY <1>1 DEF Init, IInv, TypeOK, Sound

LEMMA StoreKeeps ==
  ASSUME IInv, NEW q \in Requests, Store(q)
  PROVE  IInv'
<1>1. PICK f, from : Stages(f, from, q) /\ f[Len(Operations(q))] = rows'
  BY StoreSteps DEF IInv
<1>2. Len(Operations(q)) \in 0..Len(Operations(q))
  <2>1. Operations(q) \in Seq(Rows!Op)
    BY OperationsParts
  <2> HIDE DEF Operations
  <2> QED BY <2>1
<1>3. rows' \in Sound
  BY <1>1, <1>2 DEF Stages
<1>4. \A row \in rows' : row \in Rows!Row
  BY <1>3 DEF Sound
<1>5. stored' \in Seq(Requests) /\ Len(stored') <= MaxStored
  <2>1. /\ stored \in Seq(Requests) /\ stored' = Append(stored, q)
        /\ Len(stored) < MaxStored /\ MaxStored \in Nat
    BY RequestAssumption DEF IInv, TypeOK, Store
  <2> QED BY <2>1
<1> QED BY <1>3, <1>4, <1>5 DEF IInv, TypeOK

\* The inductive invariant holds however requests are stored by DB.Store.
THEOREM IInvCorrect == Spec => []IInv
<1>1. IInv /\ [Next]_vars => IInv'
  <2> SUFFICES ASSUME IInv, [Next]_vars PROVE IInv'
    OBVIOUS
  <2>1. CASE Next
    BY <2>1, StoreKeeps DEF Next
  <2>2. CASE UNCHANGED vars
    BY <2>2 DEF vars, IInv, TypeOK
  <2> QED BY <2>1, <2>2
<1> QED BY IInvInit, <1>1, PTL DEF Spec

\* What applyChanges writes are rows of the three tables.
THEOREM TypeCorrect == Spec => []TypeOK
<1>1. IInv => TypeOK
  BY DEF IInv
<1> QED BY <1>1, IInvCorrect, PTL

-----------------------------------------------------------------------------
(***************************************************************************)
(* The requests touch nothing but what they name.                          *)
(***************************************************************************)
LEMMA PrefixOfTwo ==
  ASSUME NEW S, NEW x, NEW y, NEW a \in Seq(S)
  PROVE  IsPrefix(<<x, y>>, a) <=> Len(a) > 1 /\ a[1] = x /\ a[2] = y
<1> DEFINE xy == <<x, y>>
           b == SubSeq(a, 1, 2)
           T == S \cup {x, y}
<1>1. xy \in Seq(T) /\ a \in Seq(T) /\ Len(xy) = 2 /\ xy[1] = x /\ xy[2] = y
  OBVIOUS
<1> HIDE DEF xy, T
<1>2. SubSeq(xy, 1, Len(xy)) = xy
  BY <1>1
<1>3. CASE Len(a) > 1
  <2>1. b \in Seq(T) /\ Len(b) = 2 /\ b[1] = a[1] /\ b[2] = a[2]
    BY <1>1, <1>3
  <2> HIDE DEF b
  <2>2. xy = b <=> a[1] = x /\ a[2] = y
    BY <1>1, <2>1
  <2>3. IsPrefix(xy, a) <=> xy = b
    BY <1>1, <1>2, <1>3 DEF IsPrefix, b
  <2> QED BY <1>3, <2>2, <2>3 DEF xy
<1>4. CASE ~(Len(a) > 1)
  <2>1. ~IsPrefix(xy, a)
    BY <1>1, <1>4 DEF IsPrefix
  <2> QED BY <1>4, <2>1 DEF xy
<1> QED BY <1>3, <1>4

LEMMA Single == ASSUME NEW x PROVE Len(<<x>>) = 1
  OBVIOUS

LEMMA OtherIds ==
  ASSUME NEW arn \in Arn, NEW other \in Arn, ~SameResource(arn, other)
  PROVE  resIDFromARN(arn) # resIDFromARN(other)
<1> DEFINE app == <<"loadbalancer", "app">>
<1>1. ASSUME NEW a \in Arn
      PROVE  /\ a \in Seq(STRING) /\ Len(a) \in Nat \ {0}
             /\ IsApp(a) => Len(a) > 2
             /\ IsPrefix(app, a) <=> IsApp(a)
  <2>1. a \in Seq(STRING) /\ a # <<>> /\ (IsApp(a) => Len(a) > 2)
    BY RequestAssumption
  <2>2. Len(a) \in Nat \ {0}
    BY <2>1
  <2>3. IsPrefix(app, a) <=> IsApp(a)
    BY <2>1, PrefixOfTwo DEF IsApp
  <2> QED BY <2>1, <2>2, <2>3
<1>2. ASSUME NEW a \in Arn
      PROVE  resIDFromARN(a) = IF IsApp(a) THEN Tail(a) ELSE <<a[Len(a)]>>
  BY <1>1 DEF resIDFromARN, Last
<1>3. CASE IsApp(arn) /\ IsApp(other)
  <2>1. Tail(arn) # Tail(other)
    <3>1. /\ arn # other /\ arn[1] = other[1] /\ arn \in Seq(STRING) /\ other \in Seq(STRING)
          /\ Len(arn) > 2 /\ Len(other) > 2
      BY <1>1, <1>3 DEF SameResource, IsApp
    <3> SUFFICES ASSUME Tail(arn) = Tail(other) PROVE FALSE
      OBVIOUS
    <3>2. Len(arn) = Len(other)
      <4>1. Len(Tail(arn)) = Len(arn) - 1 /\ Len(Tail(other)) = Len(other) - 1
        BY <3>1
      <4> QED BY <3>1, <4>1
    <3>3. ASSUME NEW i \in 1..Len(arn) PROVE arn[i] = other[i]
      <4>1. CASE i = 1
        BY <3>1, <4>1
      <4>2. CASE i # 1
        <5>1. i - 1 \in 1..(Len(arn) - 1) /\ (i - 1) + 1 = i
          BY <3>1, <4>2
        <5>2. Tail(arn)[i - 1] = arn[i] /\ Tail(other)[i - 1] = other[i]
          BY <3>1, <3>2, <5>1
        <5> QED BY <5>2
      <4> QED BY <4>1, <4>2
    <3> QED BY <3>1, <3>2, <3>3
  <2> QED BY <1>2, <1>3, <2>1
<1>4. CASE ~IsApp(arn) /\ ~IsApp(other)
  <2>1. arn[Len(arn)] # other[Len(other)]
    BY <1>4 DEF SameResource
  <2> QED BY <1>2, <1>4, <2>1
<1>5. CASE IsApp(arn) /\ ~IsApp(other)
  <2>1. Tail(arn) # <<other[Len(other)]>>
    <3>1. Len(Tail(arn)) = Len(arn) - 1 /\ Len(arn) \in Nat /\ Len(arn) > 2
      BY <1>1, <1>5
    <3> SUFFICES ASSUME Tail(arn) = <<other[Len(other)]>> PROVE FALSE
      OBVIOUS
    <3>2. Len(Tail(arn)) = 1
      BY Single
    <3> QED BY <3>1, <3>2
  <2>2. resIDFromARN(arn) = Tail(arn) /\ resIDFromARN(other) = <<other[Len(other)]>>
    BY <1>2, <1>5
  <2> QED BY <2>1, <2>2
<1>6. CASE ~IsApp(arn) /\ IsApp(other)
  <2>1. Tail(other) # <<arn[Len(arn)]>>
    <3>1. Len(Tail(other)) = Len(other) - 1 /\ Len(other) \in Nat /\ Len(other) > 2
      BY <1>1, <1>6
    <3> SUFFICES ASSUME Tail(other) = <<arn[Len(arn)]>> PROVE FALSE
      OBVIOUS
    <3>2. Len(Tail(other)) = 1
      BY Single
    <3> QED BY <3>1, <3>2
  <2>2. resIDFromARN(other) = Tail(other) /\ resIDFromARN(arn) = <<arn[Len(arn)]>>
    BY <1>2, <1>6
  <2> QED BY <2>1, <2>2
<1> QED BY <1>3, <1>4, <1>5, <1>6

\* The rows of a resource, without its relationships.
OwnedBy(res, rs) ==
  {r \in rs : r.subject \in PrivateSubject \cup PublicSubject /\ r.subject[2] = res}

LEMMA OthersKept ==
  ASSUME IInv, NEW q \in Requests, Store(q), NEW res, res # ResourceOf(q)
  PROVE  OwnedBy(res, rows) = OwnedBy(res, rows')
<1> DEFINE ops == Operations(q)
           n == Len(ops)
           I == {rs \in Sound : OwnedBy(res, rs) = OwnedBy(res, rows)}
<1>1. PICK f, from : Stages(f, from, q) /\ f[0] = rows /\ f[n] = rows'
  BY StoreSteps DEF IInv
<1>2. ops \in Seq(Rows!Op)
  BY OperationsParts
<1> HIDE DEF ops
<1>3. n \in Nat /\ \A i \in 1..n : ops[i] \in Rows!Op
  BY <1>2
<1>4. rows \in I
  BY DEF IInv
<1>5. ASSUME NEW i \in (0 + 1)..n, f[i - 1] \in I PROVE f[i] \in I
  <2>1. /\ f[i] = Rows!Apply(f[i - 1], ops[i], Clock(q)) /\ f[i] \in Sound
        /\ f[i - 1] \subseteq Rows!Row /\ ops[i] \in Rows!Op
    BY <1>1, <1>3, <1>5 DEF Stages, ops, Sound
  <2>2. \A row : row.subject # ops[i].subject => (row \in f[i] <=> row \in f[i - 1])
    BY <2>1, RequestParts, ApplyParts
  <2>3. ops[i].subject \in PrivateSubject \cup PublicSubject => ops[i].subject[2] # res
    <3>1. /\ from[i] \in 1..Len(q.changes)
          /\ ops[i].subject \in Names(q, q.changes[from[i]])
      BY <1>1 DEF Stages, Ordered, ops
    <3> QED BY <3>1, RequestParts, NamesParts
  <2>4. OwnedBy(res, f[i]) = OwnedBy(res, f[i - 1])
    BY <2>2, <2>3 DEF OwnedBy
  <2> QED BY <1>5, <2>1, <2>4
<1>6. f[n] \in I
  <2>1. n \in Nat /\ 0 \in 0..n /\ n \in 0..n /\ f[0] \in I
    BY <1>1, <1>3, <1>4 DEF ops
  <2> HIDE DEF I, n
  <2>2. \A i \in 0..n : f[i] \in I
    BY <1>5, <2>1, Along
  <2> QED BY <2>1, <2>2
<1> QED BY <1>1, <1>6

\* applyChanges changes no row of a resource that the request does not name, however
\* many changes and addresses it has.
THEOREM OthersAreUntouched == Spec => OtherResourcesUntouched
<1>1. ASSUME IInv, Next
      PROVE  LET q == Last(stored')
             IN \A arn \in Arn, account \in Account :
                  account # q.account \/ ~SameResource(arn, q.arn) =>
                    OwnedBy(<<resIDFromARN(arn), account>>, rows)
                      = OwnedBy(<<resIDFromARN(arn), account>>, rows')
  <2>1. PICK q \in Requests : Store(q)
    BY <1>1 DEF Next
  <2>2. Last(stored') = q
    <3>1. stored \in Seq(Requests) /\ stored' = Append(stored, q)
      BY <1>1, <2>1 DEF IInv, TypeOK, Store
    <3> QED BY <3>1 DEF Last
  <2>3. ASSUME NEW arn \in Arn, NEW account \in Account,
               account # q.account \/ ~SameResource(arn, q.arn)
        PROVE  <<resIDFromARN(arn), account>> # ResourceOf(q)
    BY <2>3, RequestParts, OtherIds DEF ResourceOf
  <2> QED BY <1>1, <2>1, <2>2, <2>3, OthersKept
<1>2. IInv /\ [Next]_vars =>
        [LET q == Last(stored')
         IN \A arn \in Arn, account \in Account :
              account # q.account \/ ~SameResource(arn, q.arn) =>
                LET Own(rs) == {r \in rs : r.subject \in PrivateSubject \cup PublicSubject
                                            /\ r.subject[2] = <<resIDFromARN(arn), account>>}
                IN Own(rows) = Own(rows')]_vars
  BY <1>1 DEF OwnedBy
<1> QED BY <1>2, IInvCorrect, PTL DEF Spec, OtherResourcesUntouched

-----------------------------------------------------------------------------
(***************************************************************************)
(* The request that was stored last is found.                              *)
(***************************************************************************)
\* The change c of q adds, and no later one takes anything back.
Stays(q, c) == Kind(q.changes[c]) = "ADDED" /\ ~TakenBack(q, c)

\* What the lookups rest on: what the last request adds is open, or ends later than
\* the instant they ask for.
LastAdded ==
  stored # <<>> =>
    LET q == Last(stored) IN
    \A c \in 1..Len(q.changes) : Stays(q, c) =>
      \A s \in Names(q, q.changes[c]) : rows \in AddedNow(s, Clock(q))

LEMMA StoreAdds ==
  ASSUME OneNameEach, ClocksApart, IInv, NEW q \in Requests, Store(q),
         NEW c \in 1..Len(q.changes), Stays(q, c), NEW s \in Names(q, q.changes[c])
  PROVE  rows' \in AddedNow(s, Clock(q))
<1> DEFINE ops == Operations(q)
           n == Len(ops)
           I == Sound \cap AddedNow(s, Clock(q))
<1>1. PICK f, from : Stages(f, from, q) /\ f[n] = rows'
  BY StoreSteps DEF IInv
<1>2. ops \in Seq(Rows!Op)
  BY OperationsParts
<1> HIDE DEF ops
<1>3. n \in Nat /\ \A i \in 1..n : ops[i] \in Rows!Op
  BY <1>2
<1>4. /\ from \in [1..n -> 1..Len(q.changes)]
      /\ \A k, l \in 1..n : k <= l => from[k] <= from[l]
      /\ \A k \in 1..n : /\ ops[k].kind = Kind(q.changes[from[k]])
                         /\ Spoken(q, ops[k].subject)
      /\ \A i \in 1..n : f[i] = Rows!Apply(f[i - 1], ops[i], Clock(q))
      /\ \A i \in 0..n : f[i] \in Sound
  BY <1>1 DEF Stages, Ordered, Spoken, ops
<1>5. PICK m \in 1..n : from[m] = c /\ ops[m].subject = s
  BY <1>1 DEF Stages, Ordered, ops
<1>6. ASSUME NEW i \in m..n PROVE i \in 1..n /\ ops[i].kind = "ADDED"
  <2>1. i \in 1..n /\ m <= i
    BY <1>3, <1>5
  <2>2. from[i] \in 1..Len(q.changes) /\ c <= from[i]
    BY <1>4, <1>5, <2>1
  <2>3. from[i] = c \/ from[i] \in (c + 1)..Len(q.changes)
    BY <2>2, RequestParts
  <2>4. Kind(q.changes[from[i]]) = "ADDED"
    BY <2>3 DEF Stays, TakenBack, Kind
  <2> QED BY <1>4, <2>1, <2>4
<1>7. f[m] \in I
  <2>1. m \in 0..n /\ m - 1 \in 0..n /\ m \in m..n
    BY <1>3, <1>5
  <2>2. /\ f[m] \in Sound /\ f[m - 1] \in Sound /\ ops[m].kind = "ADDED"
        /\ ops[m] \in Rows!Op /\ f[m] = Rows!Apply(f[m - 1], ops[m], Clock(q))
        /\ Spoken(q, ops[m].subject)
    BY <1>3, <1>4, <1>5, <1>6, <2>1
  <2> QED BY <1>5, <2>2, AddAdds
<1>8. ASSUME NEW i \in (m + 1)..n, f[i - 1] \in I PROVE f[i] \in I
  <2>1. i \in m..n /\ i \in 0..n
    BY <1>3, <1>5
  <2>2. /\ f[i] \in Sound /\ ops[i].kind = "ADDED" /\ ops[i] \in Rows!Op
        /\ f[i] = Rows!Apply(f[i - 1], ops[i], Clock(q))
    BY <1>3, <1>4, <1>6, <2>1
  <2>3. Clock(q) \in Rows!Time
    BY RequestParts
  <2> QED BY <1>8, <2>2, <2>3, AddKeepsAdded
<1>9. f[n] \in I
  <2>1. n \in Nat /\ m \in 0..n /\ n \in m..n
    BY <1>3, <1>5
  <2> HIDE DEF I, n
  <2>2. \A i \in m..n : f[i] \in I
    BY <1>7, <1>8, <2>1, Along
  <2> QED BY <2>1, <2>2
<1> QED BY <1>1, <1>9 DEF ops

LEMMA NamedAreFound ==
  ASSUME NEW q \in Requests, NEW change \in ChangeShape,
         \A s \in Names(q, change) : rows \in AddedNow(s, Clock(q))
  PROVE  AddressesPresent(q, change, q.zone)
<1> DEFINE ts == q.time + q.zone + 1
<1>1. ts = Clock(q) + 1 /\ Clock(q) \in Nat
  BY RequestParts DEF Clock, WallClock
<1>2. ASSUME NEW s \in Names(q, change)
      PROVE  \E row \in rows : row.subject = s /\ Rows!ActiveAt(row, ts)
  <2>1. PICK row \in rows : /\ row.subject = s /\ row.not_before = Clock(q)
                            /\ row.not_after = NULL \/ row.not_after > Clock(q) + 1
    BY DEF AddedNow
  <2>2. Rows!ActiveAt(row, ts)
    BY <1>1, <2>1 DEF Rows!ActiveAt
  <2> QED BY <2>1, <2>2
<1> HIDE DEF ts
<1>3. /\ change.privateIPs \in Seq(PrivateIP) /\ change.publicIPs \in Seq(PublicIP)
      /\ change.hostnames \in Seq(Hostname)
  BY DEF ChangeShape
<1>4. ASSUME NEW i \in DOMAIN change.privateIPs
      PROVE  isPrivateIP(change.privateIPs[i]) =>
               ResourceOf(q) \in FetchByIP(change.privateIPs[i], ts)
  <2> DEFINE s == <<"private", ResourceOf(q), change.privateIPs[i]>>
  <2>1. i \in 1..Len(change.privateIPs)
    BY <1>3
  <2>2. s \in Names(q, change) /\ s \in PrivateSubject
    BY <1>3, <2>1, RequestParts DEF Names, PrivateSubject
  <2>3. s[2] = ResourceOf(q) /\ s[3] = change.privateIPs[i]
    OBVIOUS
  <2> HIDE DEF s
  <2>4. PICK row \in rows : row.subject = s /\ Rows!ActiveAt(row, ts)
    BY <1>2, <2>2
  <2>5. row \in PrivateRows(ts)
    BY <2>2, <2>4 DEF PrivateRows
  <2> QED BY <2>3, <2>4, <2>5 DEF FetchByIP
<1>5. ASSUME NEW i \in DOMAIN change.publicIPs, NEW j \in DOMAIN change.hostnames
      PROVE  /\ ~isPrivateIP(change.publicIPs[i]) =>
                  ResourceOf(q) \in FetchByIP(change.publicIPs[i], ts)
             /\ ResourceOf(q) \in FetchByHostname(change.hostnames[j], ts)
  <2> DEFINE s == <<"public", ResourceOf(q), change.publicIPs[i], change.hostnames[j]>>
  <2>1. i \in 1..Len(change.publicIPs) /\ j \in 1..Len(change.hostnames)
    BY <1>3
  <2>2. s \in Names(q, change) /\ s \in PublicSubject
    BY <1>3, <2>1, RequestParts DEF Names, PublicSubject
  <2>3. s[2] = ResourceOf(q) /\ s[3] = change.publicIPs[i] /\ s[4] = change.hostnames[j]
    OBVIOUS
  <2> HIDE DEF s
  <2>4. PICK row \in rows : row.subject = s /\ Rows!ActiveAt(row, ts)
    BY <1>2, <2>2
  <2>5. row \in PublicRows(ts)
    BY <2>2, <2>4 DEF PublicRows
  <2> QED BY <2>3, <2>4, <2>5 DEF FetchByIP, FetchByHostname
<1>6. /\ change.publicIPs # <<>> => \E i \in DOMAIN change.publicIPs : TRUE
      /\ change.hostnames # <<>> => \E j \in DOMAIN change.hostnames : TRUE
  <2>1. ASSUME NEW S, NEW t \in Seq(S), t # <<>> PROVE 1 \in DOMAIN t
    BY <2>1
  <2> QED BY <1>3, <2>1
<1> QED BY <1>4, <1>5, <1>6 DEF AddressesPresent, ts

\* All that the last request adds is found by hostname, and by address unless it was
\* stored as private or public against its range, in the zone of the request, whatever
\* was stored before, in whatever order.
THEOREM AdditionsAreFound ==
  ASSUME OneNameEach, ClocksApart
  PROVE  Spec => []AddedIsFound
<1>1. Init => LastAdded
  BY DEF Init, LastAdded
<1>2. IInv /\ LastAdded /\ [Next]_vars => LastAdded'
  <2> SUFFICES ASSUME IInv, LastAdded, [Next]_vars PROVE LastAdded'
    OBVIOUS
  <2>1. CASE Next
    <3>1. PICK q \in Requests : Store(q)
      BY <2>1 DEF Next
    <3>2. Last(stored') = q
      <4>1. stored \in Seq(Requests) /\ stored' = Append(stored, q)
        BY <3>1 DEF IInv, TypeOK, Store
      <4> QED BY <4>1 DEF Last
    <3> QED BY <3>1, <3>2, StoreAdds DEF LastAdded
  <2>2. CASE UNCHANGED vars
    BY <2>2 DEF vars, LastAdded
  <2> QED BY <2>1, <2>2
<1>3. IInv /\ LastAdded => AddedIsFound
  <2> SUFFICES ASSUME IInv, LastAdded, stored # <<>>, NEW q, q = Last(stored),
                      NEW c \in DOMAIN q.changes, Stays(q, c)
               PROVE  AddressesPresent(q, q.changes[c], q.zone)
    BY DEF AddedIsFound, ChangesPresent, Stays
  <2>1. q \in Requests
    <3>1. stored \in Seq(Requests)
      BY DEF IInv, TypeOK
    <3> QED BY <3>1 DEF Last
  <2>2. c \in 1..Len(q.changes)
    <3>1. q.changes \in Seq(ChangeShape)
      BY <2>1, RequestAssumption DEF RequestShape
    <3> QED BY <3>1
  <2>3. q.changes[c] \in ChangeShape
    BY <2>1, <2>2, RequestParts
  <2>4. \A s \in Names(q, q.changes[c]) : rows \in AddedNow(s, Clock(q))
    BY <2>2 DEF LastAdded
  <2> QED BY <2>1, <2>3, <2>4, NamedAreFound
<1> QED BY <1>1, <1>2, <1>3, IInvCorrect, PTL DEF Spec

-----------------------------------------------------------------------------
(***************************************************************************)
(* What it takes back is not found any more.                               *)
(***************************************************************************)
\* No assignment of s is open.
Closed(s) ==
  {rs \in SUBSET Rows!Row : \A row \in rs : row.subject = s => row.not_after # NULL}

\* The ends are all of times.
EndsIn(times) ==
  {rs \in SUBSET Rows!Row : \A row \in rs : row.not_after # NULL => row.not_after \in times}

LEMMA ReleaseParts ==
  ASSUME NEW rs, rs \subseteq Rows!Row, NEW op \in Rows!Op, op.kind = "DELETED",
         NEW when \in Rows!Time, NEW row \in Rows!Apply(rs, op, when),
         row.subject = op.subject
  PROVE  row.not_after # NULL
<1> DEFINE targets == {r \in rs : Rows!IsTarget(r, op, when)}
<1>1. when # NULL
  BY RequestAssumption DEF Rows!Time
<1>2. Rows!NewRow(op, when).not_after = when
  BY DEF Rows!NewRow
<1>3. ASSUME NEW r \in targets PROVE Rows!Updated(r, op, when).not_after = when
  BY DEF Rows!Updated, Rows!Row
<1>4. CASE row \in rs /\ row \notin targets
  BY <1>4 DEF Rows!IsTarget, Rows!ReleaseTarget
<1>5. CASE targets # {}
  BY <1>1, <1>3, <1>4, <1>5 DEF Rows!Apply
<1>6. CASE targets = {}
  BY <1>1, <1>2, <1>4, <1>6 DEF Rows!Apply
<1> QED BY <1>5, <1>6

LEMMA ReleaseCloses ==
  ASSUME NEW rs, rs \subseteq Rows!Row, NEW op \in Rows!Op, op.kind = "DELETED",
         NEW when \in Rows!Time
  PROVE  Rows!Apply(rs, op, when) \in Closed(op.subject)
<1>1. Rows!Apply(rs, op, when) \subseteq Rows!Row
  BY ApplyParts
<1> QED BY <1>1, ReleaseParts DEF Closed

LEMMA ReleaseKeepsClosed ==
  ASSUME NEW s, NEW rs \in Closed(s), NEW op \in Rows!Op, op.kind = "DELETED",
         NEW when \in Rows!Time
  PROVE  Rows!Apply(rs, op, when) \in Closed(s)
<1>1. rs \subseteq Rows!Row
  BY DEF Closed
<1>2. CASE op.subject = s
  BY <1>1, <1>2, ReleaseCloses
<1>3. CASE op.subject # s
  <2>1. /\ Rows!Apply(rs, op, when) \subseteq Rows!Row
        /\ \A row : row.subject # op.subject =>
             (row \in Rows!Apply(rs, op, when) <=> row \in rs)
    BY <1>1, ApplyParts
  <2> QED BY <1>3, <2>1 DEF Closed
<1> QED BY <1>2, <1>3

LEMMA ApplyEnds ==
  ASSUME NEW times, NEW rs \in EndsIn(times), NEW op \in Rows!Op,
         NEW when \in Rows!Time, when \in times
  PROVE  Rows!Apply(rs, op, when) \in EndsIn(times)
<1> DEFINE targets == {row \in rs : Rows!IsTarget(row, op, when)}
<1>1. rs \subseteq Rows!Row /\ Rows!Apply(rs, op, when) \subseteq Rows!Row
  BY ApplyParts DEF EndsIn
<1>2. Rows!NewRow(op, when).not_after \in {when, NULL}
  BY DEF Rows!NewRow
<1>3. ASSUME NEW row \in targets
      PROVE  Rows!Updated(row, op, when).not_after \in {when, row.not_after}
  <2>1. row \in Rows!Row
    BY <1>1
  <2>2. CASE op.kind = "ADDED"
    BY <2>1, <2>2 DEF Rows!Updated, Rows!Row
  <2>3. CASE op.kind # "ADDED"
    BY <2>1, <2>3 DEF Rows!Updated, Rows!Row
  <2> QED BY <2>2, <2>3
<1>4. ASSUME NEW row \in Rows!Apply(rs, op, when), row.not_after # NULL
      PROVE  row.not_after \in times
  <2>1. CASE row \in rs
    BY <1>4, <2>1 DEF EndsIn
  <2>2. CASE \E r \in targets : row = Rows!Updated(r, op, when)
    BY <1>3, <1>4, <2>2 DEF EndsIn
  <2>3. CASE row = Rows!NewRow(op, when)
    BY <1>2, <1>4, <2>3
  <2> QED BY <2>1, <2>2, <2>3 DEF Rows!Apply
<1> QED BY <1>1, <1>4 DEF EndsIn

\* The change c of q takes back, and no later one adds anything.
Goes(q, c) == Kind(q.changes[c]) = "DELETED" /\ ~AddedAgain(q, c)

\* What the lookups rest on: what the last request takes back has ended, at a time
\* that a stored request has.
StoredTimes == {Clock(stored[k]) : k \in 1..Len(stored)}
LastClosed ==
  /\ rows \in EndsIn(StoredTimes)
  /\ stored # <<>> =>
       LET q == Last(stored) IN
       \A c \in 1..Len(q.changes) : Goes(q, c) =>
         \A s \in Names(q, q.changes[c]) : rows \in Closed(s)

LEMMA StoreEnds ==
  ASSUME IInv, NEW q \in Requests, Store(q), rows \in EndsIn(StoredTimes)
  PROVE  rows' \in EndsIn(StoredTimes')
<1> DEFINE ops == Operations(q)
           n == Len(ops)
           I == EndsIn(StoredTimes')
<1>1. PICK f, from : Stages(f, from, q) /\ f[0] = rows /\ f[n] = rows'
  BY StoreSteps DEF IInv
<1>2. ops \in Seq(Rows!Op)
  BY OperationsParts
<1> HIDE DEF ops
<1>3. n \in Nat /\ \A i \in 1..n : ops[i] \in Rows!Op
  BY <1>2
<1>4. StoredTimes \subseteq StoredTimes' /\ Clock(q) \in StoredTimes'
  <2>1. stored \in Seq(Requests) /\ stored' = Append(stored, q)
    BY DEF IInv, TypeOK, Store
  <2>2. /\ Len(stored) \in Nat /\ Len(stored') = Len(stored) + 1 /\ stored'[Len(stored')] = q
        /\ \A k \in 1..Len(stored) : stored'[k] = stored[k]
    BY <2>1
  <2> QED BY <2>2 DEF StoredTimes
<1> HIDE DEF I
<1>5. f[0] \in I
  BY <1>1, <1>4 DEF I, EndsIn
<1>6. ASSUME NEW i \in (0 + 1)..n, f[i - 1] \in I PROVE f[i] \in I
  <2>1. /\ f[i] = Rows!Apply(f[i - 1], ops[i], Clock(q)) /\ ops[i] \in Rows!Op
        /\ Clock(q) \in Rows!Time
    BY <1>1, <1>3, RequestParts DEF Stages, ops
  <2> QED BY <1>4, <1>6, <2>1, ApplyEnds DEF I
<1>7. f[n] \in I
  <2>1. n \in Nat /\ 0 \in 0..n /\ n \in 0..n
    BY <1>3
  <2> HIDE DEF n
  <2>2. \A i \in 0..n : f[i] \in I
    BY <1>5, <1>6, <2>1, Along
  <2> QED BY <2>1, <2>2
<1> QED BY <1>1, <1>7 DEF I, ops

LEMMA StoreCloses ==
  ASSUME IInv, NEW q \in Requests, Store(q),
         NEW c \in 1..Len(q.changes), Goes(q, c), NEW s \in Names(q, q.changes[c])
  PROVE  rows' \in Closed(s)
<1> DEFINE ops == Operations(q)
           n == Len(ops)
           I == Closed(s)
<1>1. PICK f, from : Stages(f, from, q) /\ f[n] = rows'
  BY StoreSteps DEF IInv
<1>2. ops \in Seq(Rows!Op)
  BY OperationsParts
<1> HIDE DEF ops
<1>3. n \in Nat /\ \A i \in 1..n : ops[i] \in Rows!Op
  BY <1>2
<1>4. /\ from \in [1..n -> 1..Len(q.changes)]
      /\ \A k, l \in 1..n : k <= l => from[k] <= from[l]
      /\ \A k \in 1..n : ops[k].kind = Kind(q.changes[from[k]])
      /\ \A i \in 1..n : f[i] = Rows!Apply(f[i - 1], ops[i], Clock(q))
      /\ \A i \in 0..n : f[i] \in Sound
  BY <1>1 DEF Stages, Ordered, ops
<1>5. PICK m \in 1..n : from[m] = c /\ ops[m].subject = s
  BY <1>1 DEF Stages, Ordered, ops
<1>6. ASSUME NEW i \in m..n PROVE i \in 1..n /\ ops[i].kind = "DELETED"
  <2>1. i \in 1..n /\ m <= i
    BY <1>3, <1>5
  <2>2. from[i] \in 1..Len(q.changes) /\ c <= from[i]
    BY <1>4, <1>5, <2>1
  <2>3. from[i] = c \/ from[i] \in (c + 1)..Len(q.changes)
    BY <2>2, RequestParts
  <2>4. Kind(q.changes[from[i]]) = "DELETED"
    BY <2>3 DEF Goes, AddedAgain, Kind
  <2> QED BY <1>4, <2>1, <2>4
<1>7. Clock(q) \in Rows!Time
  BY RequestParts
<1> HIDE DEF I
<1>8. f[m] \in I
  <2>1. m \in 0..n /\ m - 1 \in 0..n /\ m \in m..n
    BY <1>3, <1>5
  <2>2. /\ f[m - 1] \subseteq Rows!Row /\ ops[m].kind = "DELETED"
        /\ ops[m] \in Rows!Op /\ f[m] = Rows!Apply(f[m - 1], ops[m], Clock(q))
    BY <1>3, <1>4, <1>5, <1>6, <2>1 DEF Sound
  <2> QED BY <1>5, <1>7, <2>2, ReleaseCloses DEF I
<1>9. ASSUME NEW i \in (m + 1)..n, f[i - 1] \in I PROVE f[i] \in I
  <2>1. i \in m..n
    BY <1>3, <1>5
  <2>2. /\ ops[i].kind = "DELETED" /\ ops[i] \in Rows!Op
        /\ f[i] = Rows!Apply(f[i - 1], ops[i], Clock(q))
    BY <1>3, <1>4, <1>6, <2>1
  <2> QED BY <1>7, <1>9, <2>2, ReleaseKeepsClosed DEF I
<1>10. f[n] \in I
  <2>1. n \in Nat /\ m \in 0..n /\ n \in m..n
    BY <1>3, <1>5
  <2> HIDE DEF n
  <2>2. \A i \in m..n : f[i] \in I
    BY <1>8, <1>9, <2>1, Along
  <2> QED BY <2>1, <2>2
<1> QED BY <1>1, <1>10 DEF I, ops

LEMMA ClosedIsNotFound ==
  ASSUME NEW q \in Requests, NEW change \in ChangeShape,
         \A s \in Names(q, change) : rows \in Closed(s),
         \A row \in rows : row.not_after # NULL => row.not_after <= Clock(q)
  PROVE  AddressesGone(q, change, q.zone)
<1> DEFINE ts == q.time + q.zone + 1
<1>1. ts = Clock(q) + 1 /\ Clock(q) \in Nat
  BY RequestParts DEF Clock, WallClock
<1>2. ASSUME NEW row \in rows, Rows!ActiveAt(row, ts) PROVE row.subject \notin Names(q, change)
  <2> SUFFICES ASSUME row.subject \in Names(q, change) PROVE FALSE
    OBVIOUS
  <2>1. row \in Rows!Row /\ row.not_after # NULL
    BY DEF Closed
  <2>2. row.not_after \in Nat /\ row.not_after <= Clock(q)
    BY <2>1 DEF Rows!Row
  <2> QED BY <1>1, <1>2, <2>1, <2>2 DEF Rows!ActiveAt
<1> HIDE DEF ts
<1>3. /\ change.privateIPs \in Seq(PrivateIP) /\ change.publicIPs \in Seq(PublicIP)
      /\ change.hostnames \in Seq(Hostname)
  BY DEF ChangeShape
<1>4. ASSUME NEW i \in DOMAIN change.privateIPs, NEW row \in PrivateRows(ts)
      PROVE  row.subject # <<"private", ResourceOf(q), change.privateIPs[i]>>
  <2>1. i \in 1..Len(change.privateIPs)
    BY <1>3
  <2>2. row \in rows /\ Rows!ActiveAt(row, ts)
    BY DEF PrivateRows
  <2>3. <<"private", ResourceOf(q), change.privateIPs[i]>> \in Names(q, change)
    BY <2>1 DEF Names
  <2>4. row.subject \notin Names(q, change)
    BY <1>2, <2>2
  <2> QED BY <2>3, <2>4
<1>5. ASSUME NEW i \in DOMAIN change.publicIPs, NEW j \in DOMAIN change.hostnames,
             NEW row \in PublicRows(ts)
      PROVE  row.subject # <<"public", ResourceOf(q), change.publicIPs[i],
                             change.hostnames[j]>>
  <2>1. i \in 1..Len(change.publicIPs) /\ j \in 1..Len(change.hostnames)
    BY <1>3
  <2>2. row \in rows /\ Rows!ActiveAt(row, ts)
    BY DEF PublicRows
  <2>3. <<"public", ResourceOf(q), change.publicIPs[i], change.hostnames[j]>>
          \in Names(q, change)
    BY <2>1 DEF Names
  <2>4. row.subject \notin Names(q, change)
    BY <1>2, <2>2
  <2> QED BY <2>3, <2>4
<1> QED BY <1>4, <1>5 DEF AddressesGone, ts

\* What the last request takes back is not found after it, by address or by hostname,
\* unless what was stored before it is of a later time: with no condition on requests.
THEOREM ReleasesAreHeeded == Spec => []TakenBackIsGone
<1>1. Init => LastClosed
  BY DEF Init, LastClosed, EndsIn
<1>2. IInv /\ LastClosed /\ [Next]_vars => LastClosed'
  <2> SUFFICES ASSUME IInv, LastClosed, [Next]_vars PROVE LastClosed'
    OBVIOUS
  <2>1. CASE Next
    <3>1. PICK q \in Requests : Store(q)
      BY <2>1 DEF Next
    <3>2. Last(stored') = q
      <4>1. stored \in Seq(Requests) /\ stored' = Append(stored, q)
        BY <3>1 DEF IInv, TypeOK, Store
      <4> QED BY <4>1 DEF Last
    <3>3. rows' \in EndsIn(StoredTimes')
      BY <3>1, StoreEnds DEF LastClosed
    <3> QED BY <3>1, <3>2, <3>3, StoreCloses DEF LastClosed
  <2>2. CASE UNCHANGED vars
    BY <2>2 DEF vars, LastClosed, StoredTimes
  <2> QED BY <2>1, <2>2
<1>3. IInv /\ LastClosed => TakenBackIsGone
  <2> SUFFICES ASSUME IInv, LastClosed, stored # <<>>, NEW q, q = Last(stored),
                      \A k \in 1..Len(stored) : Clock(stored[k]) <= Clock(q),
                      NEW c \in DOMAIN q.changes, Goes(q, c)
               PROVE  AddressesGone(q, q.changes[c], q.zone)
    BY DEF TakenBackIsGone, Goes
  <2>1. q \in Requests
    <3>1. stored \in Seq(Requests)
      BY DEF IInv, TypeOK
    <3> QED BY <3>1 DEF Last
  <2>2. c \in 1..Len(q.changes)
    <3>1. q.changes \in Seq(ChangeShape)
      BY <2>1, RequestAssumption DEF RequestShape
    <3> QED BY <3>1
  <2>3. q.changes[c] \in ChangeShape
    BY <2>1, <2>2, RequestParts
  <2>4. \A s \in Names(q, q.changes[c]) : rows \in Closed(s)
    BY <2>2 DEF LastClosed
  <2>5. \A row \in rows : row.not_after # NULL => row.not_after <= Clock(q)
    BY DEF LastClosed, EndsIn, StoredTimes
  <2> QED BY <2>1, <2>3, <2>4, <2>5, ClosedIsNotFound
<1> QED BY <1>1, <1>2, <1>3, IInvCorrect, PTL DEF Spec
=============================================================================
