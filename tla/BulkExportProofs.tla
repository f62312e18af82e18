-------------------------- MODULE BulkExportProofs --------------------------
(***************************************************************************)
(* Proofs about BulkExport, for any resources, any size of a page, any     *)
(* changes stored between two pages and any number of exports.             *)
(***************************************************************************)
EXTENDS BulkExport, TLAPS

-----------------------------------------------------------------------------
(***************************************************************************)
(* The query and its pages.                                                *)
(***************************************************************************)

\* Ids and offsets are numbers, and none is NULL.
LEMMA Numbers ==
  /\ \A o \in Offset : o \in Nat /\ o # NULL
  /\ \A e \in Entry : e.id \in Resource /\ e.id \in Offset /\ e.id \in Nat /\ 0 < e.id
  /\ 0 \in Offset
<1>1. \A r \in Resource : r \in Nat /\ 0 < r
  BY ExportAssumption
<1>2. NULL \notin Nat
  BY ExportAssumption
<1> QED BY <1>1, <1>2 DEF Offset, Entry

\* An operation keeps the type of the rows.
LEMMA ApplyType ==
  ASSUME NEW rs, rs \subseteq Row, NEW op \in Op, NEW when \in Time
  PROVE  Apply(rs, op, when) \subseteq Row
<1>1. NewRow(op, when) \in Row
  BY DEF NewRow, EPOCH, Row, Op, Time
<1>2. ASSUME NEW row \in Row PROVE Updated(row, op, when) \in Row
  <2>1. CASE op.kind = "ADDED"
    BY <2>1 DEF Updated, Row, Time
  <2>2. CASE op.kind # "ADDED"
    BY <2>2 DEF Updated, Row, Time
  <2> QED BY <2>1, <2>2
<1> QED BY <1>1, <1>2 DEF Apply

LEMMA ListingType ==
  rows \subseteq Row /\ registered \subseteq Resource => Listing \subseteq Entry
<1> SUFFICES ASSUME rows \subseteq Row, registered \subseteq Resource
             PROVE  Listing \subseteq Entry
  OBVIOUS
<1>1. \A table, r : Held(table, r) \subseteq IP
  BY DEF Held, IP, Row
<1> QED BY <1>1 DEF Listing, Entry

\* A page is a beginning of what lies above the offset; one that is not full is
\* all of it.
LEMMA PageParts ==
  ASSUME NEW page, NEW offset, IsPage(page, offset), page \subseteq Above(offset)
  PROVE  /\ \A e \in Above(offset), f \in page : e \in page \/ f.id < e.id
         /\ Cardinality(page) # PageSize => page = Above(offset)
BY DEF IsPage

-----------------------------------------------------------------------------
(***************************************************************************)
(* Type correctness.                                                       *)
(***************************************************************************)
LEMMA InitType == Init => TypeOK
<1> SUFFICES ASSUME Init PROVE TypeOK
  OBVIOUS
<1>1. rows \subseteq Row
  BY ExportAssumption DEF Init
<1>2. registered \subseteq Resource
  BY <1>1, ExportAssumption DEF Init, Row
<1> QED BY <1>1, <1>2, ExportAssumption, Numbers DEF Init, TypeOK, NoFiles, Running

LEMMA StoreType ==
  ASSUME TypeOK, NEW r \in Resource, NEW kind \in {"ADDED", "DELETED"},
         NEW when \in EventTime, NEW subjects \in SUBSET SubjectsOf(r),
         Store(r, kind, subjects, when)
  PROVE  TypeOK'
<1>1. rows' \subseteq Row
  <2>1. \A s \in subjects : [kind |-> kind, subject |-> s] \in Op /\ when \in Time
    BY ExportAssumption DEF SubjectsOf, Op
  <2>2. \A s \in subjects :
          Apply({row \in rows : row.subject = s}, [kind |-> kind, subject |-> s], when)
            \subseteq Row
    BY <2>1, ApplyType DEF TypeOK
  <2> QED BY <2>2 DEF Store, TypeOK
<1>2. registered' \subseteq Resource
  BY DEF Store, TypeOK
<1>3. stored' \in 0..MaxStored
  BY ExportAssumption DEF Store, TypeOK
<1>4. Listing' \subseteq Entry
  <2>1. (rows \subseteq Row /\ registered \subseteq Resource => Listing \subseteq Entry)'
    BY ListingType, PTL
  <2> QED BY <1>1, <1>2, <2>1
<1>5. steady' \subseteq Entry /\ seen' \subseteq Entry
  BY <1>4 DEF Store, TypeOK
<1> QED BY <1>1, <1>2, <1>3, <1>5 DEF Store, TypeOK, scriptVars, Running

LEMMA StartType ==
  ASSUME TypeOK, NEW p \in Pid, Start(p)
  PROVE  TypeOK'
BY ListingType, Numbers, ExportAssumption
   DEF Start, TypeOK, databaseVars, Running

LEMMA OutputType ==
  ASSUME TypeOK, NEW page \in SUBSET Entry, Output(page), pc = "page", last # NULL
  PROVE  /\ files' \in [Pid \X Offset -> SUBSET Entry]
         /\ pid \in Pid /\ last \in Offset
         /\ files'[<<pid, last>>] = page
         /\ \A p \in Pid, o \in Offset :
              <<p, o>> # <<pid, last>> => files'[<<p, o>>] = files[<<p, o>>]
BY DEF TypeOK, Output, Running

\* What FetchPage does with the page it picks.
LEMMA FetchParts ==
  ASSUME TypeOK, FetchPage
  PROVE  \E page \in SUBSET Above(last) :
           /\ page \subseteq Entry
           /\ IsPage(page, last) /\ Output(page)
           /\ \/ page = {} /\ last' = NULL /\ UNCHANGED <<pc, inOrder>>
              \/ \E e \in page :
                   /\ last' = e.id
                   /\ inOrder' = (inOrder /\ \A other \in page : other.id <= e.id)
                   /\ pc' = pc
              \/ /\ Cardinality(page) # PageSize
                 /\ pc' = "combine"
                 /\ UNCHANGED <<last, inOrder>>
BY ListingType DEF FetchPage, GoOn, Above, TypeOK

LEMMA FetchType ==
  ASSUME TypeOK, FetchPage
  PROVE  TypeOK'
<1>1. PICK page \in SUBSET Above(last) :
        /\ page \subseteq Entry
        /\ Output(page)
        /\ \/ page = {} /\ last' = NULL /\ UNCHANGED <<pc, inOrder>>
           \/ \E e \in page :
                /\ last' = e.id
                /\ inOrder' = (inOrder /\ \A other \in page : other.id <= e.id)
                /\ pc' = pc
           \/ /\ pc' = "combine"
              /\ UNCHANGED <<last, inOrder>>
  BY FetchParts
<1>2. pc = "page" /\ last # NULL /\ UNCHANGED <<databaseVars, exports, pid, dump, steady, seen, fresh>>
  BY DEF FetchPage
<1>3. files' \in [Pid \X Offset -> SUBSET Entry] /\ pid \in Pid
  BY <1>1, <1>2, OutputType
<1>4. last' \in Offset \cup {NULL} /\ pc' \in {"page", "combine"}
  BY <1>1, <1>2, Numbers DEF TypeOK
<1>5. inOrder' \in BOOLEAN
  BY <1>1, Zenon DEF TypeOK
<1> QED BY <1>2, <1>3, <1>4, <1>5 DEF TypeOK, databaseVars, Running

LEMMA CombineType ==
  ASSUME TypeOK, Combine
  PROVE  TypeOK'
<1>1. dump' \subseteq [page : Offset, entry : Entry]
  BY DEF Combine, Pages, TypeOK
<1>2. files' \in [Pid \X Offset -> SUBSET Entry]
  BY DEF Combine, TypeOK
<1> QED BY <1>1, <1>2 DEF Combine, TypeOK, databaseVars, historyVars, Running

LEMMA NextType == TypeOK /\ [Next]_vars => TypeOK'
<1> SUFFICES ASSUME TypeOK, [Next]_vars PROVE TypeOK'
  OBVIOUS
<1>1. ASSUME NEW r \in Resource, NEW kind \in {"ADDED", "DELETED"}, NEW when \in EventTime,
             NEW subjects \in SUBSET SubjectsOf(r), Store(r, kind, subjects, when)
      PROVE  TypeOK'
  BY <1>1, StoreType
<1>2. ASSUME NEW p \in Pid, Start(p) PROVE TypeOK'
  BY <1>2, StartType
<1>3. CASE FetchPage
  BY <1>3, FetchType
<1>4. CASE Combine
  BY <1>4, CombineType
<1>5. CASE StatementFails
  <2>1. files' \in [Pid \X Offset -> SUBSET Entry]
    BY <1>5, OutputType DEF StatementFails
  <2> QED BY <1>5, <2>1 DEF StatementFails, TypeOK, databaseVars, historyVars, Running
<1>6. CASE Abort
  BY <1>6 DEF Abort, TypeOK, databaseVars, historyVars, Running
<1>7. CASE UNCHANGED vars
  BY <1>7 DEF vars, databaseVars, scriptVars, historyVars, TypeOK, Running
<1> QED BY <1>1, <1>2, <1>3, <1>4, <1>5, <1>6, <1>7 DEF Next, Proceed

\* Every reachable state of the export has the types declared.
THEOREM TypeCorrect == Spec => []TypeOK
BY InitType, NextType, PTL DEF Spec

-----------------------------------------------------------------------------
(***************************************************************************)
(* What the pages of a running export hold.                                *)
(***************************************************************************)

\* While the export runs, its steady entries are those of the query still, and
\* what the query shows has been seen.
Watched == Running => steady \subseteq Listing /\ Listing \subseteq seen

\* Steady entries up to LAST_ID are in files of earlier offsets, so that no later
\* page overwrites them; once the last page is there, all are in files.
Covered ==
  /\ pc = "page" /\ last # NULL =>
       \A e \in steady : e.id <= last =>
         \E o \in Offset : o < last /\ e \in files[<<pid, o>>]
  /\ pc = "combine" =>
       \A e \in steady : \E o \in Offset : e \in files[<<pid, o>>]

\* Without files from before, the files hold what was seen: ..
ShownOnly ==
  Running /\ fresh => \A o \in Offset : files[<<pid, o>>] \subseteq seen

\* .. each id once in a file and above its offset, and, as long as pages come in
\* order, up to the next offset.
Apart ==
  Running /\ fresh =>
    /\ \A o \in Offset : \A e \in files[<<pid, o>>] :
         /\ o < e.id
         /\ \A other \in files[<<pid, o>>] : other.id = e.id => other = e
         /\ pc = "page" /\ last # NULL => o < last
         /\ pc = "page" /\ last # NULL /\ inOrder => e.id <= last
    /\ inOrder =>
         \A o, u \in Offset : o < u /\ files[<<pid, u>>] # {} =>
           \A e \in files[<<pid, o>>] : e.id <= u

Outcome == NothingLost /\ NothingStale /\ OnceEach

IInv == TypeOK /\ Watched /\ Covered /\ ShownOnly /\ Apart /\ Outcome

LEMMA InitIInv == Init => IInv
BY InitType
   DEF Init, IInv, Watched, Covered, ShownOnly, Apart, Outcome, NothingLost, NothingStale,
       OnceEach, Running

\* The query shows a resource once.
LEMMA ListingOnce == \A e, f \in Listing : e.id = f.id => e = f
BY DEF Listing

LEMMA StoreIInv ==
  ASSUME IInv, NEW r \in Resource, NEW kind \in {"ADDED", "DELETED"},
         NEW when \in EventTime, NEW subjects \in SUBSET SubjectsOf(r),
         Store(r, kind, subjects, when)
  PROVE  IInv'
<1>1. TypeOK'
  BY StoreType DEF IInv
<1>2. /\ UNCHANGED <<scriptVars, fresh, inOrder>>
      /\ steady' = IF Running THEN steady \cap Listing' ELSE steady
      /\ seen' = IF Running THEN seen \cup Listing' ELSE seen
  BY DEF Store
<1>3. UNCHANGED <<pid, pc, last, files, dump, fresh, inOrder>>
  BY <1>2 DEF scriptVars
<1>4. Watched'
  BY <1>2, <1>3 DEF Watched, Running
<1>5. Covered'
  BY <1>2, <1>3 DEF Covered, IInv
<1>6. ShownOnly'
  BY <1>2, <1>3 DEF ShownOnly, IInv, Running
<1>7. Apart'
  BY <1>3 DEF Apart, IInv, Running
<1>8. Outcome'
  BY <1>2, <1>3 DEF Outcome, IInv, Running, NothingLost, NothingStale, OnceEach
<1> QED BY <1>1, <1>4, <1>5, <1>6, <1>7, <1>8 DEF IInv

LEMMA StartIInv ==
  ASSUME IInv, NEW p \in Pid, Start(p)
  PROVE  IInv'
<1>1. TypeOK'
  BY StartType DEF IInv
<1>2. Listing' = Listing /\ Listing \subseteq Entry
  BY ListingType DEF Start, databaseVars, Listing, Held, IInv, TypeOK
<1>3. /\ pid' = p /\ last' = 0 /\ pc' = "page"
      /\ steady' = Listing /\ seen' = Listing
      /\ fresh' = (FilesOf(p) = {}) /\ files' = files
  BY DEF Start
<1>4. fresh' => \A o \in Offset : files'[<<pid', o>>] = {}
  BY <1>3 DEF FilesOf
<1>5. Watched'
  BY <1>2, <1>3 DEF Watched
<1>6. Covered'
  BY <1>2, <1>3, Numbers DEF Covered
<1>7. ShownOnly' /\ Apart'
  BY <1>4 DEF ShownOnly, Apart
<1>8. Outcome'
  BY <1>3 DEF Outcome, NothingLost, NothingStale, OnceEach
<1> QED BY <1>1, <1>5, <1>6, <1>7, <1>8 DEF IInv

\* What an answer without rows leaves.
LEMMA EmptyPage ==
  ASSUME IInv, TypeOK', pc = "page", last # NULL, Output({}), last' = NULL,
         UNCHANGED <<pc, pid, steady, seen, fresh, inOrder, databaseVars>>
  PROVE  IInv'
<1>1. /\ pid \in Pid /\ last \in Offset
      /\ \A o \in Offset : files'[<<pid, o>>] \subseteq files[<<pid, o>>]
  <2>1. {} \in SUBSET Entry
    OBVIOUS
  <2>2. /\ pid \in Pid /\ last \in Offset
        /\ files'[<<pid, last>>] = {}
        /\ \A q \in Pid, o \in Offset :
             <<q, o>> # <<pid, last>> => files'[<<q, o>>] = files[<<q, o>>]
    BY <2>1, OutputType DEF IInv
  <2> QED BY <2>2
<1>2. Watched'
  <2>1. Listing' = Listing
    BY DEF Listing, Held, databaseVars
  <2> QED BY <2>1 DEF Watched, IInv, Running
<1>3. Covered'
  BY DEF Covered
<1>4. ShownOnly'
  BY <1>1 DEF ShownOnly, IInv, Running
<1>5. Apart'
  BY <1>1 DEF Apart, IInv, Running
<1>6. Outcome'
  BY DEF Outcome, NothingLost, NothingStale, OnceEach
<1> QED BY <1>2, <1>3, <1>4, <1>5, <1>6 DEF IInv

\* A page that holds rows: it goes on with the ids above its offset.
LEMMA FullPage ==
  ASSUME IInv, TypeOK', FetchPage,
         NEW page \in SUBSET Above(last), IsPage(page, last), Output(page),
         NEW e \in page, last' = e.id, pc' = pc,
         inOrder' = (inOrder /\ \A other \in page : other.id <= e.id)
  PROVE  IInv'
<1>1. /\ pc = "page" /\ pc' = "page" /\ last # NULL
      /\ UNCHANGED <<pid, dump, steady, seen, fresh, rows, registered>>
  BY DEF FetchPage, databaseVars
<1>2. /\ page \subseteq Listing /\ page \subseteq Entry /\ steady \subseteq Entry
      /\ steady \subseteq Listing /\ Listing \subseteq seen
      /\ \A f \in page : last < f.id
  BY <1>1, ListingType DEF Above, IInv, TypeOK, Watched, Running
<1>3. /\ pid \in Pid /\ last \in Offset
      /\ files'[<<pid, last>>] = page
      /\ \A o \in Offset : o # last => files'[<<pid, o>>] = files[<<pid, o>>]
  <2>1. /\ pid \in Pid /\ last \in Offset
        /\ files'[<<pid, last>>] = page
        /\ \A q \in Pid, o \in Offset :
             <<q, o>> # <<pid, last>> => files'[<<q, o>>] = files[<<q, o>>]
    BY <1>1, <1>2, OutputType DEF IInv
  <2> QED BY <2>1
<1>4. last' \in Nat /\ last \in Nat /\ last < last' /\ last' # NULL
  BY <1>2, <1>3, Numbers
<1>5. \A o \in Offset : \A f \in files[<<pid, o>>] : f \in Entry
  BY <1>3 DEF IInv, TypeOK
<1>6. Watched'
  <2>1. Listing' = Listing
    BY <1>1 DEF Listing, Held
  <2> QED BY <1>1, <1>2, <2>1 DEF Watched
<1>7. Covered'
  <2> SUFFICES ASSUME NEW s \in steady, s.id <= last'
               PROVE  \E o \in Offset : o < last' /\ s \in files'[<<pid, o>>]
    BY <1>1 DEF Covered
  <2>1. CASE s.id <= last
    <3>1. PICK o \in Offset : o < last /\ s \in files[<<pid, o>>]
      BY <1>1, <2>1 DEF Covered, IInv
    <3>2. o # last /\ o < last'
      BY <1>4, <3>1, Numbers
    <3> QED BY <1>3, <3>1, <3>2
  <2>2. CASE ~ (s.id <= last)
    <3>1. s \in Above(last)
      BY <1>2, <1>4, <2>2, Numbers DEF Above
    <3>2. s \in page \/ e.id < s.id
      BY <3>1, PageParts
    <3>3. s \in page
      BY <1>2, <1>4, <3>2, Numbers
    <3> QED BY <1>3, <1>4, <3>3
  <2> QED BY <2>1, <2>2
<1>8. ShownOnly'
  BY <1>1, <1>2, <1>3 DEF ShownOnly, IInv, Running
<1>9. Apart'
  <2> SUFFICES ASSUME fresh PROVE Apart'
    BY <1>1 DEF Apart
  <2>1. ASSUME NEW o \in Offset, NEW f \in files'[<<pid, o>>]
        PROVE  /\ o < f.id /\ o < last'
               /\ \A other \in files'[<<pid, o>>] : other.id = f.id => other = f
               /\ inOrder' => f.id <= last'
    <3>1. CASE o = last
      <4>1. files'[<<pid, o>>] = page /\ f \in page
        BY <1>3, <2>1, <3>1
      <4>2. inOrder' => f.id <= last'
        BY <4>1
      <4>3. o < f.id /\ o < last'
        BY <1>2, <1>4, <3>1, <4>1
      <4>4. \A other \in page : other.id = f.id => other = f
        BY <1>2, <4>1, ListingOnce
      <4> QED BY <4>1, <4>2, <4>3, <4>4
    <3>2. CASE o # last
      <4>1. f \in files[<<pid, o>>] /\ files'[<<pid, o>>] = files[<<pid, o>>]
        BY <1>3, <2>1, <3>2
      <4>2. /\ o < f.id /\ o < last
            /\ \A other \in files[<<pid, o>>] : other.id = f.id => other = f
            /\ inOrder => f.id <= last
        BY <1>1, <4>1 DEF Apart, IInv, Running
      <4>3. o \in Nat /\ f.id \in Nat
        BY <1>5, <4>1, Numbers
      <4>4. o < last' /\ (f.id <= last => f.id <= last')
        BY <1>4, <4>2, <4>3
      <4>5. inOrder' => inOrder
        OBVIOUS
      <4> QED BY <4>1, <4>2, <4>4, <4>5
    <3> QED BY <3>1, <3>2
  <2>2. ASSUME inOrder', NEW o \in Offset, NEW u \in Offset, o < u,
               files'[<<pid, u>>] # {}, NEW f \in files'[<<pid, o>>]
        PROVE  f.id <= u
    <3>1. inOrder
      BY <2>2
    <3>2. u \in Nat /\ o \in Nat
      BY Numbers
    <3>3. CASE u = last
      <4>1. f \in files[<<pid, o>>]
        BY <1>3, <2>2, <3>2, <3>3
      <4> QED BY <1>1, <3>1, <3>3, <4>1 DEF Apart, IInv, Running
    <3>4. CASE u # last
      <4>1. files[<<pid, u>>] # {}
        BY <1>3, <2>2, <3>4
      <4>2. u < last
        BY <1>1, <4>1 DEF Apart, IInv, Running
      <4>3. f \in files[<<pid, o>>]
        BY <1>3, <1>4, <2>2, <3>2, <4>2
      <4> QED BY <1>1, <2>2, <3>1, <4>1, <4>3 DEF Apart, IInv, Running
    <3> QED BY <3>3, <3>4
  <2> QED BY <1>1, <2>1, <2>2 DEF Apart
<1>10. Outcome'
  BY <1>1 DEF Outcome, NothingLost, NothingStale, OnceEach
<1> QED BY <1>6, <1>7, <1>8, <1>9, <1>10 DEF IInv

\* The last page: it holds all that lies above its offset.
LEMMA LastPage ==
  ASSUME IInv, TypeOK', FetchPage,
         NEW page \in SUBSET Above(last), IsPage(page, last), Output(page),
         Cardinality(page) # PageSize, pc' = "combine", UNCHANGED <<last, inOrder>>
  PROVE  IInv'
<1>1. /\ pc = "page" /\ last # NULL
      /\ UNCHANGED <<pid, dump, steady, seen, fresh, rows, registered>>
  BY DEF FetchPage, databaseVars
<1>2. /\ page \subseteq Listing /\ page \subseteq Entry /\ steady \subseteq Entry
      /\ steady \subseteq Listing /\ Listing \subseteq seen
      /\ \A f \in page : last < f.id
  BY <1>1, ListingType DEF Above, IInv, TypeOK, Watched, Running
<1>3. /\ pid \in Pid /\ last \in Offset
      /\ files'[<<pid, last>>] = page
      /\ \A o \in Offset : o # last => files'[<<pid, o>>] = files[<<pid, o>>]
  <2>1. /\ pid \in Pid /\ last \in Offset
        /\ files'[<<pid, last>>] = page
        /\ \A q \in Pid, o \in Offset :
             <<q, o>> # <<pid, last>> => files'[<<q, o>>] = files[<<q, o>>]
    BY <1>1, <1>2, OutputType DEF IInv
  <2> QED BY <2>1
<1>4. last \in Nat
  BY <1>3, Numbers
<1>5. Watched'
  <2>1. Listing' = Listing
    BY <1>1 DEF Listing, Held
  <2> QED BY <1>1, <1>2, <2>1 DEF Watched
<1>6. Covered'
  <2> SUFFICES ASSUME NEW s \in steady
               PROVE  \E o \in Offset : s \in files'[<<pid, o>>]
    BY <1>1 DEF Covered
  <2>1. CASE s.id <= last
    <3>1. PICK o \in Offset : o < last /\ s \in files[<<pid, o>>]
      BY <1>1, <2>1 DEF Covered, IInv
    <3>2. o # last
      BY <1>4, <3>1, Numbers
    <3> QED BY <1>3, <3>1, <3>2
  <2>2. CASE ~ (s.id <= last)
    <3>1. s \in Above(last)
      BY <1>2, <1>4, <2>2, Numbers DEF Above
    <3> QED BY <1>3, <3>1, PageParts
  <2> QED BY <2>1, <2>2
<1>7. ShownOnly'
  BY <1>1, <1>2, <1>3 DEF ShownOnly, IInv, Running
<1>8. Apart'
  <2> SUFFICES ASSUME fresh PROVE Apart'
    BY <1>1 DEF Apart
  <2>1. ASSUME NEW o \in Offset, NEW f \in files'[<<pid, o>>]
        PROVE  /\ o < f.id
               /\ \A other \in files'[<<pid, o>>] : other.id = f.id => other = f
    <3>1. CASE o = last
      BY <1>2, <1>3, <2>1, <3>1, ListingOnce
    <3>2. CASE o # last
      BY <1>1, <1>3, <2>1, <3>2 DEF Apart, IInv, Running
    <3> QED BY <3>1, <3>2
  <2>2. ASSUME inOrder, NEW o \in Offset, NEW u \in Offset, o < u,
               files'[<<pid, u>>] # {}, NEW f \in files'[<<pid, o>>]
        PROVE  f.id <= u
    <3>1. u \in Nat /\ o \in Nat
      BY Numbers
    <3>2. CASE u = last
      <4>1. f \in files[<<pid, o>>]
        BY <1>3, <2>2, <3>1, <3>2
      <4> QED BY <1>1, <2>2, <3>2, <4>1 DEF Apart, IInv, Running
    <3>3. CASE u # last
      <4>1. files[<<pid, u>>] # {}
        BY <1>3, <2>2, <3>3
      <4>2. u < last
        BY <1>1, <4>1 DEF Apart, IInv, Running
      <4>3. f \in files[<<pid, o>>]
        BY <1>3, <1>4, <2>2, <3>1, <4>2
      <4> QED BY <1>1, <2>2, <4>1, <4>3 DEF Apart, IInv, Running
    <3> QED BY <3>2, <3>3
  <2> QED BY <1>1, <2>1, <2>2 DEF Apart
<1>9. Outcome'
  BY DEF Outcome, NothingLost, NothingStale, OnceEach
<1> QED BY <1>5, <1>6, <1>7, <1>8, <1>9 DEF IInv

LEMMA FetchIInv ==
  ASSUME IInv, FetchPage
  PROVE  IInv'
<1>1. PICK page \in SUBSET Above(last) :
        /\ page \subseteq Entry
        /\ IsPage(page, last) /\ Output(page)
        /\ \/ page = {} /\ last' = NULL /\ UNCHANGED <<pc, inOrder>>
           \/ \E e \in page :
                /\ last' = e.id
                /\ inOrder' = (inOrder /\ \A other \in page : other.id <= e.id)
                /\ pc' = pc
           \/ /\ Cardinality(page) # PageSize
              /\ pc' = "combine"
              /\ UNCHANGED <<last, inOrder>>
  BY FetchParts DEF IInv
<1>2. TypeOK'
  BY FetchType DEF IInv
<1>3. CASE page = {} /\ last' = NULL /\ UNCHANGED <<pc, inOrder>>
  <2>1. pc = "page" /\ last # NULL /\ UNCHANGED <<pid, steady, seen, fresh, databaseVars>>
    BY DEF FetchPage
  <2> QED BY <1>1, <1>2, <1>3, <2>1, EmptyPage
<1>4. ASSUME NEW e \in page, last' = e.id, pc' = pc,
             inOrder' = (inOrder /\ \A other \in page : other.id <= e.id)
      PROVE  IInv'
  BY <1>1, <1>2, <1>4, FullPage
<1>5. CASE Cardinality(page) # PageSize /\ pc' = "combine" /\ UNCHANGED <<last, inOrder>>
  BY <1>1, <1>2, <1>5, LastPage
<1> QED BY <1>1, <1>3, <1>4, <1>5

LEMMA CombineIInv ==
  ASSUME IInv, Combine
  PROVE  IInv'
<1>1. TypeOK'
  BY CombineType DEF IInv
<1>2. /\ pc = "combine" /\ pc' = "done" /\ pid \in Pid
      /\ UNCHANGED <<steady, seen, fresh, inOrder>>
      /\ dump' = UNION {{[page |-> f[2], entry |-> e] : e \in files[f]} : f \in Pages}
  BY DEF Combine, historyVars, IInv, TypeOK, Running
<1>3. \A d \in dump' : d.page \in Offset /\ d.entry \in files[<<pid, d.page>>]
  BY <1>2 DEF Pages
<1>4. \A o \in Offset : \A e \in files[<<pid, o>>] : [page |-> o, entry |-> e] \in dump'
  <2> SUFFICES ASSUME NEW o \in Offset, NEW e \in files[<<pid, o>>]
               PROVE  [page |-> o, entry |-> e] \in dump'
    OBVIOUS
  <2>1. <<pid, o>> \in Pages
    BY <1>2 DEF Pages
  <2> QED BY <1>2, <2>1
<1>5. NothingLost'
  <2> SUFFICES ASSUME NEW s \in steady PROVE \E d \in dump' : d.entry = s
    BY <1>2 DEF NothingLost
  <2>1. PICK o \in Offset : s \in files[<<pid, o>>]
    BY <1>2 DEF Covered, IInv
  <2>2. [page |-> o, entry |-> s] \in dump'
    BY <1>4, <2>1
  <2> QED BY <2>2
<1>6. NothingStale'
  BY <1>2, <1>3 DEF NothingStale, ShownOnly, IInv, Running
<1>7. OnceEach'
  <2> SUFFICES ASSUME fresh, inOrder, NEW d \in dump', NEW f \in dump',
                      d.entry.id = f.entry.id
               PROVE  d = f
    BY <1>2 DEF OnceEach
  <2>1. /\ d.page \in Offset /\ d.entry \in files[<<pid, d.page>>]
        /\ f.page \in Offset /\ f.entry \in files[<<pid, f.page>>]
        /\ d \in [page : Offset, entry : Entry] /\ f \in [page : Offset, entry : Entry]
    BY <1>1, <1>3 DEF TypeOK
  <2>2. d.page < d.entry.id /\ f.page < f.entry.id
    BY <1>2, <2>1 DEF Apart, IInv, Running
  <2>3. /\ d.page \in Nat /\ f.page \in Nat /\ d.entry.id \in Nat /\ f.entry.id \in Nat
    BY <2>1, Numbers
  <2>4. ~ d.page < f.page
    <3>1. d.page < f.page => d.entry.id <= f.page
      BY <1>2, <2>1 DEF Apart, IInv, Running
    <3> QED BY <2>2, <2>3, <3>1
  <2>5. ~ f.page < d.page
    <3>1. f.page < d.page => f.entry.id <= d.page
      BY <1>2, <2>1 DEF Apart, IInv, Running
    <3> QED BY <2>2, <2>3, <3>1
  <2>6. d.page = f.page
    BY <2>3, <2>4, <2>5
  <2>7. d.entry = f.entry
    BY <1>2, <2>1, <2>6 DEF Apart, IInv, Running
  <2> QED BY <2>1, <2>6, <2>7
<1> QED BY <1>1, <1>2, <1>5, <1>6, <1>7
        DEF IInv, Watched, Covered, ShownOnly, Apart, Outcome, Running

LEMMA NextIInv == IInv /\ [Next]_vars => IInv'
<1> SUFFICES ASSUME IInv, [Next]_vars PROVE IInv'
  OBVIOUS
<1>1. ASSUME NEW r \in Resource, NEW kind \in {"ADDED", "DELETED"}, NEW when \in EventTime,
             NEW subjects \in SUBSET SubjectsOf(r), Store(r, kind, subjects, when)
      PROVE  IInv'
  BY <1>1, StoreIInv
<1>2. ASSUME NEW p \in Pid, Start(p) PROVE IInv'
  BY <1>2, StartIInv
<1>3. CASE FetchPage
  BY <1>3, FetchIInv
<1>4. CASE Combine
  BY <1>4, CombineIInv
<1>5. TypeOK'
  BY NextType DEF IInv
<1>6. CASE StatementFails
  BY <1>5, <1>6, EmptyPage DEF StatementFails, historyVars
<1>7. CASE Abort
  BY <1>5, <1>7
     DEF Abort, historyVars, IInv, Watched, Covered, ShownOnly, Apart, Outcome, Running,
         NothingLost, NothingStale, OnceEach
<1>8. CASE UNCHANGED vars
  <2>1. UNCHANGED <<rows, registered, pid, pc, last, files, dump, steady, seen, fresh, inOrder>>
    BY <1>8 DEF vars, databaseVars, scriptVars, historyVars
  <2>2. Listing' = Listing
    BY <2>1 DEF Listing, Held
  <2> QED BY <1>5, <2>1, <2>2
          DEF IInv, Watched, Covered, ShownOnly, Apart, Outcome, Running,
              NothingLost, NothingStale, OnceEach
<1> QED BY <1>1, <1>2, <1>3, <1>4, <1>6, <1>7, <1>8 DEF Next, Proceed

LEMMA IInvInvariant == Spec => []IInv
BY InitIInv, NextIInv, PTL DEF Spec

\* Whatever is stored between two pages: what the query shows during the whole
\* export is in its dump.
THEOREM ExportLosesNothing == Spec => []NothingLost
<1>1. IInv => NothingLost
  BY DEF IInv, Outcome
<1> QED BY <1>1, IInvInvariant, PTL

\* The dump of an export that found no files of its pid shows only what the
\* query showed meanwhile.
THEOREM ExportIsCurrent == Spec => []NothingStale
<1>1. IInv => NothingStale
  BY DEF IInv, Outcome
<1> QED BY <1>1, IInvInvariant, PTL

\* Pages in the order of ids put each resource into the dump once.
THEOREM ExportOnceEach == Spec => []OnceEach
<1>1. IInv => OnceEach
  BY DEF IInv, Outcome
<1> QED BY <1>1, IInvInvariant, PTL
=============================================================================
