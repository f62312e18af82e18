----------------------------- MODULE BulkExport -----------------------------
(***************************************************************************)
(* bulk-export/export.sh and the query export.sql that it runs per page,   *)
(* while changes are being stored.                                         *)
(*                                                                         *)
(* The script pages through aws_resource by id: it asks for the PageSize   *)
(* lowest ids above LAST_ID, takes LAST_ID from the last row it got, and   *)
(* stops after a page of another length.  A page is a file that is named   *)
(* after the shell ($$) and LAST_ID; in the end all files of that shell    *)
(* become one dump.  The database may be the primary or a replica: then a  *)
(* change is stored, here, when the replica replays it.                    *)
(***************************************************************************)
EXTENDS AssignmentRows, FiniteSets

CONSTANTS
  Resource,     \* the ids of aws_resource, from a sequence
  Pid,          \* what $$ may be
  PageSize,
  Snapshot,     \* snapshot_timestamp
  EventTime,    \* the times of changes that are stored meanwhile
  Ledger,       \* the rows there may be before
  MaxStored,    \* bound: the changes stored
  MaxExports    \* bound: how often the script is run

\* Subjects are [table, of, ip]; an address stands for its hostname too.
SubjectsOf(r) == {s \in Subject : s.of = r}
IP == {s.ip : s \in Subject}
Offset == Resource \cup {0}
Entry == [id : Resource, private : SUBSET IP, public : SUBSET IP]

ASSUME ExportAssumption ==
  /\ Resource \subseteq Nat \ {0}
  /\ \A s \in Subject : s.of \in Resource /\ s.table \in {"private", "public"}
  /\ PageSize \in Nat \ {0} /\ Snapshot \in Nat
  /\ EventTime \subseteq Time \ {Snapshot}
  /\ Ledger \subseteq SUBSET Row
  /\ MaxStored \in Nat /\ MaxExports \in Nat
  /\ NULL \notin Nat

VARIABLES
  rows,        \* the rows of the two address tables
  registered,  \* the rows of aws_resource
  stored,      \* how many changes have been stored
  exports,     \* how often the script was started
  pid,         \* PREFIX, of the script that runs or ran last
  pc,          \* the command it is at, or how it ended
  last,        \* LAST_ID; NULL stands for the empty string
  files,       \* files[<<p, o>>]: the entries in export-p-o.json, {} without a file
  dump,        \* the entries of export-PREFIX.json and the pages they come from
  steady,      \* history: the entries of the query that have not changed since the start
  seen,        \* history: those that it had at any time since
  fresh,       \* history: no file of the same PREFIX was there at the start
  inOrder      \* history: each page came in the order of its ids

databaseVars == <<rows, registered, stored>>
scriptVars == <<exports, pid, pc, last, files, dump>>
historyVars == <<steady, seen, fresh, inOrder>>
vars == <<databaseVars, scriptVars, historyVars>>

Running == pc \in {"page", "combine"}

TypeOK ==
  /\ rows \subseteq Row
  /\ registered \subseteq Resource
  /\ stored \in 0..MaxStored
  /\ exports \in 0..MaxExports
  /\ pid \in Pid \cup {NULL}
  /\ pc \in {"idle", "page", "combine", "done", "aborted"}
  /\ Running => pid \in Pid
  /\ last \in Offset \cup {NULL}
  /\ files \in [Pid \X Offset -> SUBSET Entry]
  /\ dump \subseteq [page : Offset, entry : Entry]
  /\ steady \subseteq Entry /\ seen \subseteq Entry
  /\ fresh \in BOOLEAN /\ inOrder \in BOOLEAN

NoFiles == [f \in Pid \X Offset |-> {}]

Init ==
  /\ rows \in Ledger
  /\ registered = {row.subject.of : row \in rows}
  /\ stored = 0
  /\ exports = 0 /\ pid = NULL /\ pc = "idle" /\ last = 0
  /\ files = NoFiles /\ dump = {}
  /\ steady = {} /\ seen = {} /\ fresh = TRUE /\ inOrder = TRUE

-----------------------------------------------------------------------------
Held(table, r) ==
  {row.subject.ip : row \in
    {x \in rows : x.subject.table = table /\ x.subject.of = r /\ ActiveAt(x, Snapshot)}}

\* The rows of the query without its offset and its limit, and one array per
\* resource.  The conditions on times hold for no NULL, so that the left joins
\* keep only resources with an address of either kind.
Listing ==
  {[id |-> r, private |-> Held("private", r), public |-> Held("public", r)] :
     r \in {x \in registered : Held("private", x) # {} /\ Held("public", x) # {}}}

\* Mutant: the offset is not exclusive.
AboveOrAt(offset) == {e \in Listing : e.id >= offset}

Above(offset) == {e \in Listing : e.id > offset}

\* Mutant: the inner query has no ORDER BY.
IsPageAnyOrder(page, offset) ==
  /\ page = Above(offset) \/ Cardinality(page) = PageSize
  /\ Cardinality(page) <= PageSize

\* ORDER BY ar.id LIMIT :page_size
IsPage(page, offset) ==
  /\ \A e \in page, other \in Above(offset) \ page : e.id < other.id
  /\ page = Above(offset) \/ Cardinality(page) = PageSize
  /\ Cardinality(page) <= PageSize

-----------------------------------------------------------------------------
\* A change of resource r is stored: operations of one kind on some of its
\* addresses.  Ids come from a sequence before COMMIT, so that r may become
\* visible after resources with higher ids.
Store(r, kind, subjects, when) ==
  /\ stored < MaxStored
  /\ stored' = stored + 1
  /\ registered' = registered \cup {r}
  /\ rows' = {row \in rows : row.subject \notin subjects}
             \cup UNION {Apply({row \in rows : row.subject = s},
                               [kind |-> kind, subject |-> s], when) : s \in subjects}
  /\ steady' = IF Running THEN steady \cap Listing' ELSE steady
  /\ seen' = IF Running THEN seen \cup Listing' ELSE seen
  /\ UNCHANGED <<scriptVars, fresh, inOrder>>

-----------------------------------------------------------------------------
FilesOf(p) == {o \in Offset : files[<<p, o>>] # {}}

\* PREFIX=$$, LAST_ID=0: files that a script with the same pid has left stay.
Start(p) ==
  /\ ~Running /\ exports < MaxExports
  /\ exports' = exports + 1
  /\ pid' = p /\ last' = 0 /\ pc' = "page"
  /\ dump' = {}
  /\ steady' = Listing /\ seen' = Listing
  /\ fresh' = (FilesOf(p) = {})
  /\ inOrder' = TRUE
  /\ UNCHANGED <<databaseVars, files>>

Output(page) == files' = [files EXCEPT ![<<pid, last>>] = page]

\* Mutant: LAST_ID is not advanced.
GoOnSamePage(page) ==
  /\ pc' = pc /\ last' = last /\ inOrder' = inOrder

\* The next page starts behind the last row: the outer query has no ORDER BY,
\* so that this may be any row of the page.
GoOn(page) ==
  \E e \in page :
    /\ last' = e.id
    /\ inOrder' = (inOrder /\ \A other \in page : other.id <= e.id)
    /\ pc' = pc

\* psql, jq '.|length' and the test.  Of an empty page (array_agg yields NULL)
\* jq prints nothing, the test of an empty string fails, which does not end the
\* loop, and LAST_ID becomes empty.
FetchPage ==
  /\ pc = "page" /\ last # NULL
  /\ \E page \in SUBSET Above(last) :
       /\ IsPage(page, last)
       /\ Output(page)
       /\ \/ page = {} /\ last' = NULL /\ UNCHANGED <<pc, inOrder>>
          \/ page # {} /\ Cardinality(page) = PageSize /\ GoOn(page)
          \/ /\ page # {} /\ Cardinality(page) # PageSize
             /\ pc' = "combine"
             /\ UNCHANGED <<last, inOrder>>
  /\ UNCHANGED <<databaseVars, exports, pid, dump, steady, seen, fresh>>

\* The statement fails, which psql reports without an exit status: an empty page.
\* From then on the query has no offset, each page is a syntax error, and the
\* loop has no end.
StatementFails ==
  /\ pc = "page" /\ last # NULL
  /\ Output({})
  /\ last' = NULL
  /\ UNCHANGED <<databaseVars, exports, pid, pc, dump, historyVars>>

\* Mutant: export-*.json, the files of every script.
PagesOfAll == {f \in Pid \X Offset : files[f] # {}}

\* export-${PREFIX}-*.json
Pages == {f \in Pid \X Offset : f[1] = pid /\ files[f] # {}}

\* jq -s add, rm.
Combine ==
  /\ pc = "combine"
  /\ dump' = UNION {{[page |-> f[2], entry |-> e] : e \in files[f]} : f \in Pages}
  /\ files' = [f \in Pid \X Offset |-> IF f \in Pages THEN {} ELSE files[f]]
  /\ pc' = "done"
  /\ UNCHANGED <<databaseVars, exports, pid, last, historyVars>>

\* set -e: psql loses its connection, jq fails; or the script is killed.
Abort ==
  /\ Running
  /\ pc' = "aborted"
  /\ UNCHANGED <<databaseVars, exports, pid, last, files, dump, historyVars>>

Proceed == FetchPage \/ Combine

Next ==
  \/ \E r \in Resource, kind \in {"ADDED", "DELETED"}, when \in EventTime :
       \E subjects \in (SUBSET SubjectsOf(r)) \ {{}} : Store(r, kind, subjects, when)
  \/ \E p \in Pid : Start(p)
  \/ Proceed \/ StatementFails \/ Abort

Spec == Init /\ [][Next]_vars

\* The script runs on.
FairSpec == Spec /\ WF_vars(Proceed)

-----------------------------------------------------------------------------
(***************************************************************************)
(* Properties.                                                             *)
(***************************************************************************)
\* What the query shows from the start of the export to its end is in the dump,
\* whatever is stored between two pages and in whatever order a page comes: no
\* resource is lost at the boundary of two pages.
NothingLost ==
  pc = "done" => steady \subseteq {d.entry : d \in dump}

\* The dump shows nothing that the query did not show at some time of this export;
\* unless an export that had the same pid was aborted and left its pages.
NothingStale == pc = "done" /\ fresh => {d.entry : d \in dump} \subseteq seen

\* Each resource is in the dump once, if pages come in the order of ids.
OnceEach ==
  pc = "done" /\ fresh /\ inOrder =>
    \A d, f \in dump : d.entry.id = f.entry.id => d = f

\* An export comes to its end, or has met an empty page: the test takes a page that
\* is not full for the last one ("we got the last page", export.sh:15), but not one
\* without rows, which the last one is when full pages hold all resources.
EndsOrMeetsEmptyPage == Running ~> ~Running \/ last = NULL
=============================================================================
