-------------------------------- MODULE Paging --------------------------------
(***************************************************************************)
(* A reviewer walks the responses of a form page by page, over one of the  *)
(* three surfaces that page by a keyset cursor: the REST listing, the CSV  *)
(* export and the admin's responses table.  Answers arrive, are deleted    *)
(* and versions are published between two pages.                           *)
(*                                                                         *)
(* A page is the set of its rows: their order is Newer, "-submitted_at,    *)
(* -id".  An id is a random UUID, so a later row may have a smaller one.   *)
(***************************************************************************)
EXTENDS Naturals, FiniteSets

CONSTANTS
    Ids,             \* ids of submissions; rows that will ever exist
    Filters,         \* what since, until, q and field let through, as ids
    Limit,           \* ?limit= of the listing, 0 for none
    PerPage,         \* ?per_page= of the admin's table
    MaxPageSize,     \* the settings MAX_PAGE_SIZE
    ExportPageSize,  \* and EXPORT_PAGE_SIZE
    MaxPerPage,      \* MAX_PER_PAGE of admin.py
    MaxVersion,      \* bound: versions
    MaxTime          \* bound: the clock

ASSUME PagingAssumption ==
    /\ Ids \subseteq Nat /\ IsFiniteSet(Ids)
    /\ Filters \subseteq SUBSET Ids
    /\ Limit \in Nat
    /\ PerPage \in Nat \ {0} /\ MaxPageSize \in Nat \ {0}
    /\ ExportPageSize \in Nat \ {0} /\ MaxPerPage \in Nat \ {0}
    /\ MaxVersion \in Nat \ {0} /\ MaxTime \in Nat \ {0}

VARIABLES
    now,     \* the clock, as coarse as submitted_at
    fresh,   \* the ids not used yet
    table,   \* forms_submission, the rows of the form
    active,  \* the ordinal of the active version
    walk,    \* the reviewer's walk
    shown    \* the rows seen in it so far

vars == <<now, fresh, table, active, walk, shown>>
-----------------------------------------------------------------------------
Instants == 1..MaxTime

Submission == [id : Ids, at : Instants, version : 1..MaxVersion]

Surfaces == {"list", "export", "table"}

Idle == [state |-> "idle"]

(* `version' is the parameter, 0 for none; `before' the cursor, MaxTime + 1*)
(* for none.  History: `whole' the rows when the walk began, `ends' the    *)
(* last rows of its pages, `exported' the versions of its CSV pages;       *)
(* `page' is the page on display, `left' whether its query held more.      *)
Walk == [state : {"walking", "done"}, surface : Surfaces, version : 0..MaxVersion,
         filter : Filters, before : 1..(MaxTime + 1), whole : SUBSET Submission,
         ends : SUBSET Submission, exported : SUBSET (1..MaxVersion),
         page : SUBSET Submission, left : BOOLEAN]

Newer(r, q) == r.at > q.at \/ (r.at = q.at /\ r.id > q.id)

Smaller(m, n) == IF m < n THEN m ELSE n

(* order_by("-submitted_at", "-id")[:n] *)
Newest(rows, n) == {r \in rows : Cardinality({q \in rows : Newer(q, r)}) < n}

(* Mutant of Last: rows[0].                                                *)
First(page) == CHOOSE r \in page : \A q \in page \ {r} : Newer(r, q)

Last(page) == CHOOSE r \in page : \A q \in page \ {r} : Newer(q, r)

Init ==
    /\ now = 1
    /\ fresh = Ids
    /\ table = {}
    /\ active = 1
    /\ walk = Idle
    /\ shown = {}
-----------------------------------------------------------------------------
Tick ==
    /\ now < MaxTime
    /\ now' = now + 1
    /\ UNCHANGED <<fresh, table, active, walk, shown>>

(* submitted_at is set before the INSERT commits, so a row may be a moment *)
(* old when it appears; its version was active when the submit began.      *)
Arrive(id) ==
    /\ id \in fresh
    /\ \E at \in {now, now - 1} \cap Instants, v \in 1..active :
          table' = table \cup {[id |-> id, at |-> at, version |-> v]}
    /\ fresh' = fresh \ {id}
    /\ UNCHANGED <<now, active, walk, shown>>

Delete(r) ==
    /\ r \in table
    /\ table' = table \ {r}
    /\ UNCHANGED <<now, fresh, active, walk, shown>>

Publish ==
    /\ active < MaxVersion
    /\ active' = active + 1
    /\ UNCHANGED <<now, fresh, table, walk, shown>>

(* The first request of a walk.  The export takes no filter.               *)
Start(surface, version, filter) ==
    /\ walk = Idle
    /\ surface = "export" => filter = Ids
    /\ walk' = [state |-> "walking", surface |-> surface, version |-> version,
                filter |-> filter, before |-> MaxTime + 1, whole |-> table,
                ends |-> {}, exported |-> {}, page |-> {}, left |-> FALSE]
    /\ UNCHANGED <<now, fresh, table, active, shown>>
-----------------------------------------------------------------------------
(* Mutant of BeforeCursor: submitted_at__lte.                              *)
UpToCursor(rows) == {r \in rows : r.at <= walk.before}

BeforeCursor(rows) == {r \in rows : r.at < walk.before}

(* The query of list_submissions, without its limit.                       *)
Listed == {r \in BeforeCursor(table) : /\ r.id \in walk.filter
                                      /\ walk.version \in {0, r.version}}

(* list_submissions cuts the limit it is given at MAX_PAGE_SIZE.           *)
ListLimit(n) == IF n = 0 THEN MaxPageSize ELSE Smaller(n, MaxPageSize)

(* csv_rows falls back to the active version.                              *)
Target == IF walk.version \in 1..active THEN walk.version ELSE active

Exported == {r \in BeforeCursor(table) : r.version = Target}

(* A page has been rendered; the walk goes on below `cursor', or ends.     *)
Rendered(page, query, more, cursor) ==
    /\ shown' = shown \cup page
    /\ walk' = [walk EXCEPT !.state = IF more THEN "walking" ELSE "done",
                            !.before = IF more THEN cursor ELSE @,
                            !.ends = IF page = {} THEN @ ELSE @ \cup {Last(page)},
                            !.exported = IF walk.surface = "export" THEN @ \cup {Target} ELSE @,
                            !.page = page, !.left = query \ page # {}]
    /\ UNCHANGED <<now, fresh, table, active>>

(* The client of the listing sends the last submitted_at it got, until a   *)
(* page is empty.                                                          *)
ListPage ==
    /\ walk.state = "walking" /\ walk.surface = "list"
    /\ LET page == Newest(Listed, ListLimit(Limit)) IN
       Rendered(page, Listed, page # {}, Last(page).at)

(* X-Forms-Next-Before is sent with a full page.                           *)
ExportPage ==
    /\ walk.state = "walking" /\ walk.surface = "export"
    /\ LET page == Newest(Exported, ExportPageSize) IN
       Rendered(page, Exported, Cardinality(page) = ExportPageSize, Last(page).at)

(* Mutant of TablePage: the cursor is taken before the surplus row is cut. *)
TablePageOffByOne ==
    /\ walk.state = "walking" /\ walk.surface = "table"
    /\ LET size == Smaller(PerPage, MaxPerPage)
           rows == Newest(Listed, ListLimit(size + 1))
           page == Newest(rows, size) IN
       Rendered(page, Listed, Cardinality(rows) > size, Last(rows).at)

(* Mutant of TablePage: the surplus row is shown.                          *)
TablePageUncut ==
    /\ walk.state = "walking" /\ walk.surface = "table"
    /\ LET size == Smaller(PerPage, MaxPerPage)
           rows == Newest(Listed, ListLimit(size + 1)) IN
       Rendered(rows, Listed, Cardinality(rows) > size, Last(rows).at)

(* responses_view asks for one row over the page size; that row answers    *)
(* whether there is a next page.                                           *)
TablePage ==
    /\ walk.state = "walking" /\ walk.surface = "table"
    /\ LET size == Smaller(PerPage, MaxPerPage)
           rows == Newest(Listed, ListLimit(size + 1))
           page == Newest(rows, size) IN
       Rendered(page, Listed, Cardinality(rows) > size, Last(page).at)

NextPage == ListPage \/ ExportPage \/ TablePage

Next ==
    \/ Tick
    \/ \E id \in Ids : Arrive(id)
    \/ \E r \in table : Delete(r)
    \/ Publish
    \/ \E surface \in Surfaces, version \in 0..MaxVersion, filter \in Filters :
          Start(surface, version, filter)
    \/ NextPage

Spec == Init /\ [][Next]_vars

(* The reviewer goes on asking. *)
FairSpec == Spec /\ WF_vars(NextPage)
-----------------------------------------------------------------------------
PageSize ==
    CASE walk.surface = "list" -> ListLimit(Limit)
      [] walk.surface = "export" -> ExportPageSize
      [] walk.surface = "table" -> Smaller(PerPage, MaxPerPage)

(* No page is larger than what was asked for and than the cap.             *)
PagingTypeOK ==
    /\ now \in Instants
    /\ fresh \subseteq Ids
    /\ table \subseteq Submission /\ \A r \in table : r.id \notin fresh
    /\ active \in 1..MaxVersion
    /\ walk \in Walk \cup {Idle}
    /\ shown \subseteq Submission
    /\ walk # Idle => Cardinality(walk.page) <= PageSize

(* A walk never turns back: whatever arrives in between, the rows of a     *)
(* page come after every row shown before, so none is shown twice.         *)
PagesDescend ==
    [][walk.state = "walking" =>
          \A r \in shown, q \in walk'.page : Newer(r, q)]_<<walk, shown>>

(* Every row that was there from the first page to the last, and that the  *)
(* walk asked for, has been shown; but for those that share the instant of *)
(* a row that ended a page, since the cursor is that instant alone         *)
(* (services.py:357, export.py:106).                                       *)
NothingSkipped ==
    walk.state = "done" =>
       \A r \in walk.whole \cap table :
          \/ r \in shown
          \/ r.id \notin walk.filter
          \/ walk.surface # "export" /\ walk.version \notin {0, r.version}
          \/ walk.surface = "export" /\ walk.exported # {r.version}
          \/ \E q \in walk.ends : q.at = r.at /\ Newer(q, r)

(* A walk ends, however many answers arrive.                               *)
WalkEnds == walk.state = "walking" ~> walk.state = "done"

(* "One row over the page size: the cheap `is there a next page' answer"   *)
(* (admin.py:199): when the table offers no next page, there is none.      *)
NextPageIsOffered ==
    walk.state = "done" /\ walk.surface = "table" => ~walk.left
=============================================================================
