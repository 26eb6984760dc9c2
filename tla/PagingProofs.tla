----------------------------- MODULE PagingProofs -----------------------------
(***************************************************************************)
(* What a reviewer sees of the responses of a form, for any number of      *)
(* rows, page sizes, filters and versions, whatever arrives, is deleted or *)
(* is published between two pages.                                         *)
(***************************************************************************)
EXTENDS Paging, FiniteSetTheorems, TLAPS

(***************************************************************************)
(* The order of the rows                                                   *)
(***************************************************************************)

(* Rows as a query may return them: finitely many, told apart by their id. *)
Keyed(rows) ==
    /\ rows \subseteq Submission /\ IsFiniteSet(rows)
    /\ \A q, r \in rows : q.id = r.id => q = r

Above(rows, r) == {q \in rows : Newer(q, r)}

Rank(rows, r) == Cardinality(Above(rows, r))

(* What was read before: nothing in `rows' is newer than a row of `page'   *)
(* without being in it.                                                    *)
Prefix(page, rows) ==
    page \subseteq rows /\ \A r \in page, q \in rows : Newer(q, r) => q \in page

(* The least number principle, in the one form needed here.                *)
LEMMA LeastNumber ==
    ASSUME NEW S \in SUBSET Nat, S # {}
    PROVE  \E m \in S : \A k \in S : m <= k
<1> DEFINE R == OpToRel(<, Nat)
<1>1. \A x, y \in Nat : <<x, y>> \in R <=> x < y
  BY DEF OpToRel
<1>2. IsWellFoundedOn(R, Nat)
  BY NatLessThanWellFounded
<1> HIDE DEF R
<1>3. PICK m \in S : \A k \in S : ~(<<k, m>> \in R)
  BY <1>2, WFMin
<1>4. ASSUME NEW k \in S PROVE m <= k
  <2>1. ~(k < m)
    BY <1>1, <1>3
  <2> QED BY <2>1
<1> QED BY <1>4

LEMMA SubmissionType ==
    ASSUME NEW r \in Submission
    PROVE  /\ r.id \in Ids /\ r.id \in Nat /\ r.at \in Nat /\ r.at \in Instants
           /\ r.version \in 1..MaxVersion
<1>1. r.id \in Ids /\ r.at \in Instants /\ r.version \in 1..MaxVersion
  BY DEF Submission
<1>2. r.id \in Nat
  BY <1>1, PagingAssumption
<1>3. r.at \in Nat
  BY <1>1 DEF Instants
<1> QED BY <1>1, <1>2, <1>3

(* "-submitted_at, -id" leaves no two rows of a table in doubt.            *)
LEMMA TotalOrder ==
    ASSUME NEW rows, Keyed(rows), NEW q \in rows, NEW r \in rows
    PROVE  /\ q # r => Newer(q, r) \/ Newer(r, q)
           /\ ~Newer(r, r)
           /\ \A p \in rows : Newer(p, q) /\ Newer(q, r) => Newer(p, r)
<1>1. \A p \in rows : p.id \in Nat /\ p.at \in Nat
  BY SubmissionType DEF Keyed
<1>2. q # r => q.id # r.id
  BY DEF Keyed
<1> QED BY <1>1, <1>2 DEF Newer

LEMMA SubsetIsKeyed ==
    ASSUME NEW rows, Keyed(rows), NEW page \in SUBSET rows
    PROVE  Keyed(page)
BY FS_Subset DEF Keyed

LEMMA RankType ==
    ASSUME NEW rows, Keyed(rows), NEW r
    PROVE  /\ IsFiniteSet(Above(rows, r)) /\ Rank(rows, r) \in Nat
           /\ Above(rows, r) \subseteq rows
<1>1. Above(rows, r) \in SUBSET rows
  BY DEF Above
<1> QED BY <1>1, FS_Subset, FS_CardinalityType DEF Keyed, Rank

(* The newer row has the smaller rank.                                     *)
LEMMA RankFollowsOrder ==
    ASSUME NEW rows, Keyed(rows), NEW q \in rows, NEW r \in rows, Newer(q, r)
    PROVE  Rank(rows, q) < Rank(rows, r)
<1>1. Above(rows, q) \in SUBSET Above(rows, r)
  BY TotalOrder DEF Above
<1>2. q \in Above(rows, r) /\ q \notin Above(rows, q)
  BY TotalOrder DEF Above
<1> QED BY <1>1, <1>2, RankType, FS_Subset DEF Rank

LEMMA NewestIsByRank ==
    ASSUME NEW rows, NEW n
    PROVE  Newest(rows, n) = {r \in rows : Rank(rows, r) < n}
BY DEF Newest, Rank, Above

(* order_by(...)[:n] cuts off the front of the rows, ...                   *)
LEMMA NewestIsPrefix ==
    ASSUME NEW rows, Keyed(rows), NEW n \in Nat
    PROVE  Prefix(Newest(rows, n), rows)
<1> SUFFICES ASSUME NEW r \in Newest(rows, n), NEW q \in rows, Newer(q, r)
             PROVE  q \in Newest(rows, n)
  BY NewestIsByRank DEF Prefix
<1>1. r \in rows /\ Rank(rows, r) < n
  BY NewestIsByRank
<1>2. Rank(rows, q) < Rank(rows, r) /\ Rank(rows, q) \in Nat /\ Rank(rows, r) \in Nat
  BY <1>1, RankFollowsOrder, RankType
<1> QED BY <1>1, <1>2, NewestIsByRank

(* ... no more than n of them, ...                                         *)
LEMMA NewestIsSmall ==
    ASSUME NEW rows, Keyed(rows), NEW n \in Nat
    PROVE  /\ IsFiniteSet(Newest(rows, n))
           /\ Cardinality(Newest(rows, n)) \in Nat /\ Cardinality(Newest(rows, n)) <= n
<1> DEFINE N == Newest(rows, n)
           f == [r \in N |-> Rank(rows, r)]
<1>1. \A r \in N : r \in rows /\ Rank(rows, r) \in Nat /\ Rank(rows, r) < n
  BY NewestIsByRank, RankType
<1>2. f \in [N -> 0..(n - 1)]
  BY <1>1
<1>3. ASSUME NEW q \in N, NEW r \in N, q # r PROVE f[q] # f[r]
  <2>1. q \in rows /\ r \in rows
    BY <1>1
  <2>2. Rank(rows, q) < Rank(rows, r) \/ Rank(rows, r) < Rank(rows, q)
    BY <1>3, <2>1, TotalOrder, RankFollowsOrder
  <2> QED BY <1>1, <2>2
<1>4. f \in Injection(N, 0..(n - 1))
  BY <1>2, <1>3 DEF Injection, IsInjective
<1>5. IsFiniteSet(0..(n - 1)) /\ Cardinality(0..(n - 1)) = n
  BY FS_Interval
<1> QED BY <1>4, <1>5, FS_Injection, FS_CardinalityType

(* ... and all of them when there are no more than n, ...                  *)
LEMMA NewestOfFew ==
    ASSUME NEW rows, Keyed(rows), NEW n \in Nat, Cardinality(rows) <= n
    PROVE  Newest(rows, n) = rows
<1>1. ASSUME NEW r \in rows PROVE Rank(rows, r) < n
  <2>1. r \notin Above(rows, r) /\ Above(rows, r) \in SUBSET rows
    BY TotalOrder DEF Above
  <2>2. /\ Rank(rows, r) <= Cardinality(rows) /\ Rank(rows, r) # Cardinality(rows)
        /\ Cardinality(rows) \in Nat /\ Rank(rows, r) \in Nat
    BY <2>1, RankType, FS_Subset, FS_CardinalityType DEF Keyed, Rank
  <2> QED BY <2>2
<1> QED BY <1>1, NewestIsByRank

(* ... so that fewer than n are the whole.                                 *)
LEMMA ShortPageIsWhole ==
    ASSUME NEW rows, Keyed(rows), NEW n \in Nat, Cardinality(Newest(rows, n)) < n
    PROVE  Newest(rows, n) = rows
<1> DEFINE rest == rows \ Newest(rows, n)
           ranks == {Rank(rows, r) : r \in rest}
<1> SUFFICES ASSUME rest # {} PROVE FALSE
  BY NewestIsByRank
<1>1. ranks \in SUBSET Nat /\ ranks # {}
  BY RankType
<1>2. PICK m \in ranks : \A k \in ranks : m <= k
  BY <1>1, LeastNumber
<1>3. PICK r \in rest : Rank(rows, r) = m
  OBVIOUS
<1>4. ASSUME NEW q \in Above(rows, r) PROVE q \in Newest(rows, n)
  <2>1. q \in rows /\ Newer(q, r)
    BY DEF Above
  <2>2. Rank(rows, q) < m /\ Rank(rows, q) \in Nat /\ m \in Nat
    BY <1>3, <2>1, RankFollowsOrder, RankType
  <2> QED BY <1>2, <2>1, <2>2
<1>5. Cardinality(Above(rows, r)) <= Cardinality(Newest(rows, n))
  BY <1>4, NewestIsSmall, FS_Subset
<1>6. n <= Rank(rows, r) /\ Rank(rows, r) \in Nat
  BY <1>3, NewestIsByRank, RankType
<1> QED BY <1>5, <1>6, NewestIsSmall DEF Rank

LEMMA NewestNotEmpty ==
    ASSUME NEW rows, Keyed(rows), rows # {}, NEW n \in Nat \ {0}
    PROVE  Newest(rows, n) # {}
BY ShortPageIsWhole, FS_EmptySet

(* A page that is not empty has a last row.                                *)
LEMMA LastRow ==
    ASSUME NEW page, Keyed(page), page # {}
    PROVE  /\ Last(page) \in page /\ Last(page) \in Submission
           /\ \A q \in page : q.at >= Last(page).at
<1> DEFINE Below(r) == {q \in page : Newer(r, q)}
           sizes == {Cardinality(Below(r)) : r \in page}
<1>1. \A r \in page : IsFiniteSet(Below(r)) /\ Cardinality(Below(r)) \in Nat
  BY FS_Subset, FS_CardinalityType DEF Keyed
<1>2. sizes \in SUBSET Nat /\ sizes # {}
  BY <1>1
<1>3. PICK m \in sizes : \A k \in sizes : m <= k
  BY <1>2, LeastNumber
<1>4. PICK r \in page : Cardinality(Below(r)) = m
  OBVIOUS
<1>5. ASSUME NEW q \in page \ {r} PROVE Newer(q, r)
  <2> SUFFICES ASSUME Newer(r, q) PROVE FALSE
    BY TotalOrder
  <2>1. Below(q) \in SUBSET Below(r)
    BY TotalOrder
  <2>2. q \in Below(r) /\ q \notin Below(q)
    BY TotalOrder
  <2>3. Cardinality(Below(q)) < Cardinality(Below(r))
    BY <1>1, <2>1, <2>2, FS_Subset
  <2>4. m <= Cardinality(Below(q))
    BY <1>3
  <2> QED BY <1>1, <1>4, <2>3, <2>4
<1>6. Last(page) \in page /\ \A q \in page \ {Last(page)} : Newer(q, Last(page))
  BY <1>5 DEF Last
<1>7. Last(page) \in Submission
  BY <1>6 DEF Keyed
<1>8. ASSUME NEW q \in page PROVE q.at >= Last(page).at
  <2>1. q.at \in Nat /\ Last(page).at \in Nat
    BY <1>7, SubmissionType DEF Keyed
  <2> QED BY <1>6, <2>1 DEF Newer
<1> QED BY <1>6, <1>7, <1>8
-----------------------------------------------------------------------------
(***************************************************************************)
(* The inductive invariant                                                 *)
(*                                                                         *)
(* The cursor is an instant: what has been shown lies at or above it, and  *)
(* what the walk still owes lies below it, but for the rows that share the *)
(* instant of a row that ended a page.                                     *)
(***************************************************************************)
RowsAreKeyed == Keyed(table)

ShownIsAbove ==
    /\ walk = Idle => shown = {}
    /\ walk.state = "walking" => \A r \in shown : r.at >= walk.before

SeenInv == PagingTypeOK /\ RowsAreKeyed /\ ShownIsAbove

(* No row that is still to arrive was there when the walk began.           *)
WholeIsPast == walk # Idle => \A r \in walk.whole : r.id \notin fresh

Wanted(r) ==
    /\ r.id \in walk.filter
    /\ walk.surface # "export" => walk.version \in {0, r.version}
    /\ walk.surface = "export" => walk.exported \subseteq {r.version}

Passed(r) == r \in shown \/ \E q \in walk.ends : q.at = r.at /\ Newer(q, r)

PassedOrBelow ==
    walk # Idle => \A r \in walk.whole \cap table :
       Wanted(r) => Passed(r) \/ (walk.state = "walking" /\ r.at < walk.before)

DoneIsComplete == walk # Idle /\ walk.state = "done" => ~walk.left

CompleteInv == WholeIsPast /\ PassedOrBelow /\ DoneIsComplete

(* The table's page, and the row that follows it, are within MAX_PAGE_SIZE. *)
(* Without this the table ends early: the run next_page_hidden shows it. *)
TableFits == Smaller(PerPage, MaxPerPage) < MaxPageSize
-----------------------------------------------------------------------------
(***************************************************************************)
(* One page                                                                *)
(***************************************************************************)

(* What the three surfaces have in common.                                 *)
GoodPage(page, query, more, cursor) ==
    /\ page \subseteq query /\ query \subseteq BeforeCursor(table)
    /\ Prefix(page, query)
    /\ Cardinality(page) <= PageSize
    /\ more \in BOOLEAN
    /\ more => page # {} /\ cursor = Last(page).at
    /\ TableFits /\ ~more => page = query
    /\ \A r \in BeforeCursor(table) :
          /\ walk.surface # "export" /\ Wanted(r) => r \in query
          /\ walk.surface = "export" /\ r.version = Target => r \in query

LEMMA WalkType ==
    ASSUME PagingTypeOK, walk.state \in {"walking", "done"}
    PROVE  walk \in Walk
BY DEF PagingTypeOK, Idle

LEMMA SizesType ==
    /\ \A m, n \in Nat : Smaller(m, n) \in Nat /\ Smaller(m, n) <= m /\ Smaller(m, n) <= n
    /\ \A m, n \in Nat \ {0} : Smaller(m, n) \in Nat \ {0}
    /\ \A n \in Nat : ListLimit(n) \in Nat \ {0}
BY PagingAssumption DEF Smaller, ListLimit

LEMMA QueriesAreKeyed ==
    ASSUME SeenInv
    PROVE  /\ Listed \subseteq BeforeCursor(table) /\ Keyed(Listed)
           /\ Exported \subseteq BeforeCursor(table) /\ Keyed(Exported)
<1>1. Listed \in SUBSET table /\ Exported \in SUBSET table
  BY DEF Listed, Exported, BeforeCursor
<1> QED BY <1>1, SubsetIsKeyed DEF SeenInv, RowsAreKeyed, Listed, Exported

LEMMA ListPageIsGood ==
    ASSUME SeenInv, ListPage
    PROVE  \E page, query, more, cursor :
              GoodPage(page, query, more, cursor) /\ Rendered(page, query, more, cursor)
<1> DEFINE n == ListLimit(Limit)
           page == Newest(Listed, n)
<1>1. n \in Nat \ {0} /\ walk.surface = "list" /\ PageSize = n
  BY SizesType, PagingAssumption DEF ListPage, PageSize
<1>2. Rendered(page, Listed, page # {}, Last(page).at)
  BY DEF ListPage
<1>3. Prefix(page, Listed) /\ Cardinality(page) <= n
  BY <1>1, QueriesAreKeyed, NewestIsPrefix, NewestIsSmall
<1>4. page = {} => page = Listed
  BY <1>1, QueriesAreKeyed, NewestNotEmpty
<1>5. \A r \in BeforeCursor(table) : Wanted(r) => r \in Listed
  BY <1>1 DEF Wanted, Listed
<1> HIDE DEF n, page
<1>6. GoodPage(page, Listed, page # {}, Last(page).at)
  BY <1>1, <1>3, <1>4, <1>5, QueriesAreKeyed DEF GoodPage, Prefix
<1> QED BY <1>2, <1>6

LEMMA ExportPageIsGood ==
    ASSUME SeenInv, ExportPage
    PROVE  \E page, query, more, cursor :
              GoodPage(page, query, more, cursor) /\ Rendered(page, query, more, cursor)
<1> DEFINE n == ExportPageSize
           page == Newest(Exported, n)
           full == Cardinality(page) = n
<1>1. n \in Nat \ {0} /\ walk.surface = "export" /\ PageSize = n
  BY PagingAssumption DEF ExportPage, PageSize
<1>2. Rendered(page, Exported, full, Last(page).at)
  BY DEF ExportPage
<1>3. Prefix(page, Exported) /\ Cardinality(page) <= n /\ Cardinality(page) \in Nat
  BY <1>1, QueriesAreKeyed, NewestIsPrefix, NewestIsSmall
<1>4. ~full => page = Exported
  <2>1. ~full => Cardinality(page) < n
    BY <1>1, <1>3
  <2> QED BY <1>1, <2>1, QueriesAreKeyed, ShortPageIsWhole
<1>5. full => page # {}
  BY <1>1, FS_EmptySet
<1>6. \A r \in BeforeCursor(table) : r.version = Target => r \in Exported
  BY DEF Exported
<1> HIDE DEF n, page
<1>7. GoodPage(page, Exported, full, Last(page).at)
  BY <1>1, <1>3, <1>4, <1>5, <1>6, QueriesAreKeyed DEF GoodPage, Prefix
<1> QED BY <1>2, <1>7

(* The surplus row tells the truth only if MAX_PAGE_SIZE lets it through.  *)
LEMMA TablePageIsGood ==
    ASSUME SeenInv, TablePage
    PROVE  \E page, query, more, cursor :
              GoodPage(page, query, more, cursor) /\ Rendered(page, query, more, cursor)
<1> DEFINE n == Smaller(PerPage, MaxPerPage)
           m == ListLimit(n + 1)
           rows == Newest(Listed, m)
           page == Newest(rows, n)
           more == Cardinality(rows) > n
<1>1. n \in Nat \ {0} /\ m \in Nat \ {0} /\ walk.surface = "table" /\ PageSize = n
  <2>1. n \in Nat \ {0}
    BY SizesType, PagingAssumption
  <2> QED BY <2>1, SizesType DEF TablePage, PageSize
<1>2. Rendered(page, Listed, more, Last(page).at)
  BY DEF TablePage
<1>3. /\ Prefix(rows, Listed) /\ rows \in SUBSET Listed
      /\ IsFiniteSet(rows) /\ Cardinality(rows) \in Nat
  BY <1>1, QueriesAreKeyed, NewestIsPrefix, NewestIsSmall DEF Prefix
<1>4. Keyed(rows)
  BY <1>3, QueriesAreKeyed, SubsetIsKeyed
<1>5. Prefix(page, rows) /\ Cardinality(page) <= n
  BY <1>1, <1>4, NewestIsPrefix, NewestIsSmall
<1>6. Prefix(page, Listed)
  BY <1>3, <1>5 DEF Prefix
<1>7. more => page # {}
  <2>1. more => rows # {}
    BY <1>1, FS_EmptySet
  <2> QED BY <1>1, <1>4, <2>1, NewestNotEmpty
<1>8. TableFits /\ ~more => page = Listed
  <2> SUFFICES ASSUME TableFits, ~more PROVE page = Listed
    OBVIOUS
  <2>1. m = n + 1
    BY <1>1, PagingAssumption DEF TableFits, ListLimit, Smaller
  <2>2. Cardinality(rows) <= n
    BY <1>1, <1>3
  <2>3. Cardinality(rows) < m
    BY <1>1, <1>3, <2>1, <2>2
  <2>4. page = rows
    BY <1>1, <1>4, <2>2, NewestOfFew
  <2>5. rows = Listed
    BY <1>1, <2>3, QueriesAreKeyed, ShortPageIsWhole
  <2> QED BY <2>4, <2>5
<1>9. \A r \in BeforeCursor(table) : Wanted(r) => r \in Listed
  BY <1>1 DEF Wanted, Listed
<1>10. more \in BOOLEAN
  OBVIOUS
<1> HIDE DEF n, m, rows, page, more
<1>11. GoodPage(page, Listed, more, Last(page).at)
  BY <1>1, <1>5, <1>6, <1>7, <1>8, <1>9, <1>10, QueriesAreKeyed DEF GoodPage, Prefix
<1> QED BY <1>2, <1>11

LEMMA EveryPageIsGood ==
    ASSUME SeenInv, NextPage
    PROVE  /\ walk.state = "walking"
           /\ \E page, query, more, cursor :
                 GoodPage(page, query, more, cursor) /\ Rendered(page, query, more, cursor)
BY ListPageIsGood, ExportPageIsGood, TablePageIsGood
   DEF NextPage, ListPage, ExportPage, TablePage

(* What a page does to the walk, field by field.                           *)
Advanced(page, query, more, cursor) ==
    /\ more => walk'.state = "walking" /\ walk'.before = cursor
    /\ ~more => walk'.state = "done" /\ walk'.before = walk.before
    /\ walk'.ends = IF page = {} THEN walk.ends ELSE walk.ends \cup {Last(page)}
    /\ walk'.exported = IF walk.surface = "export" THEN walk.exported \cup {Target}
                                                  ELSE walk.exported
    /\ walk'.page = page
    /\ query = page => ~walk'.left
    /\ walk'.surface = walk.surface /\ walk'.version = walk.version
    /\ walk'.filter = walk.filter /\ walk'.whole = walk.whole

LEMMA RenderedAdvances ==
    ASSUME walk \in Walk, NEW page, NEW query, NEW more, NEW cursor,
           Rendered(page, query, more, cursor)
    PROVE  Advanced(page, query, more, cursor)
BY DEF Rendered, Walk, Advanced

LEMMA RenderedType ==
    ASSUME SeenInv, walk \in Walk, NEW page, NEW query, NEW more, NEW cursor,
           GoodPage(page, query, more, cursor), Rendered(page, query, more, cursor)
    PROVE  PagingTypeOK'
<1>1. page \in SUBSET table /\ page \subseteq Submission
  BY DEF GoodPage, BeforeCursor, SeenInv, RowsAreKeyed, Keyed
<1>2. page # {} => Last(page) \in Submission
  BY <1>1, SubsetIsKeyed, LastRow DEF SeenInv, RowsAreKeyed
<1>3. more => cursor \in 1..(MaxTime + 1)
  <2>1. more => cursor \in Instants
    BY <1>2, SubmissionType DEF GoodPage
  <2> QED BY <2>1, PagingAssumption DEF Instants
<1>4. Target \in 1..MaxVersion
  BY DEF Target, SeenInv, PagingTypeOK, Walk
<1>5. walk' \in Walk
  <2> DEFINE state == IF more THEN "walking" ELSE "done"
             before == IF more THEN cursor ELSE walk.before
             ends == IF page = {} THEN walk.ends ELSE walk.ends \cup {Last(page)}
             exported == IF walk.surface = "export" THEN walk.exported \cup {Target}
                                                    ELSE walk.exported
             left == query \ page # {}
  <2>1. /\ state \in {"walking", "done"} /\ before \in 1..(MaxTime + 1)
        /\ ends \in SUBSET Submission /\ exported \in SUBSET (1..MaxVersion)
        /\ left \in BOOLEAN
    BY <1>2, <1>3, <1>4 DEF Walk
  <2>2. walk' = [walk EXCEPT !.state = state, !.before = before, !.ends = ends,
                             !.exported = exported, !.page = page, !.left = left]
    BY DEF Rendered
  <2> HIDE DEF state, before, ends, exported, left
  <2> QED BY <1>1, <2>1, <2>2 DEF Walk
<1>6. Cardinality(walk'.page) <= PageSize'
  BY RenderedAdvances DEF GoodPage, PageSize, Advanced
<1> QED BY <1>1, <1>5, <1>6 DEF Rendered, SeenInv, PagingTypeOK

(* The next cursor lies below this one, and at the oldest row of the page. *)
LEMMA RenderedIsAbove ==
    ASSUME SeenInv, walk \in Walk, walk.state = "walking",
           NEW page, NEW query, NEW more, NEW cursor,
           GoodPage(page, query, more, cursor), Rendered(page, query, more, cursor)
    PROVE  ShownIsAbove'
<1>1. page \in SUBSET table /\ Keyed(page) /\ \A r \in page : r.at < walk.before
  BY SubsetIsKeyed DEF GoodPage, BeforeCursor, SeenInv, RowsAreKeyed
<1>2. ASSUME walk'.state = "walking", NEW r \in shown' PROVE r.at >= walk'.before
  <2>1. more /\ walk'.before = Last(page).at /\ page # {}
    <3>1. Advanced(page, query, more, cursor)
      BY RenderedAdvances
    <3>2. more /\ walk'.before = cursor
      BY <1>2, <3>1 DEF Advanced
    <3> QED BY <3>2 DEF GoodPage
  <2>2. Last(page) \in page /\ \A q \in page : q.at >= Last(page).at
    BY <1>1, <2>1, LastRow
  <2>3. CASE r \in page
    BY <2>1, <2>2, <2>3
  <2>4. CASE r \in shown
    <3>1. r.at >= walk.before /\ Last(page).at < walk.before
      BY <1>1, <2>2, <2>4 DEF SeenInv, ShownIsAbove
    <3>2. r.at \in Nat /\ Last(page).at \in Nat
      <4>1. r \in Submission /\ Last(page) \in Submission
        BY <1>1, <2>2, <2>4 DEF SeenInv, PagingTypeOK, Keyed
      <4> QED BY <4>1, SubmissionType
    <3>3. walk.before \in Nat
      BY DEF Walk
    <3> QED BY <2>1, <3>1, <3>2, <3>3
  <2> QED BY <1>2, <2>3, <2>4 DEF Rendered
<1>3. walk' # Idle
  <2>1. walk'.state = "walking" \/ walk'.state = "done"
    BY RenderedAdvances DEF Advanced
  <2> QED BY <2>1 DEF Idle
<1> QED BY <1>2, <1>3 DEF ShownIsAbove

(* Whatever is wanted below the old cursor and was not on the page lies    *)
(* below the new one, or shares the instant of the page's last row.        *)
LEMMA RenderedIsComplete ==
    ASSUME TableFits, SeenInv, CompleteInv, walk \in Walk, walk.state = "walking",
           NEW page, NEW query, NEW more, NEW cursor,
           GoodPage(page, query, more, cursor), Rendered(page, query, more, cursor)
    PROVE  CompleteInv'
<1>1. Advanced(page, query, more, cursor)
  BY RenderedAdvances
<1>2. table' = table /\ fresh' = fresh /\ shown' = shown \cup page /\ walk # Idle
  BY DEF Rendered, Idle
<1>3. WholeIsPast'
  BY <1>1, <1>2 DEF Advanced, CompleteInv, WholeIsPast
<1>4. ~more => page = query
  BY DEF GoodPage
<1>5. DoneIsComplete'
  BY <1>1, <1>4 DEF Advanced, DoneIsComplete
<1>6. PassedOrBelow'
  <2> SUFFICES ASSUME NEW r \in walk.whole \cap table, Wanted(r)', r \notin shown',
                      ~\E q \in walk'.ends : q.at = r.at /\ Newer(q, r)
               PROVE  walk'.state = "walking" /\ r.at < walk'.before
    BY <1>1, <1>2 DEF Advanced, PassedOrBelow, Passed
  <2>1. Wanted(r) /\ (walk.surface = "export" => r.version = Target)
    BY <1>1 DEF Advanced, Wanted
  <2>2. r.at < walk.before
    <3>1. ~Passed(r)
      BY <1>1, <1>2 DEF Advanced, Passed
    <3> QED BY <1>2, <2>1, <3>1 DEF CompleteInv, PassedOrBelow
  <2>3. r \in query /\ r \notin page
    BY <1>2, <2>1, <2>2 DEF GoodPage, BeforeCursor
  <2>4. more /\ page # {} /\ cursor = Last(page).at
    BY <1>4, <2>3 DEF GoodPage
  <2>5. walk'.state = "walking" /\ walk'.before = Last(page).at /\ Last(page) \in walk'.ends
    BY <1>1, <2>4 DEF Advanced
  <2>6. Last(page) \in page /\ Last(page) \in table /\ r \in table
    <3>1. page \in SUBSET table
      BY DEF GoodPage, BeforeCursor
    <3> QED BY <2>4, <3>1, SubsetIsKeyed, LastRow DEF SeenInv, RowsAreKeyed
  <2>7. ~Newer(r, Last(page))
    BY <2>3, <2>6 DEF GoodPage, Prefix
  <2>8. Newer(Last(page), r)
    BY <2>3, <2>6, <2>7, TotalOrder DEF SeenInv, RowsAreKeyed
  <2>9. Last(page).at # r.at
    BY <2>5, <2>8
  <2> QED BY <2>5, <2>8, <2>9 DEF Newer
<1> QED BY <1>3, <1>5, <1>6 DEF CompleteInv
-----------------------------------------------------------------------------
(***************************************************************************)
(* The other steps                                                         *)
(***************************************************************************)
LEMMA SeenInit == Init => SeenInv
<1> SUFFICES ASSUME Init PROVE SeenInv
  OBVIOUS
<1>1. PagingTypeOK
  BY PagingAssumption DEF Init, PagingTypeOK, Instants
<1>2. RowsAreKeyed /\ ShownIsAbove
  BY FS_EmptySet DEF Init, RowsAreKeyed, Keyed, ShownIsAbove, Idle
<1> QED BY <1>1, <1>2 DEF SeenInv

LEMMA ArriveRow ==
    ASSUME SeenInv, NEW id \in Ids, Arrive(id)
    PROVE  \E r \in Submission : r.id = id /\ table' = table \cup {r}
<1>1. PICK at \in {now, now - 1} \cap Instants, v \in 1..active :
         table' = table \cup {[id |-> id, at |-> at, version |-> v]}
  BY DEF Arrive
<1>2. v \in 1..MaxVersion
  BY <1>1, PagingAssumption DEF SeenInv, PagingTypeOK
<1>3. [id |-> id, at |-> at, version |-> v] \in Submission
  BY <1>1, <1>2 DEF Submission
<1> QED BY <1>1, <1>3

LEMMA SeenArrive ==
    ASSUME SeenInv, NEW id \in Ids, Arrive(id)
    PROVE  SeenInv'
<1>1. PICK r \in Submission : r.id = id /\ table' = table \cup {r}
  BY ArriveRow
<1>2. /\ UNCHANGED <<now, active, walk, shown>> /\ id \in fresh /\ fresh' = fresh \ {id}
  BY DEF Arrive
<1>3. \A q \in table : q.id \notin fresh
  BY DEF SeenInv, PagingTypeOK
<1>4. PagingTypeOK'
  <2>1. table' \subseteq Submission /\ \A q \in table' : q.id \notin fresh'
    BY <1>1, <1>2, <1>3 DEF SeenInv, PagingTypeOK
  <2>2. walk' # Idle => Cardinality(walk'.page) <= PageSize'
    BY <1>2 DEF SeenInv, PagingTypeOK, PageSize
  <2> QED BY <1>2, <2>1, <2>2 DEF SeenInv, PagingTypeOK
<1>5. RowsAreKeyed'
  BY <1>1, <1>2, <1>3, FS_AddElement DEF SeenInv, RowsAreKeyed, Keyed
<1>6. ShownIsAbove'
  BY <1>2 DEF SeenInv, ShownIsAbove
<1> QED BY <1>4, <1>5, <1>6 DEF SeenInv

LEMMA SeenDelete ==
    ASSUME SeenInv, NEW r \in table, Delete(r)
    PROVE  SeenInv'
<1>1. UNCHANGED <<now, fresh, active, walk, shown>> /\ table' \in SUBSET table
  BY DEF Delete
<1>2. RowsAreKeyed'
  BY <1>1, SubsetIsKeyed DEF SeenInv, RowsAreKeyed, Keyed
<1>3. PagingTypeOK' /\ ShownIsAbove'
  BY <1>1 DEF SeenInv, PagingTypeOK, PageSize, ShownIsAbove
<1> QED BY <1>2, <1>3 DEF SeenInv

LEMMA SeenStart ==
    ASSUME SeenInv, NEW surface \in Surfaces, NEW version \in 0..MaxVersion,
           NEW filter \in Filters, Start(surface, version, filter)
    PROVE  SeenInv'
<1>1. /\ UNCHANGED <<now, fresh, table, active, shown>> /\ shown = {}
      /\ walk' \in Walk /\ walk'.page = {} /\ walk'.surface \in Surfaces
  <2>1. MaxTime + 1 \in 1..(MaxTime + 1)
    BY PagingAssumption
  <2> QED BY <2>1 DEF Start, SeenInv, PagingTypeOK, ShownIsAbove, Walk
<1>2. PageSize' \in Nat /\ Cardinality(walk'.page) = 0
  BY <1>1, SizesType, PagingAssumption, FS_EmptySet DEF PageSize, Surfaces
<1>3. PagingTypeOK'
  <2>1. Cardinality(walk'.page) <= PageSize'
    BY <1>2
  <2> QED BY <1>1, <2>1 DEF SeenInv, PagingTypeOK
<1>4. RowsAreKeyed' /\ ShownIsAbove'
  BY <1>1 DEF SeenInv, RowsAreKeyed, Keyed, ShownIsAbove
<1> QED BY <1>3, <1>4 DEF SeenInv

LEMMA SeenElse ==
    ASSUME SeenInv, Tick \/ Publish \/ UNCHANGED vars
    PROVE  SeenInv'
<1>1. UNCHANGED <<fresh, table, walk, shown>>
  BY DEF Tick, Publish, vars
<1>2. now' \in Instants /\ active' \in 1..MaxVersion
  BY PagingAssumption DEF Tick, Publish, vars, SeenInv, PagingTypeOK, Instants
<1>3. PagingTypeOK' /\ RowsAreKeyed' /\ ShownIsAbove'
  BY <1>1, <1>2 DEF SeenInv, PagingTypeOK, PageSize, RowsAreKeyed, Keyed, ShownIsAbove
<1> QED BY <1>3 DEF SeenInv

LEMMA SeenPage ==
    ASSUME SeenInv, NextPage
    PROVE  SeenInv'
<1>1. walk.state = "walking" /\ walk \in Walk
  BY EveryPageIsGood, WalkType DEF SeenInv
<1>2. PICK page, query, more, cursor :
         GoodPage(page, query, more, cursor) /\ Rendered(page, query, more, cursor)
  BY EveryPageIsGood
<1>3. PagingTypeOK' /\ ShownIsAbove'
  BY <1>1, <1>2, RenderedType, RenderedIsAbove
<1>4. RowsAreKeyed'
  BY <1>2 DEF Rendered, SeenInv, RowsAreKeyed, Keyed
<1> QED BY <1>3, <1>4 DEF SeenInv

LEMMA SeenNext == SeenInv /\ [Next]_vars => SeenInv'
BY SeenArrive, SeenDelete, SeenStart, SeenElse, SeenPage DEF Next

LEMMA CompleteInit == Init => CompleteInv
BY DEF Init, CompleteInv, WholeIsPast, PassedOrBelow, DoneIsComplete

LEMMA CompleteNext ==
    ASSUME TableFits
    PROVE  SeenInv /\ CompleteInv /\ [Next]_vars => CompleteInv'
<1> SUFFICES ASSUME SeenInv, CompleteInv, [Next]_vars PROVE CompleteInv'
  OBVIOUS
<1>1. ASSUME UNCHANGED <<walk, shown>>, fresh' \subseteq fresh,
             \A r \in table' : r \in table \/ r.id \in fresh
      PROVE  CompleteInv'
  <2>1. walk # Idle => walk'.whole \cap table' \subseteq walk.whole \cap table
    BY <1>1 DEF CompleteInv, WholeIsPast
  <2>2. \A r : (Wanted(r)' <=> Wanted(r)) /\ (Passed(r)' <=> Passed(r))
    BY <1>1 DEF Wanted, Passed
  <2>3. WholeIsPast' /\ DoneIsComplete'
    BY <1>1 DEF CompleteInv, WholeIsPast, DoneIsComplete
  <2>4. PassedOrBelow'
    BY <1>1, <2>1, <2>2 DEF CompleteInv, PassedOrBelow
  <2> QED BY <2>3, <2>4 DEF CompleteInv
<1>2. ASSUME NEW id \in Ids, Arrive(id) PROVE CompleteInv'
  <2>1. PICK r \in Submission : r.id = id /\ table' = table \cup {r}
    BY <1>2, ArriveRow
  <2> QED BY <1>1, <1>2, <2>1 DEF Arrive
<1>3. ASSUME NEW r \in table, Delete(r) PROVE CompleteInv'
  BY <1>1, <1>3 DEF Delete
<1>4. CASE Tick \/ Publish \/ UNCHANGED vars
  BY <1>1, <1>4 DEF Tick, Publish, vars
<1>5. ASSUME NEW surface \in Surfaces, NEW version \in 0..MaxVersion,
             NEW filter \in Filters, Start(surface, version, filter)
      PROVE  CompleteInv'
  <2>1. /\ walk'.state = "walking" /\ walk'.before = MaxTime + 1
        /\ walk'.whole = table /\ UNCHANGED <<fresh, table>>
    BY <1>5 DEF Start
  <2>2. \A r \in table : r.at < MaxTime + 1 /\ r.id \notin fresh
    <3>1. \A r \in table : r.at \in 1..MaxTime
      BY SubmissionType DEF SeenInv, PagingTypeOK, Instants
    <3> QED BY <3>1, PagingAssumption DEF SeenInv, PagingTypeOK
  <2> QED BY <2>1, <2>2 DEF CompleteInv, WholeIsPast, PassedOrBelow, DoneIsComplete
<1>6. CASE NextPage
  <2>1. walk.state = "walking" /\ walk \in Walk
    BY <1>6, EveryPageIsGood, WalkType DEF SeenInv
  <2>2. PICK page, query, more, cursor :
           GoodPage(page, query, more, cursor) /\ Rendered(page, query, more, cursor)
    BY <1>6, EveryPageIsGood
  <2> QED BY <2>1, <2>2, RenderedIsComplete
<1> QED BY <1>2, <1>3, <1>4, <1>5, <1>6 DEF Next
-----------------------------------------------------------------------------
(***************************************************************************)
(* The theorems                                                            *)
(***************************************************************************)
LEMMA SeenInvariant == Spec => []SeenInv
BY SeenInit, SeenNext, PTL DEF Spec

LEMMA CompleteInvariant ==
    ASSUME TableFits
    PROVE  Spec => []CompleteInv
BY SeenInvariant, CompleteInit, CompleteNext, PTL DEF Spec

(* No page holds more rows than were asked for and than the settings       *)
(* allow, on any of the three surfaces.                                    *)
THEOREM PagesAreBounded == Spec => []PagingTypeOK
<1>1. SeenInv => PagingTypeOK
  BY DEF SeenInv
<1> QED BY <1>1, SeenInvariant, PTL

(* Whatever arrives, is deleted or is published between two requests, the  *)
(* rows of a page are older than all that was shown before.                *)
THEOREM WalksNeverTurnBack == Spec => PagesDescend
<1>1. SeenInv /\ [Next]_vars
         => [walk.state = "walking" =>
                \A r \in shown, q \in walk'.page : Newer(r, q)]_<<walk, shown>>
  <2> SUFFICES ASSUME SeenInv, Next, ~UNCHANGED <<walk, shown>>, walk.state = "walking",
                      NEW r \in shown, NEW q \in walk'.page
               PROVE  Newer(r, q)
    BY DEF vars
  <2>1. NextPage
    BY DEF Next, Tick, Arrive, Delete, Publish, Start, Idle
  <2>2. PICK page, query, more, cursor :
           GoodPage(page, query, more, cursor) /\ Rendered(page, query, more, cursor)
    BY <2>1, EveryPageIsGood
  <2>3. walk \in Walk
    BY WalkType DEF SeenInv
  <2>4. q \in table /\ q.at < walk.before
    BY <2>2, <2>3, RenderedAdvances DEF GoodPage, BeforeCursor, Advanced
  <2>5. r.at >= walk.before
    BY DEF SeenInv, ShownIsAbove
  <2>6. q.at \in Nat /\ r.at \in Nat /\ walk.before \in Nat
    BY <2>3, <2>4, SubmissionType DEF SeenInv, PagingTypeOK, Walk
  <2> QED BY <2>4, <2>5, <2>6 DEF Newer
<1> QED BY <1>1, SeenInvariant, PTL DEF Spec, PagesDescend

(* The cursor, though it is an instant alone, loses nothing but the rows   *)
(* that share the instant of a page's last row, as long as MAX_PAGE_SIZE   *)
(* leaves the table room for its surplus row.                              *)
THEOREM WalksAreComplete ==
    ASSUME TableFits
    PROVE  Spec => []NothingSkipped
<1>1. CompleteInv => NothingSkipped
  BY DEF CompleteInv, PassedOrBelow, Wanted, Passed, NothingSkipped, Idle
<1> QED BY <1>1, CompleteInvariant, PTL

(* On the same condition the table offers a next page whenever there is    *)
(* one: the setting is all that the finding next_page_hidden takes.        *)
THEOREM NextPageOfferedIfItFits ==
    ASSUME TableFits
    PROVE  Spec => []NextPageIsOffered
<1>1. CompleteInv => NextPageIsOffered
  BY DEF CompleteInv, DoneIsComplete, NextPageIsOffered, Idle
<1> QED BY <1>1, CompleteInvariant, PTL
=============================================================================
