------------------------------- MODULE Responses -------------------------------
(***************************************************************************)
(* The answers to one form, stored under the version they answer, and the  *)
(* reviewer's screens that show answers to many versions at once:          *)
(* FormAdmin.responses_view, services.list_submissions and presenters.py,  *)
(* over the versions that Builder publishes.                               *)
(*                                                                         *)
(* Rows of forms_submission are told apart by the order of their arrival.  *)
(* The filters by moment and the keyset cursor are in Paging.              *)
(***************************************************************************)
EXTENDS Builder

CONSTANTS
    NoPage,         \* no reviewer's page is being built
    MaxSubmissions  \* bound: answers ever stored

ASSUME ResponsesAssumption == MaxSubmissions \in Nat

VARIABLES
    submission, \* the rows in order of arrival; Gone where one was deleted
    page        \* the page a reviewer asked for, while it is built

vars == <<draft, versions, board, edits, submission, page>>
-----------------------------------------------------------------------------
Empty == [slug \in {} |-> None]

Gone == [version |-> 0, answers |-> Empty, erased |-> FALSE]

Stored == {i \in DOMAIN submission : submission[i] # Gone}

Init == BuilderInit /\ submission = <<>> /\ page = NoPage

(* submit, as a request that resolved the form while version n was active  *)
(* (Intake has that race); a client may send any slug it ever saw.         *)
Submit(n) ==
    /\ Len(submission) < MaxSubmissions
    /\ \E asked \in SUBSET UNION {SlugsOf(versions[m]) : m \in DOMAIN versions} :
       \E answers \in [asked -> Answer] :
          /\ AnswersAccepted(versions[n], answers)
          /\ submission' = Append(submission,
                              [version |-> n, answers |-> StoredAnswers(versions[n], answers),
                               erased |-> FALSE])
    /\ UNCHANGED <<draft, versions, board, edits, page>>

(* Mutant of Erase: the row is marked, its answers stay.                   *)
EraseKeepingAnswers(i) ==
    /\ submission' = [submission EXCEPT ![i].erased = TRUE]
    /\ UNCHANGED <<draft, versions, board, edits, page>>

(* erase_user_submissions.                                                 *)
Erase(i) ==
    /\ submission' = [submission EXCEPT ![i].answers = Empty, ![i].erased = TRUE]
    /\ UNCHANGED <<draft, versions, board, edits, page>>

DeleteSubmission(i) ==
    /\ submission' = [submission EXCEPT ![i] = Gone]
    /\ UNCHANGED <<draft, versions, board, edits, page>>
-----------------------------------------------------------------------------
ColumnSlugs(schema) == {AnswerColumns(schema)[i].slug : i \in DOMAIN AnswerColumns(schema)}

(* Mutant of AnswerSlugs: the questions of the active version only.        *)
ActiveSlugs(upto) == IF upto = 0 THEN {} ELSE ColumnSlugs(versions[upto])

(* form_answer_slugs: every question slug the form has ever published.     *)
AnswerSlugs(upto) == UNION {ColumnSlugs(versions[n]) : n \in 1..upto}

(* dao_display, through format_value: the label of an option rather than   *)
(* its value, and nothing for an absent answer.                            *)
Display(answers, slug) ==
    IF slug \notin DOMAIN answers THEN None
    ELSE IF answers[slug].labels # None THEN answers[slug].labels ELSE answers[slug].value

(* answers__<slug>__value__icontains: the value, not its label.  The path  *)
(* is cut at every "__": that of a slug which is not plain leads nowhere.  *)
Says(row, slug, needle) ==
    /\ slug \in Plain \cap DOMAIN row.answers
    /\ row.answers[slug].value = needle

(* present_answers: slug and value, headers omitted.                       *)
PresentAnswers(row) ==
    {<<slug, row.answers[slug].value>> :
        slug \in {s \in DOMAIN row.answers : row.answers[s].kind # "header"}}

(* present_answer_rows: the questions of the answered version.             *)
AnswerRows(row) ==
    LET columns == AnswerColumns(versions[row.version]) IN
    [i \in DOMAIN columns |-> [slug     |-> columns[i].slug,
                               label    |-> columns[i].label,
                               display  |-> Display(row.answers, columns[i].slug),
                               answered |-> columns[i].slug \in DOMAIN row.answers]]

(* The order in which the columns of a page are met, each a version and a  *)
(* place in its schema: the active version, as the form row read first has *)
(* it, leads, the rest newest first.                                       *)
MetBefore(p, q, active) ==
    \/ p[1] = q[1] /\ p[2] < q[2]
    \/ p[1] # q[1] /\ (p[1] = active \/ (q[1] # active /\ p[1] > q[1]))

(* Every slug gets the column it was first met in.                         *)
UnionOfColumns(shown, active) ==
    LET met == UNION {{n} \X DOMAIN AnswerColumns(versions[n]) : n \in shown}
        column(p) == AnswerColumns(versions[p[1]])[p[2]]
        seen(p) == \E q \in met : MetBefore(q, p, active) /\ column(q).slug = column(p).slug
    IN  [p \in {q \in met : ~seen(q)} |-> column(p)]

(* Mutant of ResponseTable: "asked" is taken from the stored keys.         *)
ResponseTableByKeys(shown, active, rows) ==
    LET columns == UnionOfColumns(shown, active) IN
    [columns |-> columns,
     cells   |-> [r \in DOMAIN rows |-> [i \in DOMAIN columns |->
                    [display   |-> Display(rows[r].answers, columns[i].slug),
                     in_schema |-> columns[i].slug \in DOMAIN rows[r].answers]]]]

(* present_response_table.  A row of a version that is not shown would     *)
(* count its own keys as asked.                                            *)
ResponseTable(shown, active, rows) ==
    LET columns == UnionOfColumns(shown, active)
        defined(row) == IF row.version \in shown THEN ColumnSlugs(versions[row.version])
                        ELSE DOMAIN row.answers
    IN
    [columns |-> columns,
     cells   |-> [r \in DOMAIN rows |-> [i \in DOMAIN columns |->
                    [display   |-> Display(rows[r].answers, columns[i].slug),
                     in_schema |-> columns[i].slug \in defined(rows[r])]]]]
-----------------------------------------------------------------------------
(* responses_view reads the form's row and, for a search, the slugs it may *)
(* look at (scoped), then the rows (queried), and last the versions.       *)
OpenPage ==
    /\ page = NoPage
    /\ page' = [step |-> "scoped", active |-> Active, upto |-> Len(submission)]
    /\ UNCHANGED <<draft, versions, board, edits, submission>>

(* list_submissions: `pinned' is the version the picker chose, 0 for none; *)
(* `slugs' the questions whose answers are searched for the needle.        *)
Found(pinned, needle, slugs) ==
    {i \in Stored : /\ pinned # 0 => submission[i].version = pinned
                    /\ needle # None => \E slug \in slugs : Says(submission[i], slug, needle)}

(* A field the form never published is refused before any row is read.  A  *)
(* row is known by its place in the order of arrival, latest first.        *)
QueryRows ==
    /\ page # NoPage /\ page.step = "scoped"
    /\ \E pinned \in 0..MaxVersion, needle \in Texts \cup {None} :
       \E slugs \in {AnswerSlugs(page.active)} \cup {{field} : field \in AnswerSlugs(page.active)} :
          page' = [step |-> "queried", active |-> page.active, pinned |-> pinned, needle |-> needle,
                   rows |-> [i \in Found(pinned, needle, slugs) |-> submission[i]]]
    /\ UNCHANGED <<draft, versions, board, edits, submission>>

(* version_history: each version against the one before; the first adds    *)
(* all its questions.                                                      *)
Predecessor(n) == IF n = 1 THEN <<>> ELSE versions[n - 1]

VersionHistory ==
    [n \in DOMAIN versions |->
        [is_active        |-> n = Active,
         submission_count |-> Cardinality({i \in Stored : submission[i].version = n}),
         change           |-> SchemaDiff(Predecessor(n), versions[n])]]

(* Mutant of ShownVersions: the versions as of the form's row.             *)
ShownFromLoad == 1..page.active

(* The versions the table is made from: the pinned one, if there is such a *)
(* version, or all that are published when the page is rendered.           *)
ShownVersions ==
    LET pinned == {page.pinned} \cap DOMAIN versions IN
    IF pinned # {} THEN pinned ELSE DOMAIN versions

Table == ResponseTable(ShownVersions, page.active, page.rows)

RenderPage ==
    /\ page # NoPage /\ page.step = "queried"
    /\ page' = NoPage
    /\ UNCHANGED <<draft, versions, board, edits, submission>>

Next ==
    \/ Author /\ UNCHANGED <<submission, page>>
    \/ \E n \in DOMAIN versions : Submit(n)
    \/ \E i \in Stored : Erase(i) \/ DeleteSubmission(i)
    \/ OpenPage \/ QueryRows \/ RenderPage

Spec == Init /\ [][Next]_vars
-----------------------------------------------------------------------------
(***************************************************************************)
(* Properties                                                              *)
(***************************************************************************)

(* The type invariant; an erased row keeps no answer.                      *)
ResponsesTypeOK ==
    /\ draft = None \/ \A i \in DOMAIN draft : draft[i] \in Field
    /\ \A n \in DOMAIN versions : ValidSchema(versions[n])
    /\ board # Closed => \A i \in DOMAIN board.fields : board.fields[i] \in Field
    /\ \A i \in Stored : /\ submission[i].version \in DOMAIN versions
                         /\ submission[i].erased => submission[i].answers = Empty

Rendering == page # NoPage /\ page.step = "queried"

(* Whatever is published while the page is built, every answer a           *)
(* respondent gave has a column to land in and is not blank there: no      *)
(* answer to a question since dropped, renamed or moved disappears.        *)
NoAnswerHidden ==
    Rendering =>
       LET table == Table IN
       \A r \in DOMAIN page.rows : \A answer \in PresentAnswers(page.rows[r]) :
          \E i \in DOMAIN table.columns : /\ table.columns[i].slug = answer[1]
                                          /\ table.cells[r][i].display # None

(* A cell says whether its respondent was asked; the table, the page of    *)
(* one submission and its API rendering give each question one value.      *)
CellsTellTheTruth ==
    Rendering =>
       LET table == Table IN
       \A r \in DOMAIN page.rows :
          LET row == page.rows[r]
              single == AnswerRows(row)
          IN
          /\ {<<single[j].slug, row.answers[single[j].slug].value>> :
                 j \in {k \in DOMAIN single : single[k].answered}} = PresentAnswers(row)
          /\ \A i \in DOMAIN table.columns :
                LET slug == table.columns[i].slug
                    cell == table.cells[r][i]
                    asked == {j \in DOMAIN single : single[j].slug = slug}
                IN
                /\ cell.in_schema <=> asked # {}
                /\ \A j \in asked : single[j].display = cell.display

(* presenters.py:336-339 of the cells: "Not asked" and "asked and left     *)
(* blank" both render blank.  But the page shows what is stored under the  *)
(* slug, and a header's caption is stored, so a respondent who saw a       *)
(* header of this slug has a text under a question never asked.            *)
NotAskedIsBlank ==
    Rendering =>
       LET table == Table IN
       \A r \in DOMAIN page.rows, i \in DOMAIN table.columns :
          ~table.cells[r][i].in_schema => table.cells[r][i].display = None

(* admin.py:223-229 of the table: the current schema leads, and a field    *)
(* REMOVED later cannot be shown at all unless its version is pinned.  But *)
(* the columns are the union over all versions.                            *)
RemovedQuestionHidden ==
    Rendering /\ page.pinned = 0 /\ page.active = Active /\ Active # 0 =>
       \A i \in DOMAIN Table.columns :
          Table.columns[i].slug \in ColumnSlugs(versions[Active])

(* A search over all questions finds every submission that was there when  *)
(* the reviewer asked and still has the value under a plain slug, of       *)
(* whatever version, and the table has a column for the answer that made   *)
(* it find a row.  (An option is found by its value; the cell shows its    *)
(* label.)                                                                 *)
Findable(i, answer) == i \in Found(0, answer[2], AnswerSlugs(page.active))

SearchIsComplete ==
    /\ page # NoPage /\ page.step = "scoped" =>
       \A i \in Stored \cap 1..page.upto : \A answer \in PresentAnswers(submission[i]) :
          answer[1] \in Plain => Findable(i, answer)
    /\ Rendering /\ page.needle # None /\ page.pinned = 0 =>
       LET table == Table IN
       \A r \in DOMAIN page.rows : \E i \in DOMAIN table.columns :
          Says(page.rows[r], table.columns[i].slug, page.needle)

(* services.py:345-346 of the search: unscoped, it ORs across every slug   *)
(* the form has published.  But a slug is spliced into a lookup path, and  *)
(* the answers under one that is not plain are never found.                *)
SearchFindsAll ==
    \A i \in Stored : \A answer \in PresentAnswers(submission[i]) :
       i \in Found(0, answer[2], AnswerSlugs(Active))

(* The history an author reads is enough to retrace the form: the labels   *)
(* of a version follow from those before it and the reported change; and   *)
(* of a version said to change nothing, only the configs of its questions  *)
(* can have changed: if they have not, respondents are asked the same and  *)
(* exactly the same answers are accepted.                                  *)
Labels(schema) == {<<s, LabelOf(QuestionIndex(schema)[s])>> : s \in QuestionSlugs(schema)}

Retraced(labels, change) ==
    (labels \ (change.removed \cup {<<r[1], r[3]>> : r \in change.renamed}))
       \cup change.added \cup {<<r[1], r[2]>> : r \in change.renamed}

AskedBy(schema) ==
    {PublicFields(schema)[i] : i \in {j \in DOMAIN schema : ~IsHeader(schema[j])}}

AcceptedBy(schema) ==
    {answers \in UNION {[asked -> Answer] : asked \in SUBSET SlugsOf(schema)} :
        AnswersAccepted(schema, answers)}

Outline(schema) == {[question EXCEPT !.config = None] : question \in AskedBy(schema)}

ConfigsOf(schema) == {<<s, QuestionIndex(schema)[s].config>> : s \in QuestionSlugs(schema)}

HistoryTells ==
    \A n \in DOMAIN versions :
       LET old == Predecessor(n)
           new == versions[n]
           change == VersionHistory[n].change
       IN
       /\ Retraced(Labels(old), change) = Labels(new)
       /\ NothingChanged(change) =>
             /\ Outline(old) = Outline(new)
             /\ ConfigsOf(old) = ConfigsOf(new) =>
                   AskedBy(old) = AskedBy(new) /\ AcceptedBy(old) = AcceptedBy(new)

(* schema.py:240 of the reported change: what changed between two          *)
(* published schemas; with nothing in it, is_empty.  But options and       *)
(* bounds are not compared: a version said to change nothing may refuse    *)
(* answers that the one before it accepted.                                *)
NothingChangedMeansSame ==
    \A n \in DOMAIN versions :
       NothingChanged(VersionHistory[n].change) =>
          AcceptedBy(Predecessor(n)) = AcceptedBy(versions[n])

(* What the repository says of the reviewer's screens in these four places *)
(* of the code.  This asks for less than the texts, that a state makes at  *)
(* least one of them true; a state that violates it is a counterexample to *)
(* each of the four.                                                       *)
AReviewTextIsTrue ==
    NotAskedIsBlank \/ RemovedQuestionHidden \/ SearchFindsAll \/ NothingChangedMeansSame
=============================================================================
