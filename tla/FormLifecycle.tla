---------------------------- MODULE FormLifecycle ----------------------------
(***************************************************************************)
(* The authoring side of stapel-forms: services.py from create_form to     *)
(* delete_form, as the REST views and the admin's publish view call it.    *)
(*                                                                         *)
(* Every request first reads the form's row (get_form) into an instance in *)
(* memory and decides on that instance; what it writes later is one UPDATE *)
(* of the columns it names in update_fields, or one transaction.  Between  *)
(* the read and the write any other request may commit, so a request is a  *)
(* record `req[w]' that carries the row as the request saw it.             *)
(*                                                                         *)
(* The database runs each statement atomically (autocommit; Django's       *)
(* ATOMIC_REQUESTS is not set by the library) and honours SELECT ... FOR   *)
(* UPDATE: a writer of a locked row waits, a plain reader does not.        *)
(* What a transaction inserts is seen when it commits.                     *)
(***************************************************************************)
EXTENDS Naturals, FiniteSets

CONSTANTS
    Forms,          \* primary keys a form may get
    Workspaces,
    WorkspaceOf,    \* Form.workspace_id, fixed at creation
    Workers,        \* requests that can be in progress at the same time
    Schemas,        \* normalized draft schemas, told apart by content
    Publishable,    \* those that schema.validate_schema accepts
    Settings,       \* settings blobs that _validated_settings returns
    Requested,      \* the operations that requests ask for, a subset of Operations
    None,           \* SQL NULL, an absent argument, a free row lock
    OpenCap,        \* MAX_OPEN_FORMS_PER_WORKSPACE, 0 switches the cap off
    MaxVersion,     \* bound: versions one form may get
    MaxHandles,     \* bound: public handles one form may get
    MaxClosed       \* bound: form.closed events after which no more closing starts

ASSUME FormAssumption ==
    /\ WorkspaceOf \in [Forms -> Workspaces]
    /\ Publishable \subseteq Schemas
    /\ None \notin Forms \cup Workers \cup Schemas \cup Settings

ASSUME BoundAssumption ==
    /\ OpenCap \in Nat /\ MaxVersion \in Nat /\ MaxHandles \in Nat /\ MaxClosed \in Nat

ASSUME FiniteAssumption == IsFiniteSet(Forms) /\ IsFiniteSet(Workers)

VARIABLES
    form,       \* forms_form: the row of each form
    version,    \* forms_form_version: the set of published rows
    lock,       \* who holds the row lock of each form (select_for_update)
    req,        \* the request each worker is serving
    published,  \* outbox: form.published, one <<form, version>> per event
    closed      \* outbox: how many form.closed were emitted for each form

vars == <<form, version, lock, req, published, closed>>
-----------------------------------------------------------------------------
States == {"draft", "open", "closed"}

(* `active' is the ordinal of the active version, 0 for a NULL foreign     *)
(* key.  `handle' counts public_ids: each rotation mints a token never     *)
(* issued before.  `life' is "live" once created, "deleted" once           *)
(* deleted_at is set.                                                      *)
Row == [state    : States,
        active   : Nat,
        draft    : Schemas \cup {None},
        settings : Settings \cup {None},
        handle   : Nat,
        life     : {"absent", "live", "deleted"}]

Blank == [state |-> "draft", active |-> 0, draft |-> None, settings |-> None,
          handle |-> 0, life |-> "absent"]

(* The parameter of each operation: the body of its request.               *)
Argument(op) ==
    CASE op = "update"       -> Settings \cup {None}  \* None: a title-only PATCH
      [] op = "draft"        -> Schemas
      [] op = "publish_view" -> Schemas
      [] op = "state"        -> States
      [] op \in {"publish", "rotate", "delete"} -> {None}

Operations == {"update", "draft", "publish_view", "publish", "state", "rotate", "delete"}

ASSUME RequestedAssumption == Requested \subseteq Operations

(* `step' is how far the request is: it has read the row, it has counted   *)
(* the workspace's open forms, it holds the row lock.  `head' is the head  *)
(* version it read under that lock.                                        *)
Request == [op : Operations, form : Forms, arg : UNION {Argument(op) : op \in Operations},
            step : {"loaded", "counted", "locked"}, seen : Row, head : Nat]

Idle == [op |-> "idle"]

Version == [form : Forms, version : Nat, schema : Schemas]

TypeOK ==
    /\ form \in [Forms -> Row]
    /\ version \subseteq Version
    /\ lock \in [Forms -> Workers \cup {None}]
    /\ req \in [Workers -> Request \cup {Idle}]
    /\ \A w \in Workers : req[w] # Idle => req[w].arg \in Argument(req[w].op)
    /\ published \subseteq Forms \X Nat
    /\ closed \in [Forms -> Nat]
-----------------------------------------------------------------------------
Ordinals(f) == {v.version : v \in {u \in version : u.form = f}}

(* order_by("-version").first() or 0                                       *)
HeadVersion(f) ==
    IF Ordinals(f) = {} THEN 0
    ELSE CHOOSE n \in Ordinals(f) : \A m \in Ordinals(f) : m <= n

Live(f) == form[f].life = "live"

(* What the cap query counts.                                              *)
OpenForms(ws) == {f \in Forms : WorkspaceOf[f] = ws /\ form[f].state = "open" /\ Live(f)}

(* The columns of the row that the rest of an operation reads from its     *)
(* instance; the others are blanked, so that two instances that differ     *)
(* only in columns nobody looks at are one state of the model.             *)
Instance(op, row) ==
    CASE op = "update"  -> [Blank EXCEPT !.settings = row.settings]
      [] op = "publish" -> [Blank EXCEPT !.draft = row.draft]
      [] op = "state"   -> [Blank EXCEPT !.state = row.state, !.active = row.active]
      [] op = "delete"  -> [Blank EXCEPT !.state = row.state]
      [] op \in {"draft", "publish_view", "rotate"} -> Blank

Init ==
    /\ form = [f \in Forms |-> Blank]
    /\ version = {}
    /\ lock = [f \in Forms |-> None]
    /\ req = [w \in Workers |-> Idle]
    /\ published = {}
    /\ closed = [f \in Forms |-> 0]

(* create_form: one INSERT.  A draft schema may come with it.              *)
CreateForm(f) ==
    /\ form[f].life = "absent"
    /\ \E d \in Schemas \cup {None}, s \in Settings :
          form' = [form EXCEPT ![f] = [Blank EXCEPT !.life = "live", !.handle = 1,
                                                    !.draft = d, !.settings = s]]
    /\ UNCHANGED <<version, lock, req, published, closed>>

(* The bounds of the model, on the requests it starts.                     *)
Bounded(op, f) ==
    /\ op = "rotate" => form[f].handle < MaxHandles
    /\ op \in {"state", "delete"} => closed[f] < MaxClosed
    /\ op \in {"publish", "publish_view"} => HeadVersion(f) < MaxVersion

(* A request arrives and get_form reads the row: a soft-deleted form is a  *)
(* 404, except to the admin site, which does not filter on deleted_at.     *)
Load(w, f, op) ==
    /\ req[w] = Idle
    /\ form[f].life = "live" \/ (op = "publish_view" /\ form[f].life = "deleted")
    /\ Bounded(op, f)
    /\ \E a \in Argument(op) :
          req' = [req EXCEPT ![w] = [op |-> op, form |-> f, arg |-> a, step |-> "loaded",
                                     seen |-> Instance(op, form[f]), head |-> 0]]
    /\ UNCHANGED <<form, version, lock, published, closed>>

Serving(w, op) == req[w].op = op

(* An UPDATE of a row another transaction has locked waits.                *)
Unlocked(f) == lock[f] = None

Done(w) == req' = [req EXCEPT ![w] = Idle]
-----------------------------------------------------------------------------
(* update_form writes title AND settings, the settings of the instance     *)
(* when the body brings none.                                              *)
UpdateForm(w) ==
    LET r == req[w] IN
    /\ Serving(w, "update")
    /\ Unlocked(r.form)
    /\ form' = [form EXCEPT ![r.form].settings =
                   IF r.arg = None THEN r.seen.settings ELSE r.arg]
    /\ Done(w)
    /\ UNCHANGED <<version, lock, published, closed>>

SaveDraft(w) ==
    LET r == req[w] IN
    /\ Serving(w, "draft")
    /\ Unlocked(r.form)
    /\ form' = [form EXCEPT ![r.form].draft = r.arg]
    /\ Done(w)
    /\ UNCHANGED <<version, lock, published, closed>>

(* FormAdmin.publish_view: save_draft on its instance, then publish of the *)
(* same instance, whose draft is therefore the one just saved.             *)
PublishViewSave(w) ==
    LET r == req[w] IN
    /\ Serving(w, "publish_view")
    /\ Unlocked(r.form)
    /\ form' = [form EXCEPT ![r.form].draft = r.arg]
    /\ req' = [req EXCEPT ![w] = [op |-> "publish", form |-> r.form, arg |-> None,
                                  step |-> "loaded",
                                  seen |-> [r.seen EXCEPT !.draft = r.arg], head |-> 0]]
    /\ UNCHANGED <<version, lock, published, closed>>

RotateLink(w) ==
    LET r == req[w] IN
    /\ Serving(w, "rotate")
    /\ Unlocked(r.form)
    /\ form' = [form EXCEPT ![r.form].handle = @ + 1]
    /\ Done(w)
    /\ UNCHANGED <<version, lock, published, closed>>

(* Mutant of DeleteForm: deletion as a state of its own, not deleted_at.   *)
DeleteByState(w) ==
    LET r == req[w] IN
    /\ Serving(w, "delete")
    /\ Unlocked(r.form)
    /\ form' = [form EXCEPT ![r.form].state = "deleted"]
    /\ closed' = IF r.seen.state = "open" THEN [closed EXCEPT ![r.form] = @ + 1] ELSE closed
    /\ Done(w)
    /\ UNCHANGED <<version, lock, published>>

(* Mutant of DeleteForm: form.closed whatever the state was.               *)
DeleteAlwaysAnnounced(w) ==
    LET r == req[w] IN
    /\ Serving(w, "delete")
    /\ Unlocked(r.form)
    /\ form' = [form EXCEPT ![r.form].life = "deleted"]
    /\ closed' = [closed EXCEPT ![r.form] = @ + 1]
    /\ Done(w)
    /\ UNCHANGED <<version, lock, published>>

(* delete_form: was_open is read from the instance, inside the             *)
(* transaction but not under a lock.                                       *)
DeleteForm(w) ==
    LET r == req[w] IN
    /\ Serving(w, "delete")
    /\ Unlocked(r.form)
    /\ form' = [form EXCEPT ![r.form].life = "deleted"]
    /\ closed' = IF r.seen.state = "open" THEN [closed EXCEPT ![r.form] = @ + 1] ELSE closed
    /\ Done(w)
    /\ UNCHANGED <<version, lock, published>>
-----------------------------------------------------------------------------
(* set_state.  Opening needs a published version and, when the instance    *)
(* was not open, room under the cap; both are read before the write.       *)

(* Mutant of HasVersion: the check is dropped.                             *)
NoVersionNeeded(r) == r.op = "state"

HasVersion(r) == r.seen.active # 0

NeedsCount(r) == r.arg = "open" /\ OpenCap > 0 /\ r.seen.state # "open"

(* Mutant of CountOpenForms: an off-by-one in the comparison.              *)
CountOpenFormsInclusive(w) ==
    LET r == req[w] IN
    /\ Serving(w, "state") /\ r.step = "loaded"
    /\ HasVersion(r) /\ NeedsCount(r)
    /\ Cardinality(OpenForms(WorkspaceOf[r.form])) <= OpenCap
    /\ req' = [req EXCEPT ![w].step = "counted"]
    /\ UNCHANGED <<form, version, lock, published, closed>>

CountOpenForms(w) ==
    LET r == req[w] IN
    /\ Serving(w, "state") /\ r.step = "loaded"
    /\ HasVersion(r) /\ NeedsCount(r)
    /\ Cardinality(OpenForms(WorkspaceOf[r.form])) < OpenCap
    /\ req' = [req EXCEPT ![w].step = "counted"]
    /\ UNCHANGED <<form, version, lock, published, closed>>

(* Mutant of SetState: save() of the whole instance, without update_fields.*)
SetStateWholeRow(w) ==
    LET r == req[w] IN
    /\ Serving(w, "state")
    /\ r.arg = "open" => HasVersion(r)
    /\ NeedsCount(r) => r.step = "counted"
    /\ Unlocked(r.form)
    /\ form' = [form EXCEPT ![r.form].state = r.arg, ![r.form].active = r.seen.active]
    /\ closed' = IF r.arg = "closed" /\ r.seen.state = "open"
                 THEN [closed EXCEPT ![r.form] = @ + 1] ELSE closed
    /\ Done(w)
    /\ UNCHANGED <<version, lock, published>>

(* Mutant of SetState: form.closed without looking at was_open.            *)
SetStateAlwaysAnnounced(w) ==
    LET r == req[w] IN
    /\ Serving(w, "state")
    /\ r.arg = "open" => HasVersion(r)
    /\ NeedsCount(r) => r.step = "counted"
    /\ Unlocked(r.form)
    /\ form' = [form EXCEPT ![r.form].state = r.arg]
    /\ closed' = IF r.arg = "closed" THEN [closed EXCEPT ![r.form] = @ + 1] ELSE closed
    /\ Done(w)
    /\ UNCHANGED <<version, lock, published>>

SetState(w) ==
    LET r == req[w] IN
    /\ Serving(w, "state")
    /\ r.arg = "open" => HasVersion(r)
    /\ NeedsCount(r) => r.step = "counted"
    /\ Unlocked(r.form)
    /\ form' = [form EXCEPT ![r.form].state = r.arg]
    /\ closed' = IF r.arg = "closed" /\ r.seen.state = "open"
                 THEN [closed EXCEPT ![r.form] = @ + 1] ELSE closed
    /\ Done(w)
    /\ UNCHANGED <<version, lock, published>>
-----------------------------------------------------------------------------
(* publish: the draft is taken from the instance and validated first; the  *)
(* transaction then locks the row, reads the head and commits.             *)
CanPublish(r) == r.seen.draft \in Publishable

(* Mutant of LockRow: the next ordinal is counted from the active version. *)
LockRowByActive(w) ==
    LET r == req[w] IN
    /\ Serving(w, "publish") /\ r.step = "loaded"
    /\ CanPublish(r)
    /\ Unlocked(r.form)
    /\ lock' = [lock EXCEPT ![r.form] = w]
    /\ req' = [req EXCEPT ![w].step = "locked", ![w].head = form[r.form].active]
    /\ UNCHANGED <<form, version, published, closed>>

LockRow(w) ==
    LET r == req[w] IN
    /\ Serving(w, "publish") /\ r.step = "loaded"
    /\ CanPublish(r)
    /\ Unlocked(r.form)
    /\ lock' = [lock EXCEPT ![r.form] = w]
    /\ req' = [req EXCEPT ![w].step = "locked", ![w].head = HeadVersion(r.form)]
    /\ UNCHANGED <<form, version, published, closed>>

(* What the mutants of CommitPublish get right.                            *)
CommitAs(w, ordinal, active, announced) ==
    LET r == req[w] IN
    /\ Serving(w, "publish") /\ r.step = "locked"
    /\ ordinal \notin Ordinals(r.form)
    /\ version' = version \cup {[form |-> r.form, version |-> ordinal, schema |-> r.seen.draft]}
    /\ form' = [form EXCEPT ![r.form].active = active, ![r.form].draft = None]
    /\ published' = published \cup {<<r.form, announced>>}
    /\ lock' = [lock EXCEPT ![r.form] = None]
    /\ Done(w)
    /\ UNCHANGED closed

(* Mutant of CommitPublish: the ordinal is incremented twice.              *)
CommitSkipping(w) == CommitAs(w, req[w].head + 2, req[w].head + 2, req[w].head + 2)

(* Mutant of CommitPublish: a published form keeps its active version.     *)
CommitNotRepointing(w) ==
    LET first == req[w].head = 0 IN
    CommitAs(w, req[w].head + 1, IF first THEN 1 ELSE form[req[w].form].active, req[w].head + 1)

(* Mutant of CommitPublish: the draft is read again at the commit.         *)
CommitFreezingRow(w) ==
    LET r == req[w] IN
    /\ Serving(w, "publish") /\ r.step = "locked"
    /\ form[r.form].draft # None
    /\ version' = version \cup {[form |-> r.form, version |-> r.head + 1,
                                 schema |-> form[r.form].draft]}
    /\ form' = [form EXCEPT ![r.form].active = r.head + 1, ![r.form].draft = None]
    /\ published' = published \cup {<<r.form, r.head + 1>>}
    /\ lock' = [lock EXCEPT ![r.form] = None]
    /\ Done(w)
    /\ UNCHANGED closed

CommitPublish(w) ==
    LET r == req[w]
        n == r.head + 1
    IN
    /\ Serving(w, "publish") /\ r.step = "locked"
    /\ n \notin Ordinals(r.form)                  \* forms_version_unique
    /\ version' = version \cup {[form |-> r.form, version |-> n, schema |-> r.seen.draft]}
    /\ form' = [form EXCEPT ![r.form].active = n, ![r.form].draft = None]
    /\ published' = published \cup {<<r.form, n>>}
    /\ lock' = [lock EXCEPT ![r.form] = None]
    /\ Done(w)
    /\ UNCHANGED closed
-----------------------------------------------------------------------------
(* The refusals: nothing is written.  400 no draft or an invalid schema,   *)
(* 400 not published, 400 too many open forms.                             *)
Refuse(w) ==
    LET r == req[w] IN
    /\ r # Idle /\ r.step = "loaded"
    /\ \/ Serving(w, "publish") /\ ~CanPublish(r)
       \/ /\ Serving(w, "state") /\ r.arg = "open"
          /\ \/ ~HasVersion(r)
             \/ /\ NeedsCount(r)
                /\ Cardinality(OpenForms(WorkspaceOf[r.form])) >= OpenCap
    /\ Done(w)
    /\ UNCHANGED <<form, version, lock, published, closed>>

(* The worker dies, times out or raises at any point: an open transaction  *)
(* is rolled back and its row lock released.                               *)
Crash(w) ==
    /\ req[w] # Idle
    /\ lock' = [f \in Forms |-> IF lock[f] = w THEN None ELSE lock[f]]
    /\ Done(w)
    /\ UNCHANGED <<form, version, published, closed>>

Step(w) ==
    \/ UpdateForm(w)
    \/ SaveDraft(w)
    \/ PublishViewSave(w)
    \/ RotateLink(w)
    \/ DeleteForm(w)
    \/ CountOpenForms(w)
    \/ SetState(w)
    \/ LockRow(w)
    \/ CommitPublish(w)
    \/ Refuse(w)
    \/ Crash(w)

Next ==
    \/ \E f \in Forms : CreateForm(f)
    \/ \E w \in Workers, f \in Forms, op \in Requested : Load(w, f, op)
    \/ \E w \in Workers : Step(w)

Spec == Init /\ [][Next]_vars
-----------------------------------------------------------------------------
(***************************************************************************)
(* Properties                                                              *)
(***************************************************************************)

(* A row read before a transaction committed is never used to go back      *)
(* behind it: the active version of a form is its newest, after any        *)
(* interleaving of publishes with the other requests' UPDATEs.             *)
ActiveIsHead == \A f \in Forms : form[f].active = HeadVersion(f)

(* "Monotonic per form, starting at 1": the ordinals of a form have no     *)
(* gap, and no two rows share one.                                         *)
OrdinalsDense ==
    \A f \in Forms :
       /\ Ordinals(f) = 1..HeadVersion(f)
       /\ \A u, v \in version : u.form = f /\ v.form = f /\ u.version = v.version => u = v

(* The row lock makes read-head-then-insert safe: while a publish holds    *)
(* it, the head it read is the head, so its INSERT cannot meet the unique  *)
(* constraint on (form, version).                                          *)
HeadReserved ==
    \A w \in Workers : req[w] # Idle /\ req[w].step = "locked" =>
       /\ lock[req[w].form] = w
       /\ req[w].head = HeadVersion(req[w].form)

(* The check in set_state reads an instance that may be stale when the     *)
(* state is written; an open form has a version to show all the same.      *)
OpenHasVersion == \A f \in Forms : form[f].state = "open" => form[f].active # 0

(* The requests that will open their form when they write: they have       *)
(* counted, or they saw the form open and skip the count.                  *)
Opening(w) ==
    /\ req[w] # Idle /\ Serving(w, "state") /\ req[w].arg = "open"
    /\ req[w].step = "counted" \/ req[w].seen.state = "open"

(* The cap is counted first and the state written later, in no             *)
(* transaction: MAX_OPEN_FORMS_PER_WORKSPACE is exceeded by at most one    *)
(* form for every further request in progress.                             *)
OpenCapOvershoot ==
    OpenCap > 0 => \A ws \in Workspaces :
       Cardinality(OpenForms(ws)) + 1 <= OpenCap + Cardinality(Workers)

(* A subscriber that hears form.closed of a form has been able to hear     *)
(* form.published of it before: was_open comes from a stale instance, but  *)
(* only a published form was ever open.                                    *)
AnnouncedBeforeClosed == \A f \in Forms : closed[f] > 0 => <<f, 1>> \in published

(* A step ends the intake of a form when strangers could answer it before  *)
(* and cannot after: it was closed, taken back to draft, or deleted.       *)
TakesAnswers(row) == row.state = "open" /\ row.life = "live"

EndsIntake(f) == TakesAnswers(form[f]) /\ ~TakesAnswers(form'[f])

(* One request at a time, form.closed is emitted by exactly the requests   *)
(* that close or delete a form open until then.  (With two it is not:      *)
(* was_open is stale in a second request that closes the form, which emits *)
(* the event again.  And set_state takes a form back to draft as well,     *)
(* which ends its intake and is not announced.)                            *)
AnnouncesClosing ==
    \A f \in Forms :
       (closed'[f] # closed[f]) <=> (EndsIntake(f) /\ form'[f].state # "draft")

ClosingIsAnnounced == [][AnnouncesClosing]_vars

(* The published rows as the abstract log: every behaviour of this         *)
(* specification is one of PublicationLog.                                 *)
SchemaOf(f, n) == (CHOOSE v \in version : v.form = f /\ v.version = n).schema

(* The ordinals form.published was emitted for. *)
Announced(f) == {e[2] : e \in {x \in published : x[1] = f}}

Log == INSTANCE PublicationLog WITH
          log       <- [f \in Forms |-> [n \in 1..HeadVersion(f) |-> SchemaOf(f, n)]],
          active    <- [f \in Forms |-> form[f].active],
          announced <- [f \in Forms |-> Announced(f)]

PublishesToLog == Log!Spec
=============================================================================
