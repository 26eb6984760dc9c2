# A formal model of stapel-forms

TLA+ specifications of the behaviour of stapel-forms that tests reach badly: what
happens when requests, event handlers and outbox deliveries interleave, repeat,
arrive late or die half way. TLC checks the modules on small instances; TLAPS proves
what matters most about publishing, intake, notifications, accounts, retention,
paging, the presentation of responses, the builder, the admin site and the gate for
every value of the constants. `PROJECT.json` lists the runs, the properties, the
mutated definitions that show each property can fail, the theorems, and for every
definition the source lines it stands for.

## 1. Inventory of the system

stapel-forms is a Django library. Nothing in it runs by itself: REST views, the
Django admin, a scheduled task and an outbox relay call into it, in as many
processes as the host runs. What they share is the database and the cache.

| Component | State it keeps | Operations | Talks to |
|---|---|---|---|
| Form lifecycle (`services.py` 73-222) | rows of `Form`, `FormVersion` | create, update, draft, publish, state, rotate link, delete | outbox: `form.published`, `form.closed` |
| Public intake (`services.py` 89-107, 253-309) | rows of `Submission` | public GET, submit, delete submission | reads the lifecycle's rows; outbox: `form.submission.received` |
| Notifications (`notifications.py`) | two cache keys per form | react to `form.submission.received`, resend | notification service |
| Accounts and GDPR (`actions.py`, `gdpr.py`) | the columns naming a user | react to `user.deleted`, `user.merged`; export | accounts service, user projection |
| Retention (`services.py` 447-497, `tasks.py`) | none of its own | purge expired responses, purge the trash | rows of all three tables |
| Review and export (`services.py` 334-394, `export.py`) | none; a cursor in the client | keyset pages, CSV pages | rows of `Submission` |
| Schema rules (`schema.py`) | none (pure) | normalize, validate schema and answers, diff, columns | called by publish, submit, presenters |
| Presentation (`presenters.py`) | none (pure) | public form, response table, answer rows | schema rules |
| Authorization, gate (`authz.py`, `views.py`) | none; throttle counters of the host | capabilities, throttle, size gate, captcha | every view |
| Django admin (`admin.py`) | none | change form, publish view, responses page | saves whole rows; calls the services |
| Form builder (`static/…/forms-builder.js`) | the list of fields being edited | add, reorder, remove, configure, submit | posts to `publish_view` |
| Configuration, checks, code generation, routing | none at run time | – | – |

What is hard about it:

* **Requests decide on rows they read earlier.** `get_form` loads an instance;
  the service decides on the instance and writes named columns
  (`save(update_fields=…)`). Only `publish` takes a row lock, and even it reads
  the draft before it does.
* **Check, then act, without a transaction**: the cap on open forms, the cap on
  submissions, the version check of a submit.
* **At-least-once delivery**: handlers run twice, late, and after the rows they
  talk about are gone.
* **A cache that is not a transaction**: the cooldown gate is one atomic call,
  the held count takes two or three.
* **Foreign events out of order**: deletions, merges and projections of accounts.
* **Whole-row saves**: the Django admin's change page writes every column of the
  row as its POST loaded it, beside services that write the columns they name.
* **Answers outlive their schema**: one table shows rows of many versions, whose
  questions were renamed, retyped, dropped, re-added or turned into headers.
* **Asking, loading and acting are three steps**: the gate's answer may be out of
  date when the row is loaded, and the row when the handler works on it.

The list of hazards with the line where each bites, and the properties that
watch it, is `"hazards"` in `PROJECT.json`.

## 2. Modules

| Module | Stands for |
|---|---|
| `FormLifecycle` | authoring requests: `services.py` `create_form` … `delete_form`, `FormAdmin.publish_view` |
| `PublicationLog` | abstract: an append-only log per form; what publishing promises |
| `Intake` | EXTENDS `FormLifecycle`: visitors next to the authors |
| `Notify` | `handle_submission_received` and the cooldown of one form |
| `Accounts` | `handle_user_deleted`, `handle_user_merged` and the services around them |
| `Retention` | `purge_expired_submissions`: both purges, one action per statement |
| `Paging` | a reviewer's walk over `list_submissions`, `csv_rows` or `responses_view` |
| `SchemaRules` | `schema.py`: operators over stored schemas and answers |
| `Builder` | EXTENDS `SchemaRules`: how the schema of a form is authored, in the builder and by REST |
| `Responses` | EXTENDS `Builder`: the answers to the form's versions and the screens that show them |
| `AdminSite` | EXTENDS `FormLifecycle`: the change page of the Django admin next to the requests |
| `Gate` | `authz.py` and the gate of every admin handler |
| `MC…` | constants and symmetry for TLC; `MCLifecycle` the scenes of its run, `MCRetentionPromise` a history of broken promises |
| `FormLifecycleProofs`, `BesideLifecycleProofs` (`Intake` and `AdminSite`), `NotifyProofs`, `AccountsProofs`, `RetentionProofs`, `PagingProofs`, `ResponsesProofs` (with `Builder` and `SchemaRules`), `GateProofs` | theorems and their proofs |

### FormLifecycle

`form[f]` is the row of a form: its state, the ordinal of its active version (0
for NULL), the draft, the settings, a count of the public handles minted so far
(each is a fresh random token), and whether it exists, lives or is soft-deleted.
`version` is the table of versions, `lock` the row locks, `published` and
`closed` the events in the outbox, which are written by the same transaction as
the change they announce.

A request is a record `req[w]` of one of the `Workers`, holding the columns of
the instance it loaded that it will look at again. `Load` is the view's
`_scoped_form`/`get_form`; then the operation runs in the steps the code has:

| Code | Actions |
|---|---|
| `create_form` | `CreateForm` |
| `update_form`, `save_draft`, `rotate_link`, `delete_form` | `UpdateForm`, `SaveDraft`, `RotateLink`, `DeleteForm` |
| `set_state` | `CountOpenForms` (when the cap applies), then `SetState` |
| `publish` | the instance's draft is checked (`CanPublish`); `LockRow` = `select_for_update` and the read of the head; `CommitPublish` |
| `publish_view` | `PublishViewSave`, then the steps of `publish` on the same instance |
| every `raise FormsError` | `Refuse` |
| a worker dies, a statement fails | `Crash`, at any point; its transaction is rolled back |

An UPDATE of a row that another transaction has locked waits (`Unlocked`).
Schemas are told apart by content only, and `Publishable` is the set that
`validate_schema` accepts. `PublicationLog` has one action, `Publish`: append,
activate, announce. `PublishesToLog` is the refinement.

### Intake

A visitor renders a form (GET), then posts: `Resolve` (`resolve_public`, which
caches the active version), `PassGrace` (the query of `_within_grace`),
`CountSubmissions`, `Store`. Nothing read earlier is read again, and the author's
requests run in between. `Fits[s]` is the set of answer bodies that
`validate_answers` accepts against schema `s`. The clock of the grace window is
not modelled: while the window is switched on, a superseded version may or may
not be refused. `echo` is the `version_id` the client sends back.

### Notify

The cooldown gate and the held count are two cache keys with expiry times.
Every cache call of `notify_submission_received` is one action, since other
handlers run between them. The outbox is external: it delivers each event at
least once (the acknowledgement may be lost, the handler may die). `Prompt`
is an assumption on time, that a handler which won the gate is done before its
window ends; without it `NoOvercount` would say something about the host's
scheduling, not about this code. `LettersSpaced` compares the moments the gate was
won. `_request` (a loop that logs failures) is one letter. `handed` and `announced`
are history: the deliveries there were, and the responses that all letters together spoke of.

### Accounts

`author` is who made a row (history), `owner` is what the row says, and `heirs[u]` are
the accounts that `u` was folded into, one after another (history). The accounts
service closes and merges accounts and emits the events; the bus delivers them
at least once, and, unless `orderly`, in any order and while a request of that
user is still in flight. `Project` is the arrival of a user row; `Forget` is its
removal by the host once the account has ended, which sets `created_by` to NULL
(`models.py:75-78`) and leaves `submitted_by` as it is. So a survivor that ended need
not have a user row, now or ever, and a merge into it raises `MergeTargetNotReady`
for as long as there are rows to move: `Hopeless` names that case, `Blocked` the
events that wait for it on an orderly bus, `EventuallyHandled` says that every other
event is handled, which is as much as is true of the docstring's "transient".
Not modelled: malformed ids (both handlers drop them), the export of GDPR data.

### Retention

Every `queryset.delete()` of the two purges commits alone, so each is an action,
and between any two of them answers arrive, retention is patched, forms are
trashed, and the task may die. `task` holds the locals of the function that is
running: the moment, the ceiling and the overrides that `purge_expired` read
(0 stands for None), then the ids that `purge_deleted_forms` selected. A row of
`submission` is its form and its `submitted_at`; a form's versions are one flag,
because they are deleted together. `PROTECT` and the foreign keys are guards: a
submit in flight still inserts while the form's versions exist, and
`DeleteVersions` fails when it did. The author's requests are single steps here;
their races are `FormLifecycle`'s. One run of the task at a time, as the beat
schedule starts them.

With `RETENTION_DAYS` None (a ceiling of 0) `purge_expired` returns at once, so that
no override is applied either (`services.py:455`), but the cutoff of the trash is then
the present moment (`services.py:489`), so that it is not true that "None keeps answers
forever", and `NeverEarly` claims nothing of how long a form stays in the trash then.
`HorizonEnforced` speaks of the horizon that the run read, the override where there
is one, be it longer than the ceiling: that an override can only shorten is
`CeilingIsOuterBound`, which is not true either. `MCRetentionPromise` adds a history of
the promises that were broken, and `retention_promise` has a behaviour that breaks both.

### Paging

`walk` is the client's walk: what it asked for, its cursor, and as history the rows
that were there when it began. A page is one query, as in the code; the surfaces
differ in what they ask for and in how they know that there is more: the REST client goes
on until a page is empty (`ListPage`), the export sends a cursor with a full page
(`ExportPage`), the admin's table asks for one row too many (`TablePage`). Time is
as coarse as `submitted_at`, so ties occur, and a row may become visible a tick
after the moment it carries. Filters other than the version are a set of ids.
The ids are random, so their order has nothing to do with arrival.

### SchemaRules, Builder and Responses

`SchemaRules` has the rules as pure operators. A schema is the sequence of its
fields; a field is its slug, name, required flag, kind, and its config: bare, one of two
that set options and bounds (`set`, `narrow`), or one with a key its dataclass does not
know. The engine's verdicts are external: a `select` needs options, an answer must be
of its question's kind and among the values its config admits (`Admits`), a
chosen option is stored with its label, a header with its caption
(`normalize_to_dao` writes headers into the answers, whatever was sent, which is
why stored keys do not say what was asked).

`Builder` has the two ways a draft comes about: `SaveDraft` (REST) and the board of
the browser, which is filled when the change page renders, edited with no call to
the server (`AddField`, `RemoveField`, `MoveField`, …) and posted whole to
`publish_view`. Publishing is one step there; `FormLifecycle` has its
interleavings. A slug is a base and a number, as `uniqueSlug` makes them.

`Responses` adds the rows and a reviewer's page. `responses_view` reads in no
transaction: the form and the slugs a search may look at (`OpenPage`), the rows
(`QueryRows`), the versions the columns come from (`RenderPage`), with publishes,
erasures, deletions and answers in between. A column is known by the place of its
question in the schema, a column of the table by the version and the place where its slug
was first met (`MetBefore` is the order of the meetings), and a row by its place in the order of
arrival: so the order on the screen is the order of these keys, and nothing needs a
recursive definition. `Table` is what the page would show if
it were rendered now, so the properties about it speak of every moment at which it
may be. `SearchIsComplete` says it of values: an option is searched by the value
it is stored under, not by the label that the cell shows (`services.py:380`,
`presenters.py:257-275`). And it says it of plain slugs (`Plain`): a slug is spliced
into the path `answers__<slug>__value__icontains`, which is cut at every `__`, so one
that holds `__` or ends in `_` leads nowhere; no rule forbids it. `HistoryTells` reads the
version picker: the reported changes retrace the labels, and of a version reported as
unchanged only configs can have changed: the questions are otherwise the same
(`Outline`), and with equal configs (`ConfigsOf`) respondents are shown the same and
exactly the same answers are accepted. What the repository says beyond these two, and of
the cells and columns of the table, is four operators (`NotAskedIsBlank`,
`RemovedQuestionHidden`, `SearchFindsAll`, `NothingChangedMeansSame`), and `review_texts`
has one state in which all four are false.

### AdminSite

A Django `ModelAdmin` save is an UPDATE of the whole row: the columns of the page
come from the POST, all others as the POST loaded them. `PostChangePage` is the
load, `SaveModel` the UPDATE, and every step of `FormLifecycle` may lie between.
So `ActiveIsHead` does not hold here, nor `OpenHasVersion`: a save may put back an
older active version, revive a deleted form or an old handle, and open a form
that was never published. What the code still ensures is stated instead:
`resolve_public` answers 404 for an open form without a version and whatever is
shown passed validation (`PublicShowsPublished`); `publish` takes its ordinal from
the table of versions and not from the active version, so that the next publish
repairs the row (`PublishHeals`); and the lost update is as wide as the POST,
because the instance is loaded by the POST and not kept from the GET
(`SaveTouchesItsPage`).

### Gate

Every handler of the admin API is its name, and a name determines the
capability and whether it is about a workspace, a form or a submission. An anonymous
caller is refused before the handler runs (`TurnAway`, the permission class). A request
names a workspace, or gets a 400; it asks (`Authorize`), loads under the workspace it
asked about (`LoadRow`) and acts (`Act`); memberships, the workspaces service and the
rows change between the steps. What is wrong with a request is its `body`: unreadable
before the gate, refused by a serializer or a rule after it, or no schema at all.
`kept` are the rows that the trash purge has not destroyed yet. A handler that loaded a
form before that may find its row gone when it writes (`WriteFails`), its active version
when it presents it (`ShowMayFail`), or a question that it published when it searches
(`QuestionGone`): two of these are a 500, the last a 400.
`during` is history: the moments a request has been through. `AnswersAreTrue` says
of each status code what must have been the case at one of those moments. It does
not say that a row is still there when a handler acts on it: nothing in the
code ensures that.

## 3. Runs

| Run | Question | Bounds |
|---|---|---|
| `lifecycle` | Is publishing linear, gapless and announced, and does it implement `PublicationLog`? By how much can each cap be exceeded? Are stored answers those of the version they name? | three scenes, below |
| `notify` | No flood, no double count, no event stuck | 3 responses, 2 handlers, 2 deliveries each, clock 0..2, cooldown 2 |
| `accounts` | Who owns what after any sequence of deliveries; is erasure final; does every event get handled | 3 accounts, 2 endings, 1 form, 2 responses, 1 request at a time |
| `retention` | Does every answer get destroyed on time, and none before; is no answer orphaned; is the trash emptied? | 2 forms, 2 rows, 1 submit at a time, ceilings None and 2, overrides 1 and 3, clock 0..3, 1 death |
| `paging` | Does a walk show every row once, and end? | 3 rows, 3 instants, 2 versions, pages of 1 or 2 |
| `responses` | Does the review show what was said and asked, over versions that change under it? Does the builder name questions apart? | 3 versions of up to 2 fields, 3 kinds, 2 drafts by REST and a malformed one, 1 edit in the builder, 1 answer |
| `admin_site` | What do whole-row saves of the admin leave intact? | 1 form, 1 request and 1 change page at a time, any number of them one after another, 3 versions |
| `gate` | Is every answer of the API true, while memberships, the service and the rows change? | 1 user and an anonymous one, 2 workspaces, 2 forms, 16 handlers, 2 changes |
| `notify_lost` | violated: every response is announced or held | 3 responses, 2 handlers, 1 delivery each |
| `next_page_hidden` | violated: the table that offers no next page has shown everything | a page as large as `MAX_PAGE_SIZE` |
| `retention_promise` | violated: at least one of two promises about `RETENTION_DAYS` is kept | 1 form, ceilings None, 1 and 3, override 2, clock 0..4 |
| `review_texts` | violated: at least one of four texts about the review is true | 3 versions, 1 answer, no edits in the builder |

`lifecycle` is one run over three small instances of `Intake`. `scene` never changes: it
says who takes part and bounds what they start.

| Scene | Who | Bounds |
|---|---|---|
| `PublishScenes` | two requests at a time on one form, every operation, crashes included | 3 schemas (one invalid), 2 versions, 2 handles |
| `OpenScenes` | two requests that publish and set the state of three forms | cap 1, 1 schema, 1 version |
| `AnswerScenes` | two visitors next to one author who publishes, changes the state and deletes | 2 schemas, 3 versions, 3 submissions, cap 1, window open; no rotations |

The four violations are recorded under `"findings"`, one for each of the eight places
in the repository that say otherwise. The last two runs ask for less than the texts they are
about, that not all of them are wrong at once, so that one counterexample is one to each.
Two of the eight are defects of the code as it stands:

* `next_page_hidden`: with the default settings, `?per_page=100` of the admin's
  responses table never offers a second page.
* `SearchFindsAll` in `review_texts`: answers under a slug with a double underscore are
  stored and shown, and no search finds them.

The others are places where a comment, a document or a docstring promises what the
code does not keep; `RemovedQuestionHidden` is one where the code does better than its
comment. For each of them the property of a passing run next to it says what does hold:

| Refuted | What holds instead |
|---|---|
| `NothingLost` | `NoOvercount` |
| `CeilingIsOuterBound` | `HorizonEnforced` |
| `NothingGoesWithoutCeiling` | `NeverEarly` |
| `NotAskedIsBlank`, `RemovedQuestionHidden` | `CellsTellTheTruth`, `NoAnswerHidden` |
| `SearchFindsAll` | `SearchIsComplete` |
| `NothingChangedMeansSame` | `HistoryTells` |

More facts that the models show, without a run of their own; what the runs check of
each is in brackets:

* Two requests that load one open form and close or delete it both emit `form.closed`
  (`services.py:196`, `217`), of which `docs/capabilities.meta.json:152` says that
  `set_state` emits it exactly once (`OneAuthorAnnouncesClosing`: true of one request at a
  time).
* `set_state` takes an open form back to draft, which ends its intake (404,
  `services.py:99`) with no `form.closed` (`services.py:200`), the event that
  `schemas/emits/form.closed.json:4` describes as "A form stopped accepting submissions."
  (the same property leaves this way out).
* `MergeTargetNotReady` is not always "Transient, not a bug" (`actions.py:32-37`): a
  survivor that ended before its user row came, or whose row was deleted, need never have
  one, and the event is redelivered for ever (`EventuallyHandled` excepts it).
* A winner of the cooldown gate that dies between the delete of the held count
  (`notifications.py:149`) and its letter loses that count, since the redelivered event
  finds the gate closed (`NothingLost` is refuted without a crash).
* A schema that is none is a 500 in a create or a draft (`services.py:123`, `141`), because
  only `publish` and `publish_view` catch `SchemaInvalid`, and not "a schema error rather
  than a 500 three layers down" (`schema.py:68-69`; `AnswersAreTrue` has the 500 behind the
  gate only).
* A draft saved between a publish's read of the draft (`services.py:148`) and its commit is
  cleared without being in any version, because the transaction clears the column it did
  not read again. No document says otherwise.

Why the bounds are enough. Two requests are the fewest that race, and every
hazard of the list is between two; the theorems below lift the lifecycle's
properties to any number. Two versions allow one publish to be overtaken by
another; three are needed to be more than one behind (`AnswerScenes`, whose open window
may always turn out to be over, which is what a shut one does). The
cap is 1 with three forms, so that the overshoot (two open forms) and one more
are within reach. Three responses allow one to win the gate and two to collide on
the held count. Three accounts allow a chain of two merges, and a merge into an account
that is deleted afterwards. Retention needs a form with and one without an override, an override
shorter than the ceiling and one longer, and a clock that lets a row pass each of
these. Three rows make two full pages and a rest, and a tie across a page's end.
Rows of the responses table do not depend on each other, so one answer under each
of the reachable histories of three versions is enough for what a cell shows; three
versions let a question go and come back, and let an active version be younger than
the page and older than the newest. The drafts of `responses` are the hard ones: a
header with the slug that another version's question has, above a required
question, and that question optional and of another kind; the builder's one edit can give
a field any config. One word is enough for the answers, since a `narrow` config
refuses it. Slugs that are not plain, which `SearchIsComplete` excepts, are
only in the drafts of `review_texts`. A collision in the builder needs only a schema that was numbered past a removed field, and one edit.
One request and one change page are the fewest that race, and the admin's run has
no bound on how many follow each other. Two changes let a capability go and come
back, a service fail after a membership ended, or a form be trashed and destroyed.

`CHECK_DEADLOCK FALSE` stands in every configuration: the systems may really
stop (all forms deleted, all accounts closed), and the bounds stop counters
(`MaxVersion`, `MaxHandles`, `MaxClosed`, `MaxDeliveries`, `MaxTime`,
`MaxEvents`, `MaxRows`, `MaxDeaths`, `MaxEdits`, `MaxSubmissions`, `MaxChanges`, all in guards of the actions that start something new).

Fairness is assumed in four modules. In `Notify` a running handler goes on
(WF), and the relay delivers a due event again and again (SF, because an event
is undeliverable while another delivery of it runs); nothing forces a crash or prevents
one, but an event's deliveries are bounded, and the last one neither crashes nor loses
its acknowledgement. In `Accounts` the bus repeats a delivery until it is
acknowledged (SF on the acknowledged handling, since a handler that raises
`MergeTargetNotReady` is disabled until the projection), and the user row of an account
that is active arrives some day (WF); nothing makes one arrive for an account that
has ended, and nothing keeps it there. In `Retention` the clock advances, requests end, the schedule
starts the task again and again and a running task goes on (WF each); it may die
`MaxDeaths` times, wherever it likes. In `Paging` the reviewer goes on asking
(WF). `FormLifecycle`, `Intake`, `AdminSite`, `Responses` and `Gate` promise nothing that must happen,
so they assume none.

What `ClosingIsAnnounced` says: `form.closed` is emitted by exactly the steps that close or
delete an open form. A return to draft ends the intake as well and is not announced, which
is why the property leaves it out. With two authoring requests it is false, since `was_open`
is read from a stale instance (`services.py:196`, `217`), so `lifecycle` checks it where
there is one author (`OneAuthorAnnouncesClosing`), and the theorem has it as a hypothesis.

## 4. Proofs

The theorems hold for every value of the constants. They assume what the
modules' named ASSUMEs say: that `Forms`, `Workers` and `Visitors` are finite,
that `None` is no element of the other sets, that numbers are natural numbers.

| Theorem | States |
|---|---|
| `TypeCorrect` | `TypeOK` |
| `ActiveAlwaysHead` | `ActiveIsHead`: the active version is the newest |
| `OrdinalsAlwaysDense` | `OrdinalsDense`: ordinals are 1..n, one row each |
| `HeadAlwaysReserved` | `HeadReserved`: the head read under the lock stays the head |
| `OpenAlwaysHasVersion` | `OpenHasVersion` |
| `AlwaysAnnouncedBeforeClosed` | `AnnouncedBeforeClosed` |
| `OneAtATimeAnnouncesClosing` | `ClosingIsAnnounced`, where no two authoring requests run at once (`OneAtATime`) |
| `OpenCapOvershootBounded` | `OpenCapOvershoot`, for any number of workers |
| `ImplementsLog` | `Spec => PublishesToLog`: the refinement |
| `IntakeTypeCorrect` | `IntakeTypeOK`, of `IntakeSpec` |
| `StrictlyStored` | without a grace window: `StoredUnderAnsweredVersion` |
| `AlwaysStoredWithinGrace` | `StoredWithinGrace`: at most one version behind |
| `AnswersAlwaysFit` | `AnswersFitTheirVersion` |
| `AlwaysReceivedAfterPublished` | `ReceivedAfterPublished` |
| `SubmissionCapOvershootBounded` | `SubmissionCapOvershoot`, for any number of visitors |
| `NotifyTypeCorrect` | `NotifyTypeOK`, of `Notify`'s `Spec` |
| `NothingFloods` | `LettersSpaced`, for any handlers, redeliveries and times |
| `PromptNeverOvercounts` | `NoOvercount`, where the constant `Prompt` is TRUE |
| `AccountsTypeCorrect` | `AccountsTypeOK`, of `Accounts`' `Spec` |
| `RowsStayInTheFamily` | `OwnedByAnHeir`, in whatever order events arrive |
| `OrderlyDeliveryStrandsNothing` | `OrderlyStrandsNothing` |
| `NoResurrection` | `ErasedForGood` |
| `RetentionTypeCorrect` | `RetentionTypeOK`, of `Retention`'s `Spec` |
| `HorizonAlwaysEnforced` | `HorizonEnforced` |
| `AnswersKeepTheirVersion` | `AnswersHaveTheirVersion` |
| `NeverDestroyedEarly` | `NeverEarly` |
| `PagesAreBounded` | `PagingTypeOK`, of `Paging`'s `Spec`: types, and no page above `MAX_PAGE_SIZE` |
| `WalksNeverTurnBack` | `PagesDescend` |
| `WalksAreComplete` | `NothingSkipped`, where the table's page fits (`TableFits`) |
| `NextPageOfferedIfItFits` | `NextPageIsOffered`, under the same hypothesis |
| `ResponsesTypeCorrect` | `ResponsesTypeOK`, of `Responses`' `Spec` |
| `BuilderNamesApart` | `SlugsCollideOnlyByHand` |
| `HistoryAlwaysTells` | `HistoryTells` |
| `NoAnswerEverHidden` | `NoAnswerHidden` |
| `SearchAlwaysComplete` | `SearchIsComplete` |
| `CellsAlwaysTrue` | `CellsTellTheTruth` |
| `PublicAlwaysPublished` | `PublicShowsPublished`, of `AdminSpec` |
| `PublishAlwaysHeals` | `PublishHeals`, of `AdminSpec` |
| `SaveUndoesOnlyItsPost` | `SaveTouchesItsPage`, of `AdminSpec` |
| `AnswersAlwaysTrue` | `AnswersAreTrue`, of `Gate`'s `Spec` |

The argument. None of the safety properties is inductive alone. `ActiveIsHead`
needs that the head a publish read is still the head when it commits, so
`HeadReserved` belongs to the invariant, and with it that the holder of a lock
is serving a publish of that form. `OrdinalsDense` then follows, since the new
ordinal is the successor of the largest. `OpenHasVersion` looks local but
its check is made on a stale instance: the invariant carries that an instance seen
published belongs to a form that still is (a form is never
un-published), and an instance seen open belongs to a form with a version;
`AnnouncedBeforeClosed` follows from the latter and from every version having been
announced. `OpenCapOvershoot` is proved by a strengthening: open forms plus the
requests that are about to open one never exceed the cap by more than the
number of workers less one; the count is done with the library's
cardinality theorems, one lemma for each way the two sets change.
`OneAtATimeAnnouncesClosing` adds `ReadIsCurrent`: what the only request read when it was
loaded is still in the row when it writes. The hypothesis is needed, as said under the runs.
`ImplementsLog` uses the same invariant: `CommitPublish` maps to `Publish`, every
other action to a stutter, because rows are added and never changed.

Intake is proved on top of the lifecycle: a step of a visitor leaves the
lifecycle's variables alone, a step of an author only lets the table of versions
grow. So the version a visitor echoes is at most the one its request cached, and that
at most the active one (`EchoNotAhead`); since everything up to the active version
exists, what `_within_grace` lets through is exactly one behind the cached one
(`VersionChecked`), and that is what is stored. The cap is proved as the one on
open forms: a visitor that has counted holds a place of its own.

For the cooldown, letters alone are not enough: a handler that won the gate and has
not sent yet is a letter to come. `WinsApart` says of all of them together that their
wins are a cooldown apart and that the gate stays shut for a cooldown after
the last, so that whoever wins next is far enough from each. The count is a budget
(`Budget`): what was announced, what is held and one response for every delivery in
progress never exceed the deliveries there were. It survives the two calls of the
winner only if no second handler is between the gate and its letter (`Sole`), which
follows from `Prompt` and fails without it: two handlers that read the held count both
speak it. With a cooldown of 0 the gate is always open, and nothing is ever held
(`NothingHeld`).

For accounts the difficulty is that an event is read long after it was written. What
`MergesAreInherited` keeps is that a merge in the log goes on meaning what it meant:
whoever was folded into the one account has been folded into the other, so the late and
repeated handling of it moves a row only within its author's `heirs`. `ErasedForGood` needs
that a row that a request is about to insert is nobody's yet (`NewRows`).
`OrderlyStrandsNothing` needs an induction along the log: an owner that
has ended is the subject of an event still to be handled (`StrandedIsDue`), and when a
merge hands its rows to a survivor that has itself ended since, that end stands
later in the log (`EndsAreLogged`), so an orderly bus has not handled it yet.

For retention the invariant says what the run is through with. The moment the run
read is past, so whatever arrives later is young enough (`RunIsPast`); the loop
has cleared the forms it no longer has ahead of it, and only forms with an override
are ahead (`LoopProgress`); the selected forms stay in the trash while
the run works on them (`DoomedAreOld`); and a form without versions has no
answers, because nothing can be inserted below it.

For paging the order of rows, by moment and then by id, is one rank per row, and a
page is the first so many rows of its query: the lemmas about `Prefix` say that it is bounded, above
every row it leaves out, and empty only if the query is. `WalksNeverTurnBack` follows, since
a later page is asked for from below the cursor (`ShownIsAbove`), and a row never changes.
For `WalksAreComplete` the invariant says of every row that was there at the beginning
and still is that it was shown, or lies below the cursor, or is of the very moment at
which a page ended (`PassedOrBelow`): that last case, a tie across the end of a page, is the one
exception `NothingSkipped` states. `TableFits` (the table's page and the row it peeks at
are within `MAX_PAGE_SIZE`) is what the finding `next_page_hidden` lacks: where it
holds no surface ends early, so the theorem and the finding bound the defect exactly.

For the builder, one of the first n + 1 numbers is behind no slug among n fields (the
pigeonhole principle), so the loop of `uniqueSlug` ends and what it returns is free
(`UniqueSlugIsFree`); that it is a proper slug takes that the builder stops at
`MAX_FIELDS_PER_FORM`. Every other edit moves, removes or changes fields under the slugs they
have, one lemma each, and a typed slug ends the promise.

For the review the invariant is what a row tells (`Tells`): under the version it names,
each of its entries is an answer to a question or the caption of a header, and versions are
only added, so what was true when the rows were read still is when the columns are. `PageInv`
says it of the rows in the hands of the page, and of the slugs its search was scoped to.
`ColumnForSlug` finds the column: of all places where a slug is met in the shown versions one
comes first, in the active version or else in the newest, and that one is kept.
`HistoryAlwaysTells` is a fact about `SchemaDiff`: retracing labels takes nothing of the
schemas at all; that an empty change means the same form but for its configs, and the same
form if these are equal, takes that slugs are distinct, as validated versions' are.
`SearchAlwaysComplete` is about plain slugs only, and `review_texts` shows why.

Next to the admin's change page most of the lifecycle's invariant is false: a staff
save can put an older active version back and open a form that has none. The
invariant of `AdminSite` in `BesideLifecycleProofs` is therefore about what staff cannot write: the
ordinals stay dense, every version passed validation, the holder of a row lock
knows the newest ordinal (`HeadUnderLock`, about the table of versions and not about
the active one), and every row, the one in the hands of a POST included,
points to a version that is there or to none (`Points`), since versions are never taken away.
`SaveUndoesOnlyItsPost` compares a POST with the row of the moment it was loaded
(`PostIsFresh`): as long as nobody else wrote, the two differ in nothing.

For the gate the invariant is that a request in progress has witnessed the present
moment and that what it learned (`Known`: the caller was granted, then the row was
within the workspace) is true of a moment it witnessed. The moments only
grow while the request runs, so what was once true of one of them stays so, and each
step of a request adds what it finds in the present one. For the failures it also carries that
the forms a request holds were there when it loaded them (`Seen`) and that a
form's versions are destroyed before its row (`VersionsFirst`): so whoever finds either
gone was overtaken by the purge.

Out of the prover's reach, and left to TLC: liveness (`EventuallyAcknowledged`,
`EventuallyHandled`, `TrashEmptied`, `WalkEnds`), anything with ENABLED, and
induction over data (what a recursive definition computes for every input). Those four
liveness properties are the only ones of the passing runs that no theorem states. The
theorems about the order of numbers and columns get their induction from the
least-number principle (`LeastNumber`), which the library's well-founded sets give
without an operator as a parameter.

## 5. What is not modelled, and the plan

Left out for good: code generation and the documents it writes, routing and
serializers, translations, the start-up checks, the plain field copies of the form
and version presenters. They keep no state. The config editor inside the builder
and the verdicts on configs and values belong to stapel-attributes.

Not modelled yet, and why: the throttles, the size gate and the captcha of the public
views (their counters and verdicts are the host's; a refusal happens before
`resolve_public` and changes nothing); adding a form and deleting a row for good in the
Django admin (Django's own cascade); malformed ids, the export and the anonymizing of
GDPR data; the CSV escape, a rewriting of strings.

The plan, in order:

1. Action properties that the invariants already imply and no run states yet, above all
   that stored versions and answers never change.
2. The rest of GDPR: export, anonymize, malformed ids.
