------------------------------- MODULE Intake -------------------------------
(***************************************************************************)
(* The public surface (views.PublicFormView, views.PublicSubmitView,       *)
(* services.resolve_public, services.submit) next to the authoring         *)
(* requests of FormLifecycle: strangers fetch a form by its public handle  *)
(* and answer it while its authors publish, close, rotate and delete.      *)
(*                                                                         *)
(* services.submit reads in this order: resolve_public (the row and its    *)
(* active version, one SELECT), the version lookup of the grace window     *)
(* when the client echoed another version, the count for the cap; then it  *)
(* validates in memory and INSERTs.  Nothing read earlier is read again.   *)
(***************************************************************************)
EXTENDS FormLifecycle

CONSTANTS
    Visitors,        \* public requests that can be in progress at the same time
    Answers,         \* answer bodies
    Fits,            \* Fits[s]: the bodies validate_answers accepts against schema s
    SubmissionCap,   \* MAX_SUBMISSIONS_PER_FORM, 0 switches the cap off
    Grace,           \* ACCEPT_PREVIOUS_VERSION_SECONDS > 0
    SubmissionIds    \* primary keys a submission may get

ASSUME IntakeAssumption ==
    /\ Fits \in [Schemas -> SUBSET Answers]
    /\ SubmissionCap \in Nat /\ Grace \in BOOLEAN
    /\ IsFiniteSet(Visitors) /\ IsFiniteSet(SubmissionIds)

VARIABLES
    submission,  \* forms_submission: the set of stored rows
    visit        \* what each visitor is doing

intakeVars == <<submission, visit>>
allVars == <<form, version, lock, req, published, closed, submission, visit>>
-----------------------------------------------------------------------------
(* `echo' is the version the client rendered and sends back as version_id, *)
(* 0 when it sends none.                                                   *)
Submission == [id : SubmissionIds, form : Forms, version : Nat,
               answers : Answers, echo : Nat]

(* `active' is the ordinal of the version cached with the resolved form.   *)
Visit == [step : {"rendered", "resolved", "graced", "counted"}, form : Forms,
          handle : Nat, echo : Nat, answers : Answers, active : Nat]

Away == [step |-> "away"]

IntakeTypeOK ==
    /\ submission \subseteq Submission
    /\ visit \in [Visitors -> Visit \cup {Away}]

SubmissionsOf(f) == {s \in submission : s.form = f}

(* resolve_public: the handle is current, the form live, open, published.  *)
Resolvable(f, h) ==
    form[f].handle = h /\ Live(f) /\ form[f].state = "open" /\ form[f].active # 0

IntakeInit ==
    /\ Init
    /\ submission = {}
    /\ visit = [v \in Visitors |-> Away]

(* GET /public/<handle>: the client renders the active version, fills it   *)
(* in, and will or will not send its version_id along.                     *)
Render(v, f) ==
    /\ visit[v] = Away
    /\ Resolvable(f, form[f].handle)
    /\ \E a \in Answers, e \in {0, form[f].active} :
          visit' = [visit EXCEPT ![v] =
                      [step |-> "rendered", form |-> f, handle |-> form[f].handle,
                       echo |-> e, answers |-> a, active |-> 0]]
    /\ UNCHANGED submission

(* POST: resolve_public again, now for the submit.                         *)
Resolve(v) ==
    LET p == visit[v] IN
    /\ p.step = "rendered"
    /\ Resolvable(p.form, p.handle)
    /\ visit' = [visit EXCEPT ![v].step = "resolved", ![v].active = form[p.form].active]
    /\ UNCHANGED submission

SameVersion(p) == p.echo \in {0, p.active}

(* Mutant of WithinGrace: any superseded version, not the last one only.   *)
AnySuperseded(p) == Grace /\ p.echo \in Ordinals(p.form) \ {p.active}

(* _within_grace: the newest version other than the cached active one is   *)
(* the one the client echoed, and the active one was published less than   *)
(* the window ago; the clock is not modelled, so either answer is          *)
(* possible while the window is switched on.                               *)
WithinGrace(p) ==
    LET others == Ordinals(p.form) \ {p.active} IN
    Grace /\ p.echo \in others /\ \A n \in others : n <= p.echo

PassGrace(v) ==
    LET p == visit[v] IN
    /\ p.step = "resolved"
    /\ ~SameVersion(p) /\ WithinGrace(p)
    /\ visit' = [visit EXCEPT ![v].step = "graced"]
    /\ UNCHANGED submission

VersionAccepted(p) == p.step = "graced" \/ (p.step = "resolved" /\ SameVersion(p))

(* Mutant of RoomUnderCap: an off-by-one in the comparison.                *)
RoomUpToCap(f) == SubmissionCap = 0 \/ Cardinality(SubmissionsOf(f)) <= SubmissionCap

RoomUnderCap(f) == SubmissionCap = 0 \/ Cardinality(SubmissionsOf(f)) < SubmissionCap

CountSubmissions(v) ==
    LET p == visit[v] IN
    /\ VersionAccepted(p)
    /\ RoomUnderCap(p.form)
    /\ visit' = [visit EXCEPT ![v].step = "counted"]
    /\ UNCHANGED submission

Valid(p) == p.answers \in Fits[SchemaOf(p.form, p.active)]

(* Mutant of StoredVersion: form.active_version read again at the INSERT.  *)
RereadVersion(p) == form[p.form].active

(* The version a submission is stored under: the cached one.               *)
StoredVersion(p) == p.active

(* Mutant of Store: the request goes on after its response.                *)
StoreAndStay(v) ==
    LET p == visit[v] IN
    /\ p.step = "counted"
    /\ Valid(p)
    /\ \E id \in SubmissionIds :
          /\ \A s \in submission : s.id # id
          /\ submission' = submission \cup
                {[id |-> id, form |-> p.form, version |-> StoredVersion(p),
                  answers |-> p.answers, echo |-> p.echo]}
    /\ visit' = [visit EXCEPT ![v].step = "stored"]

Store(v) ==
    LET p == visit[v] IN
    /\ p.step = "counted"
    /\ Valid(p)
    /\ \E id \in SubmissionIds :
          /\ \A s \in submission : s.id # id
          /\ submission' = submission \cup
                {[id |-> id, form |-> p.form, version |-> StoredVersion(p),
                  answers |-> p.answers, echo |-> p.echo]}
    /\ visit' = [visit EXCEPT ![v] = Away]

(* 404 and 410 at resolve_public, 409 superseded, 409 cap, 400 answers.    *)
Turned(p) ==
    \/ p.step = "rendered" /\ ~Resolvable(p.form, p.handle)
    \/ p.step = "resolved" /\ ~SameVersion(p)
    \/ VersionAccepted(p) /\ ~RoomUnderCap(p.form)
    \/ p.step = "counted" /\ ~Valid(p)

TurnAway(v) ==
    /\ visit[v] # Away
    /\ Turned(visit[v])
    /\ visit' = [visit EXCEPT ![v] = Away]
    /\ UNCHANGED submission

(* The respondent closes the tab, or the worker dies.                      *)
Leave(v) ==
    /\ visit[v] # Away
    /\ visit' = [visit EXCEPT ![v] = Away]
    /\ UNCHANGED submission

(* get_submission, then delete_submission: only under a live form.         *)
DeleteSubmission(s) ==
    /\ Live(s.form)
    /\ submission' = submission \ {s}
    /\ UNCHANGED visit

Visiting(v) ==
    \/ \E f \in Forms : Render(v, f)
    \/ Resolve(v)
    \/ PassGrace(v)
    \/ CountSubmissions(v)
    \/ Store(v)
    \/ TurnAway(v)
    \/ Leave(v)

IntakeNext ==
    \/ Next /\ UNCHANGED intakeVars
    \/ /\ \/ \E v \in Visitors : Visiting(v)
          \/ \E s \in submission : DeleteSubmission(s)
       /\ UNCHANGED vars

IntakeSpec == IntakeInit /\ [][IntakeNext]_allVars
-----------------------------------------------------------------------------
(***************************************************************************)
(* Properties                                                              *)
(***************************************************************************)

(* "every Submission FKs the exact version it answered": a client that     *)
(* said which version it rendered is stored under that version or refused, *)
(* however a publish races it.  (The code does this with the window shut.) *)
StoredUnderAnsweredVersion == \A s \in submission : s.echo \in {0, s.version}

(* With the window open (ACCEPT_PREVIOUS_VERSION_SECONDS > 0) the version   *)
(* the client rendered is at most one publish behind the one its answers   *)
(* are stored under; with the window shut it is that version.              *)
StoredWithinGrace ==
    \A s \in submission :
       s.echo \in {0, s.version} \/ (Grace /\ s.echo + 1 = s.version)

(* Stored answers are interpretable: they passed validation against the    *)
(* schema of the version they are stored under, even when that version was *)
(* superseded between the validation and the INSERT.                       *)
AnswersFitTheirVersion ==
    \A s \in submission : s.answers \in Fits[SchemaOf(s.form, s.version)]

(* form.submission.received names a form version; a subscriber that hears  *)
(* of it has been able to hear form.published of that version before.      *)
ReceivedAfterPublished ==
    \A s \in submission : <<s.form, s.version>> \in published

(* The cap is counted before the INSERT, outside its transaction: one form *)
(* holds at most one submission more than MAX_SUBMISSIONS_PER_FORM for     *)
(* every further request in progress.                                      *)
SubmissionCapOvershoot ==
    SubmissionCap > 0 => \A f \in Forms :
       Cardinality(SubmissionsOf(f)) + 1 <= SubmissionCap + Cardinality(Visitors)
=============================================================================
