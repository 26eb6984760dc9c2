------------------------------- MODULE Retention -------------------------------
(***************************************************************************)
(* The retention task (tasks.purge_expired_submissions: services.purge_    *)
(* expired, then services.purge_deleted_forms), statement by statement,    *)
(* next to the requests that store answers, change the retention of a form *)
(* and delete it.                                                          *)
(*                                                                         *)
(* Neither purge is a transaction: each queryset.delete() commits alone.   *)
(* The database keeps the foreign keys: a submission cannot be inserted    *)
(* without its form and version, and a version with submissions cannot be  *)
(* deleted (PROTECT).                                                      *)
(***************************************************************************)
EXTENDS Naturals, FiniteSets

CONSTANTS
    Forms,
    Visitors,      \* submits that can be in progress at the same time
    Ceilings,      \* values of RETENTION_DAYS, 0 for None; time is in ticks
    Overrides,     \* values of settings.retention_days
    Patience,      \* ticks a submit can be in progress
    MaxRows,       \* bound: stored submissions
    MaxDeaths,     \* bound: runs of the task that die
    MaxTime        \* bound: the clock

ASSUME RetentionAssumption ==
    /\ Ceilings \subseteq Nat /\ Ceilings # {}
    /\ Overrides \subseteq Nat \ {0}
    /\ Patience \in Nat /\ MaxRows \in Nat /\ MaxDeaths \in Nat /\ MaxTime \in Nat

VARIABLES
    ceiling,     \* RETENTION_DAYS of the deployment
    now,
    form,        \* forms_form, with the versions below it
    submission,  \* forms_submission, as the set of its (form, submitted_at)
    visit,       \* the submits in progress
    task,        \* the purge in progress
    deaths       \* the runs that died

vars == <<ceiling, now, form, submission, visit, task, deaths>>
-----------------------------------------------------------------------------
(* `days' is settings.retention_days, 0 when there is none; `deleted' the  *)
(* time of deleted_at.                                                     *)
Row == [life : {"live", "deleted", "gone"}, days : Overrides \cup {0}, deleted : 0..MaxTime,
        versions : BOOLEAN]

Submission == [form : Forms, at : 0..MaxTime]

Away == [step |-> "away"]

(* The locals of purge_expired: the moment, the ceiling and the overrides  *)
(* it read, and the forms its loop has not reached.                        *)
Expiry == [step : {"scan", "default", "each", "select"}, now : 0..MaxTime,
           ceiling : Ceilings, days : [Forms -> Overrides \cup {0}], left : SUBSET Forms]

(* Those of purge_deleted_forms: the ids it selected.                      *)
Trash == [step : {"answers", "versions", "forms"}, doomed : SUBSET Forms]

Resting == [step |-> "resting"]

RetentionTypeOK ==
    /\ ceiling \in Ceilings /\ now \in 0..MaxTime
    /\ form \in [Forms -> Row]
    /\ submission \subseteq Submission
    /\ visit \in [Visitors -> [step : {"resolved"}, form : Forms, since : 0..MaxTime] \cup {Away}]
    /\ task \in Expiry \cup Trash \cup {Resting}
    /\ task.step = "each" => task.left # {}
    /\ deaths \in 0..MaxDeaths

Init ==
    /\ ceiling \in Ceilings
    /\ now = 0
    /\ form = [f \in Forms |-> [life |-> "live", days |-> 0, deleted |-> 0, versions |-> TRUE]]
    /\ submission = {}
    /\ visit = [v \in Visitors |-> Away]
    /\ task = Resting
    /\ deaths = 0
-----------------------------------------------------------------------------
(* A request does not outlast its patience. *)
Tick ==
    /\ now < MaxTime
    /\ \A v \in Visitors : visit[v] # Away => now < visit[v].since + Patience
    /\ now' = now + 1
    /\ UNCHANGED <<ceiling, form, submission, visit, task, deaths>>

(* The deployment restarts with another RETENTION_DAYS.                    *)
Redeploy(c) ==
    /\ c # ceiling /\ task = Resting
    /\ ceiling' = c
    /\ UNCHANGED <<now, form, submission, visit, task, deaths>>

(* update_form: _validated_settings refuses more than the ceiling.         *)
Patch(f, days) ==
    /\ form[f].life = "live"
    /\ (ceiling # 0) => (days <= ceiling)
    /\ form' = [form EXCEPT ![f].days = days]
    /\ UNCHANGED <<ceiling, now, submission, visit, task, deaths>>

(* The bound on the clock leaves the trash time to expire.                 *)
DeleteForm(f) ==
    /\ form[f].life = "live"
    /\ \A c \in Ceilings : now + c < MaxTime
    /\ form' = [form EXCEPT ![f].life = "deleted", ![f].deleted = now]
    /\ UNCHANGED <<ceiling, now, submission, visit, task, deaths>>

Resolve(v, f) ==
    /\ visit[v] = Away
    /\ form[f].life = "live"
    /\ visit' = [visit EXCEPT ![v] = [step |-> "resolved", form |-> f, since |-> now]]
    /\ UNCHANGED <<ceiling, now, form, submission, task, deaths>>

(* The INSERT of submit, whatever became of the form since resolve_public. *)
Insert(v) ==
    /\ visit[v] # Away
    /\ form[visit[v].form].versions
    /\ Cardinality(submission) < MaxRows
    /\ submission' = submission \cup {[form |-> visit[v].form, at |-> now]}
    /\ visit' = [visit EXCEPT ![v] = Away]
    /\ UNCHANGED <<ceiling, now, form, task, deaths>>

(* Refused, by the answers, the cap or a foreign key.                      *)
Leave(v) ==
    /\ visit[v] # Away
    /\ visit' = [visit EXCEPT ![v] = Away]
    /\ UNCHANGED <<ceiling, now, form, submission, task, deaths>>
-----------------------------------------------------------------------------
(* The steps of the task.                                                  *)
Destroys(rows, next) ==
    /\ submission' = submission \ rows
    /\ task' = next
    /\ UNCHANGED <<ceiling, now, form, visit, deaths>>

Before(t, days) == {s \in submission : s.at + days < t}

OfForms(F) == {s \in submission : s.form \in F}

Overridden(days) == {f \in Forms : days[f] # 0}

(* purge_expired returns at once when the ceiling is off.                  *)
Begin ==
    /\ task = Resting
    /\ task' = [step |-> IF ceiling = 0 THEN "select" ELSE "scan", now |-> now,
                ceiling |-> ceiling, days |-> [f \in Forms |-> 0], left |-> {}]
    /\ UNCHANGED <<ceiling, now, form, submission, visit, deaths>>

(* The overrides of all forms, those in the trash included.                *)
Scan ==
    /\ task.step = "scan"
    /\ task' = [task EXCEPT !.step = "default",
                            !.days = [f \in Forms |-> IF form[f].life = "gone" THEN 0
                                                      ELSE form[f].days]]
    /\ UNCHANGED <<ceiling, now, form, submission, visit, deaths>>

(* Mutant of DeleteDefault: the forms with an override are forgotten.      *)
DeleteDefaultOnly ==
    /\ task.step = "default"
    /\ Destroys(Before(task.now, task.ceiling) \ OfForms(Overridden(task.days)),
                [task EXCEPT !.step = "select"])

DeleteDefault ==
    LET others == Overridden(task.days) IN
    /\ task.step = "default"
    /\ Destroys(Before(task.now, task.ceiling) \ OfForms(others),
                [task EXCEPT !.step = IF others = {} THEN "select" ELSE "each", !.left = others])

(* Mutant of DeleteOverridden: the loop does not end.                      *)
DeleteOverriddenAgain(f) ==
    /\ task.step = "each" /\ f \in task.left
    /\ Destroys(Before(task.now, task.days[f]) \cap OfForms({f}), [task EXCEPT !.left = @ \ {f}])

DeleteOverridden(f) ==
    /\ task.step = "each" /\ f \in task.left
    /\ Destroys(Before(task.now, task.days[f]) \cap OfForms({f}),
                [task EXCEPT !.left = @ \ {f}, !.step = IF task.left = {f} THEN "select" ELSE @])

(* Mutant of SelectDoomed: the age of the deletion is not looked at.       *)
SelectAllDeleted ==
    LET doomed == {f \in Forms : form[f].life = "deleted"} IN
    /\ task.step = "select"
    /\ task' = IF doomed = {} THEN Resting
               ELSE [step |-> "answers", doomed |-> doomed]
    /\ UNCHANGED <<ceiling, now, form, submission, visit, deaths>>

(* purge_deleted_forms reads the clock and the ceiling again; the ceiling  *)
(* None is a cutoff of now.                                                *)
SelectDoomed ==
    LET doomed == {f \in Forms : form[f].life = "deleted" /\ form[f].deleted + ceiling < now} IN
    /\ task.step = "select"
    /\ task' = IF doomed = {} THEN Resting
               ELSE [step |-> "answers", doomed |-> doomed]
    /\ UNCHANGED <<ceiling, now, form, submission, visit, deaths>>

(* Mutant of DeleteAnswers: the versions before the answers.               *)
SkipAnswers ==
    /\ task.step = "answers"
    /\ Destroys({}, [task EXCEPT !.step = "versions"])

DeleteAnswers ==
    /\ task.step = "answers"
    /\ Destroys(OfForms(task.doomed), [task EXCEPT !.step = "versions"])

(* Mutant of DeleteVersions: no PROTECT.                                   *)
DeleteVersionsUnprotected ==
    /\ task.step = "versions"
    /\ form' = [f \in Forms |-> IF f \in task.doomed THEN [form[f] EXCEPT !.versions = FALSE]
                                ELSE form[f]]
    /\ task' = [task EXCEPT !.step = "forms"]
    /\ UNCHANGED <<ceiling, now, submission, visit, deaths>>

(* A submission stored since DeleteAnswers makes it raise ProtectedError:  *)
(* the task fails and will be run again.                                   *)
DeleteVersions ==
    /\ task.step = "versions"
    /\ IF OfForms(task.doomed) = {}
       THEN /\ form' = [f \in Forms |-> IF f \in task.doomed THEN [form[f] EXCEPT !.versions = FALSE]
                                        ELSE form[f]]
            /\ task' = [task EXCEPT !.step = "forms"]
       ELSE task' = Resting /\ UNCHANGED form
    /\ UNCHANGED <<ceiling, now, submission, visit, deaths>>

DeleteForms ==
    /\ task.step = "forms"
    /\ form' = [f \in Forms |-> IF f \in task.doomed THEN [form[f] EXCEPT !.life = "gone"]
                                ELSE form[f]]
    /\ task' = Resting
    /\ UNCHANGED <<ceiling, now, submission, visit, deaths>>

(* The task dies between two statements.                                   *)
Die ==
    /\ task # Resting /\ deaths < MaxDeaths
    /\ task' = Resting
    /\ deaths' = deaths + 1
    /\ UNCHANGED <<ceiling, now, form, submission, visit>>

Purge ==
    \/ Scan
    \/ DeleteDefault
    \/ \E f \in Forms : DeleteOverridden(f)
    \/ SelectDoomed
    \/ DeleteAnswers
    \/ DeleteVersions
    \/ DeleteForms

Next ==
    \/ Tick
    \/ \E c \in Ceilings : Redeploy(c)
    \/ \E f \in Forms, days \in Overrides \cup {0} : Patch(f, days)
    \/ \E f \in Forms : DeleteForm(f)
    \/ \E v \in Visitors, f \in Forms : Resolve(v, f)
    \/ \E v \in Visitors : Insert(v) \/ Leave(v)
    \/ Begin
    \/ Purge
    \/ Die

Spec == Init /\ [][Next]_vars

(* The clock advances, requests end, the schedule starts the task, and a   *)
(* running task goes on; it may die MaxDeaths times.                       *)
Fairness ==
    /\ WF_vars(Tick)
    /\ \A v \in Visitors : WF_vars(Insert(v) \/ Leave(v))
    /\ WF_vars(Begin) /\ WF_vars(Purge)

FairSpec == Spec /\ Fairness
-----------------------------------------------------------------------------
Expired == task.step = "select" /\ task.ceiling # 0

Horizon(f) == IF task.days[f] # 0 THEN task.days[f] ELSE task.ceiling

(* Once purge_expired is through, no stored answer is past the horizon of  *)
(* its form: neither of the two queries forgets a form, and answers that   *)
(* arrive meanwhile are younger.  The horizon is the override the run      *)
(* read, also one that a ceiling lowered since no longer allows: see       *)
(* CeilingIsOuterBound.                                                    *)
HorizonEnforced ==
    Expired => \A s \in submission : s.at + Horizon(s.form) >= task.now

(* "the module ceiling is the outer bound": once purge_expired is through, *)
(* no answer older than RETENTION_DAYS is stored.  Not so of an override   *)
(* accepted under a higher ceiling than the purge finds.                   *)
CeilingIsOuterBound ==
    Expired => \A s \in submission : s.at + task.ceiling >= task.now

(* An answer is destroyed only when it is past the horizon the run read,   *)
(* or with its form: one in the trash, and for longer than the ceiling     *)
(* where there is a ceiling.  (Where there is none this says nothing of    *)
(* the time the form spends there: see NothingGoesWithoutCeiling.)         *)
NeverEarly ==
    [][\A s \in submission \ submission' :
          \/ task.step \in {"default", "each"} /\ s.at + Horizon(s.form) < task.now
          \/ /\ form[s.form].life = "deleted"
             /\ ceiling # 0 => form[s.form].deleted + ceiling < now]_vars

(* "None keeps answers forever": a step without RETENTION_DAYS destroys no *)
(* answer.  Not so of purge_deleted_forms, for which None is a cutoff of   *)
(* this very moment.                                                       *)
NothingGoesWithoutCeiling == ceiling = 0 => submission \subseteq submission'

(* No stored answer loses the version or the form it belongs to, although  *)
(* the trash is purged in three transactions with submits in between.      *)
AnswersHaveTheirVersion ==
    \A s \in submission : form[s.form].versions /\ form[s.form].life # "gone"

(* A form in the trash is destroyed some day, even when a submit that was  *)
(* in flight makes a purge fail half way.                                  *)
TrashEmptied ==
    \A f \in Forms : form[f].life = "deleted" ~> form[f].life = "gone"
=============================================================================
