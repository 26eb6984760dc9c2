--------------------------------- MODULE Gate ---------------------------------
(***************************************************************************)
(* The gate of the admin API (authz.py and the views that call it): every  *)
(* handler asks the workspaces service whether the caller has, in the      *)
(* workspace of the query, the capability its action maps to, then loads   *)
(* the row under that workspace, then acts.                                *)
(*                                                                         *)
(* Nothing holds the three together.  Memberships change, the service goes *)
(* away and forms are deleted between any two of them.  What the handlers  *)
(* write is in FormLifecycle, Retention and Notify; here a request is what *)
(* it was answered, and only a deletion leaves a trace.                    *)
(***************************************************************************)
EXTENDS Naturals

CONSTANTS
    Users,       \* signed-in callers
    Anonymous,   \* a caller that IsNotAnonymousUser turns away
    Workspaces,
    Forms,
    HomeOf,      \* workspace_id of a form, and of its submission
    Workers,     \* requests that can be in progress at the same time
    MaxChanges   \* bound: changes made by anybody but the requests

ASSUME GateAssumption ==
    /\ HomeOf \in [Forms -> Workspaces]
    /\ Anonymous \notin Users
    /\ MaxChanges \in Nat

VARIABLES
    grant,    \* the workspaces service: <<user, workspace, capability>> (external)
    up,       \* whether it answers (external)
    there,    \* the forms not in the trash, and the submissions, each one a form's
    kept,     \* the forms' own rows, and their versions, until the trash is emptied
    request,  \* the request each worker is serving
    during,   \* history: what was true at some moment of that request
    changes   \* how many changes the environment made

vars == <<grant, up, there, kept, request, during, changes>>
-----------------------------------------------------------------------------
(* @gated(...) of each handler, and ACTION_CAPABILITIES.                   *)
Capabilities == {"forms.view", "forms.manage", "forms.responses.view", "forms.responses.manage"}

CapabilityFor(handler) ==
    CASE handler \in {"list", "detail", "versions"} -> "forms.view"
      [] handler \in {"create", "field_kinds", "patch", "delete", "draft",
                      "publish", "state", "rotate"} -> "forms.manage"
      [] handler \in {"submissions", "export", "submission"} -> "forms.responses.view"
      [] handler \in {"delete_submission", "resend"} -> "forms.responses.manage"

WorkspaceWide == {"list", "create", "field_kinds"}

OfSubmission == {"submission", "delete_submission", "resend"}

OfForm == {"detail", "versions", "patch", "delete", "draft", "publish", "state", "rotate",
           "submissions", "export"}

Handlers == WorkspaceWide \cup OfForm \cup OfSubmission

(* What write the form's row; what presents forms, or exports one, and so  *)
(* looks up the active version of the instance it loaded.                  *)
Writers == {"patch", "delete", "draft", "publish", "state", "rotate"}

Presenters == {"list", "detail", "export", "patch", "draft", "state", "rotate"}

(* Of a request, its query and body.  "unreadable": the query, or the body *)
(* of a create, does not name a workspace; "refused": by a serializer or   *)
(* with a FormsError, after the gate; "malformed": a schema for which      *)
(* normalize_schema raises SchemaInvalid; "scoped": a search in one        *)
(* question that the form has published.                                   *)
Bodies(handler) ==
    {"good", "unreadable"}
       \cup (IF handler \in {"create", "patch", "draft", "publish", "state", "resend",
                             "submissions", "export"} THEN {"refused"} ELSE {})
       \cup (IF handler \in {"create", "draft"} THEN {"malformed"} ELSE {})
       \cup (IF handler = "submissions" THEN {"scoped"} ELSE {})

Moment == [grant |-> grant, up |-> up, there |-> there, kept |-> kept]

Idle == [step |-> "idle"]

(* To begin with, a user has every capability in a workspace or none.      *)
Init ==
    /\ \E member \in SUBSET (Users \X Workspaces) :
          grant = {<<m[1], m[2], c>> : m \in member, c \in Capabilities}
    /\ up = TRUE
    /\ there = {"form", "submission"} \X Forms
    /\ kept = {"row", "versions"} \X Forms
    /\ request = [w \in Workers |-> Idle]
    /\ during = [w \in Workers |-> {}]
    /\ changes = 0

(* What is true after a step was true during every request in progress.    *)
Witnessed ==
    during' = [w \in Workers |-> IF request'[w] = Idle THEN {}
                                 ELSE (IF request[w] = Idle THEN {} ELSE during[w]) \cup {Moment'}]
-----------------------------------------------------------------------------
Arrive(w) ==
    /\ request[w] = Idle
    /\ \E user \in Users \cup {Anonymous}, ws \in Workspaces, f \in Forms, handler \in Handlers :
       \E body \in Bodies(handler) :
          request' = [request EXCEPT ![w] =
                         [step |-> "arrived", user |-> user, workspace |-> ws, form |-> f,
                          handler |-> handler, body |-> body, rows |-> {}, status |-> 0]]
    /\ UNCHANGED <<grant, up, there, kept, changes>>

Answered(w, status) ==
    request' = [request EXCEPT ![w] = [@ EXCEPT !.step = "answered", !.status = status]]

Asked(r) == <<r.user, r.workspace, CapabilityFor(r.handler)>>

(* Mutant of Verdict: a lookup that is not strict.                         *)
VerdictLenient(r) == IF up /\ Asked(r) \in grant THEN "allow" ELSE "deny"

(* authorize: an outage is no refusal.  (Nobody without a user id comes as *)
(* far as its other denial.)                                               *)
Verdict(r) ==
    IF ~up THEN "unavailable"
    ELSE IF Asked(r) \in grant THEN "allow" ELSE "deny"

(* permission_classes, before the handler runs.  (401 where the host's     *)
(* authentication challenges.)                                             *)
TurnAway(w) ==
    /\ request[w].step = "arrived" /\ request[w].user = Anonymous
    /\ Answered(w, 403)
    /\ UNCHANGED <<grant, up, there, kept, changes>>

(* _access_error, after the serializer that reads the workspace to ask     *)
(* about.                                                                  *)
Authorize(w) ==
    LET r == request[w] IN
    /\ r.step = "arrived" /\ r.user # Anonymous
    /\ IF r.body = "unreadable" THEN Answered(w, 400)
       ELSE CASE Verdict(r) = "deny"        -> Answered(w, 403)
              [] Verdict(r) = "unavailable" -> Answered(w, 503)
              [] Verdict(r) = "allow"       -> request' = [request EXCEPT ![w].step = "allowed"]
    /\ UNCHANGED <<grant, up, there, kept, changes>>

(* get_form and get_submission, of the workspace that was asked about.     *)
Finds(r) ==
    \/ r.handler \in WorkspaceWide
    \/ /\ HomeOf[r.form] = r.workspace
       /\ <<"form", r.form>> \in there
       /\ r.handler \in OfSubmission => <<"submission", r.form>> \in there

(* The forms a handler goes on with, as it loaded them.                    *)
RowsFor(r) ==
    IF r.handler = "list" THEN {f \in Forms : HomeOf[f] = r.workspace /\ <<"form", f>> \in there}
    ELSE IF r.handler \in OfForm THEN {r.form} ELSE {}

LoadRow(w) ==
    LET r == request[w] IN
    /\ r.step = "allowed"
    /\ IF Finds(r) THEN request' = [request EXCEPT ![w].step = "loaded", ![w].rows = RowsFor(r)]
                   ELSE Answered(w, 404)
    /\ UNCHANGED <<grant, up, there, kept, changes>>

(* The rows it loaded may be destroyed by now.  A write fails without the  *)
(* row: save(update_fields) updates none, publish gets none.  The active   *)
(* version is looked up when it is shown, unless there was none.           *)
WriteFails(r) == r.handler \in Writers /\ <<"row", r.form>> \notin kept

ShowMayFail(r) == r.handler \in Presenters /\ \E f \in r.rows : <<"versions", f>> \notin kept

(* A question nobody published, for all that form_answer_slugs can tell.   *)
QuestionGone(r) == r.body = "scoped" /\ <<"versions", r.form>> \notin kept

(* The rest of the handler, on the rows it loaded.  It answers 500 for     *)
(* whatever is neither a FormsError nor of the framework.                  *)
Act(w) ==
    LET r == request[w] IN
    /\ r.step = "loaded"
    /\ \/ /\ r.body = "refused" \/ QuestionGone(r)
          /\ Answered(w, 400) /\ UNCHANGED there
       \/ /\ r.body = "malformed" \/ (r.body = "good" /\ (WriteFails(r) \/ ShowMayFail(r)))
          /\ Answered(w, 500) /\ UNCHANGED there
       \/ /\ r.body \in {"good", "scoped"} /\ ~QuestionGone(r) /\ ~WriteFails(r)
          /\ Answered(w, 200)
          /\ there' = there \ (CASE r.handler = "delete" -> {<<"form", r.form>>}
                                 [] r.handler = "delete_submission" -> {<<"submission", r.form>>}
                                 [] OTHER -> {})
    /\ UNCHANGED <<grant, up, kept, changes>>

Leave(w) ==
    /\ request[w].step = "answered"
    /\ request' = [request EXCEPT ![w] = Idle]
    /\ UNCHANGED <<grant, up, there, kept, changes>>

(* A membership is given or taken away, the service comes or goes, a       *)
(* request that is not followed here deletes a form or a submission, or    *)
(* purge_deleted_forms empties the trash: submissions and versions first,  *)
(* and the form's own row, unless it stops before.  (At once, where        *)
(* RETENTION_DAYS is None.)                                                *)
Elsewhere ==
    /\ changes < MaxChanges
    /\ changes' = changes + 1
    /\ \/ \E user \in Users, ws \in Workspaces, c \in Capabilities :
             /\ grant' = IF <<user, ws, c>> \in grant THEN grant \ {<<user, ws, c>>}
                                                      ELSE grant \cup {<<user, ws, c>>}
             /\ UNCHANGED <<up, there, kept>>
       \/ up' = ~up /\ UNCHANGED <<grant, there, kept>>
       \/ \E row \in there : there' = there \ {row} /\ UNCHANGED <<grant, up, kept>>
       \/ \E f \in Forms, lost \in {{"versions"}, {"versions", "row"}} :
             /\ <<"form", f>> \notin there
             /\ there' = there \ {<<"submission", f>>}
             /\ kept' = kept \ (lost \X {f})
             /\ UNCHANGED <<grant, up>>
    /\ UNCHANGED request

Next ==
    /\ \/ \E w \in Workers :
             \/ Arrive(w) \/ TurnAway(w) \/ Authorize(w)
             \/ LoadRow(w) \/ Act(w) \/ Leave(w)
       \/ Elsewhere
    /\ Witnessed

Spec == Init /\ [][Next]_vars
-----------------------------------------------------------------------------
(***************************************************************************)
(* Properties                                                              *)
(***************************************************************************)

(* The row a request is about lies in its workspace and is there.          *)
Within(r, moment) ==
    r.handler \in WorkspaceWide \/
       /\ HomeOf[r.form] = r.workspace
       /\ <<"form", r.form>> \in moment.there
       /\ r.handler \in OfSubmission => <<"submission", r.form>> \in moment.there

(* A form of the request's workspace that was there at one of these        *)
(* moments, and destroyed, its versions at least, at another.              *)
Destroyed(r, moments) ==
    \E f \in Forms : /\ HomeOf[f] = r.workspace
                     /\ \E m \in moments : <<"form", f>> \in m.there
                     /\ \E m \in moments : <<"versions", f>> \notin m.kept

(* Every answer was true at some moment of its request, whatever changed   *)
(* around it.  Who is served, or told more than that their request names   *)
(* no workspace, had the capability in the row's own workspace, and the    *)
(* row was there, its form not in the trash.  An anonymous caller learns   *)
(* nothing but that.  403 means the service did not know the capability,   *)
(* never that it did not answer; 503 that it did not; 404 that the row was *)
(* not there for that workspace; and a well-formed request fails with 500, *)
(* or is told that a question it knows does not exist, only if a form was  *)
(* there and destroyed in the course of it.                                *)
AnswersAreTrue ==
    \A w \in Workers : request[w].step = "answered" =>
       LET r == request[w]
           granted == \E m \in during[w] : m.up /\ Asked(r) \in m.grant
           within == \E m \in during[w] : Within(r, m)
       IN
       /\ r.user = Anonymous => r.status = 403
       /\ r.status \in {200, 500} \/ (r.status = 400 /\ r.body # "unreadable") => granted /\ within
       /\ r.status = 403 => r.user = Anonymous \/ \E m \in during[w] : m.up /\ Asked(r) \notin m.grant
       /\ r.status = 503 => \E m \in during[w] : ~m.up
       /\ r.status = 404 => granted /\ \E m \in during[w] : ~Within(r, m)
       /\ (r.status = 500 /\ r.body = "good") \/ (r.status = 400 /\ r.body = "scoped")
             => Destroyed(r, during[w])
=============================================================================
