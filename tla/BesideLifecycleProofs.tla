------------------------ MODULE BesideLifecycleProofs ------------------------
(***************************************************************************)
(* Theorems about what runs beside the authoring requests: the visitors of *)
(* Intake and the staff of AdminSite, for any number of visitors, authors, *)
(* forms and schemas.  Each is a specification of its own; what they share *)
(* is the invariant of the requests in FormLifecycleProofs.                *)
(***************************************************************************)
EXTENDS Intake, AdminSite, FormLifecycleProofs
-----------------------------------------------------------------------------
(***************************************************************************)
(* Visitors: what is stored, with the grace window open or shut            *)
(*                                                                         *)
(* A visitor's version was active at some time, and the active version     *)
(* only grows: so the echoed version never exceeds the cached one, nor the *)
(* cached one the active one.  That bounds what _within_grace can let      *)
(* through, whatever is published after resolve_public.                    *)
(***************************************************************************)
Past(v) == visit[v].step \in {"resolved", "graced", "counted"}

EchoNotAhead ==
    \A v \in Visitors : visit[v] # Away =>
       /\ visit[v].echo <= form[visit[v].form].active
       /\ Past(v) => /\ visit[v].active \in 1..form[visit[v].form].active
                     /\ visit[v].echo <= visit[v].active

OneBehind(e, n) == Grace /\ e + 1 = n

VersionChecked ==
    \A v \in Visitors :
       /\ visit[v].step = "graced" => OneBehind(visit[v].echo, visit[v].active)
       /\ visit[v].step = "counted" =>
             visit[v].echo \in {0, visit[v].active} \/ OneBehind(visit[v].echo, visit[v].active)

StoredVersionExists == \A s \in submission : s.version \in 1..form[s.form].active

IntakeInv ==
    /\ IInv
    /\ IntakeTypeOK
    /\ EchoNotAhead
    /\ VersionChecked
    /\ StoredVersionExists
    /\ StoredWithinGrace
    /\ AnswersFitTheirVersion
-----------------------------------------------------------------------------
LEMMA AwayIsNoVisit == Away \notin Visit /\ Away.step = "away"
  BY DEF Away, Visit

(* The table of versions is append-only, so the active version only grows. *)
LEMMA VersionsOnlyGrow ==
    ASSUME IInv, [Next]_vars
    PROVE  version \subseteq version'
<1>1. CASE UNCHANGED vars
  BY <1>1 DEF vars
<1>2. ASSUME NEW f \in Forms, CreateForm(f) PROVE version \subseteq version'
  BY <1>2 DEF CreateForm
<1>3. ASSUME NEW w \in Workers, NEW f \in Forms, NEW op \in Requested, Load(w, f, op)
      PROVE version \subseteq version'
  BY <1>3 DEF Load
<1>4. ASSUME NEW w \in Workers, Step(w) PROVE version \subseteq version'
  BY <1>4 DEF Step, UpdateForm, SaveDraft, PublishViewSave, RotateLink, DeleteForm,
         CountOpenForms, SetState, LockRow, CommitPublish, Refuse, Crash
<1> QED BY <1>1, <1>2, <1>3, <1>4 DEF Next

LEMMA ActiveOnlyGrows ==
    ASSUME IInv, IInv', version \subseteq version', NEW f \in Forms
    PROVE  /\ form[f].active \in Nat /\ form'[f].active \in Nat
           /\ form[f].active <= form'[f].active
<1>1. form[f].active \in Nat /\ form'[f].active \in Nat
  BY DEF IInv, TypeOK, Row
<1>2. Ordinals(f) = 1..form[f].active /\ Ordinals(f)' = 1..form'[f].active
  BY DEF IInv, VersionsUpToActive
<1>3. Ordinals(f) \subseteq Ordinals(f)'
  BY DEF Ordinals
<1>4. 1..form[f].active \subseteq 1..form'[f].active
  BY <1>2, <1>3
<1>5. CASE form[f].active = 0
  BY <1>1, <1>5
<1>6. CASE form[f].active # 0
  <2>1. form[f].active \in 1..form[f].active
    BY <1>1, <1>6
  <2> QED BY <1>1, <1>4, <2>1
<1> QED BY <1>1, <1>5, <1>6

(* A frozen schema stays what it is. *)
LEMMA SchemaFixed ==
    ASSUME IInv, IInv', version \subseteq version', NEW f \in Forms, NEW n \in 1..form[f].active
    PROVE  SchemaOf(f, n)' = SchemaOf(f, n)
<1>1. PICK u \in version : u.form = f /\ u.version = n
  <2>1. Ordinals(f) = 1..form[f].active
    BY DEF IInv, VersionsUpToActive
  <2> QED BY <2>1 DEF Ordinals
<1>2. SchemaOf(f, n) = u.schema
  BY <1>1 DEF IInv, VersionsUpToActive, SchemaOf
<1>3. u \in version' /\ \A a, b \in version' : a.form = b.form /\ a.version = b.version => a = b
  BY DEF IInv, VersionsUpToActive
<1>4. SchemaOf(f, n)' = u.schema
  BY <1>1, <1>3 DEF SchemaOf
<1> QED BY <1>2, <1>4

LEMMA IntakeInvInit == IntakeInit => IntakeInv
  BY IInvInit, AwayIsNoVisit
     DEF IntakeInit, IntakeInv, IntakeTypeOK, EchoNotAhead, VersionChecked,
         StoredVersionExists, StoredWithinGrace, AnswersFitTheirVersion

(* What _within_grace lets through is one version behind: the active one   *)
(* at the time of the query is still the cached one.                       *)
LEMMA GraceIsOneBehind ==
    ASSUME IInv, NEW p, p.form \in Forms, p.echo \in Nat, p.active \in 1..form[p.form].active,
           p.echo <= p.active, WithinGrace(p)
    PROVE  OneBehind(p.echo, p.active)
<1>1. Ordinals(p.form) = 1..form[p.form].active /\ form[p.form].active \in Nat
  BY DEF IInv, VersionsUpToActive, TypeOK, Row
<1>2. p.echo \in 1..form[p.form].active /\ p.echo # p.active
  BY <1>1 DEF WithinGrace
<1>3. p.active - 1 \in 1..form[p.form].active /\ p.active - 1 # p.active
  BY <1>1, <1>2
<1>4. p.active - 1 <= p.echo
  BY <1>1, <1>3 DEF WithinGrace
<1> QED BY <1>2, <1>4 DEF OneBehind, WithinGrace

(* The steps of the authors. *)
LEMMA AuthorStep ==
    ASSUME IntakeInv, [Next]_vars, UNCHANGED intakeVars
    PROVE  IntakeInv'
<1> USE DEF intakeVars
<1>1. IInv' /\ version \subseteq version'
  BY IInvNext, VersionsOnlyGrow DEF IntakeInv
<1>2. \A f \in Forms : /\ form[f].active \in Nat /\ form'[f].active \in Nat
                       /\ form[f].active <= form'[f].active
  BY <1>1, ActiveOnlyGrows DEF IntakeInv
<1>3. IntakeTypeOK' /\ VersionChecked' /\ StoredWithinGrace'
  BY DEF IntakeInv, IntakeTypeOK, VersionChecked, StoredWithinGrace
<1>4. EchoNotAhead'
  <2>1. SUFFICES ASSUME NEW v \in Visitors, visit[v] # Away
                 PROVE  /\ visit[v].echo <= form'[visit[v].form].active
                        /\ Past(v) => /\ visit[v].active \in 1..form'[visit[v].form].active
                                      /\ visit[v].echo <= visit[v].active
    BY DEF EchoNotAhead, Past
  <2>2. visit[v].form \in Forms /\ visit[v].echo \in Nat /\ visit[v].active \in Nat
    BY <2>1 DEF IntakeInv, IntakeTypeOK, Visit
  <2>3. /\ visit[v].echo <= form[visit[v].form].active
        /\ Past(v) => /\ visit[v].active \in 1..form[visit[v].form].active
                      /\ visit[v].echo <= visit[v].active
    BY <2>1 DEF IntakeInv, EchoNotAhead
  <2> QED BY <1>2, <2>2, <2>3
<1>5. \A s \in submission : s.form \in Forms /\ s.version \in 1..form[s.form].active
  BY DEF IntakeInv, IntakeTypeOK, Submission, StoredVersionExists
<1>6. StoredVersionExists'
  BY <1>2, <1>5 DEF StoredVersionExists
<1>7. AnswersFitTheirVersion'
  <2>1. \A s \in submission : SchemaOf(s.form, s.version)' = SchemaOf(s.form, s.version)
    BY <1>1, <1>5, SchemaFixed DEF IntakeInv
  <2> QED BY <2>1 DEF IntakeInv, AnswersFitTheirVersion
<1> QED BY <1>1, <1>3, <1>4, <1>6, <1>7 DEF IntakeInv

(* The steps of one visitor that store nothing.                            *)
LEMMA VisitStep ==
    ASSUME IntakeInv, UNCHANGED vars, NEW v \in Visitors,
           (\E f \in Forms : Render(v, f)) \/ Resolve(v) \/ PassGrace(v)
              \/ CountSubmissions(v) \/ TurnAway(v) \/ Leave(v)
    PROVE  IntakeInv'
<1> USE AwayIsNoVisit
<1>1. UNCHANGED <<form, version, lock, req, published, closed, submission>>
  BY DEF vars, Render, Resolve, PassGrace, CountSubmissions, TurnAway, Leave
<1>2. IInv'
  BY IInvNext DEF IntakeInv
<1>3. StoredVersionExists' /\ StoredWithinGrace' /\ AnswersFitTheirVersion'
  BY <1>1 DEF IntakeInv, StoredVersionExists, StoredWithinGrace, AnswersFitTheirVersion, SchemaOf
<1>4. \A f \in Forms : form[f].active \in Nat
  BY DEF IntakeInv, IInv, TypeOK, Row
<1>5. visit[v] # Away => /\ visit[v] \in Visit /\ visit[v].form \in Forms
                         /\ visit[v].echo \in Nat /\ visit[v].active \in Nat
  BY DEF IntakeInv, IntakeTypeOK, Visit
<1> DEFINE p == visit'[v]
<1>6. \A u \in Visitors : u # v => visit'[u] = visit[u]
  BY DEF IntakeInv, IntakeTypeOK, Render, Resolve, PassGrace, CountSubmissions, TurnAway, Leave
<1>7. /\ p \in Visit \cup {Away} /\ visit' \in [Visitors -> Visit \cup {Away}]
      /\ p # Away =>
           /\ p.echo <= form[p.form].active
           /\ p.step \in {"resolved", "graced", "counted"} =>
                 p.active \in 1..form[p.form].active /\ p.echo <= p.active
      /\ p.step = "graced" => OneBehind(p.echo, p.active)
      /\ p.step = "counted" => p.echo \in {0, p.active} \/ OneBehind(p.echo, p.active)
  <2>1. CASE \E f \in Forms : Render(v, f)
    <3>1. PICK f \in Forms : Render(v, f)
      BY <2>1
    <3>2. PICK a \in Answers, e \in {0, form[f].active} :
             visit' = [visit EXCEPT ![v] =
                        [step |-> "rendered", form |-> f, handle |-> form[f].handle,
                         echo |-> e, answers |-> a, active |-> 0]]
      BY <3>1 DEF Render
    <3>3. p = [step |-> "rendered", form |-> f, handle |-> form[f].handle,
               echo |-> e, answers |-> a, active |-> 0]
      BY <3>2 DEF IntakeInv, IntakeTypeOK
    <3>4. form[f].handle \in Nat /\ e \in Nat /\ e <= form[f].active
      BY <1>4 DEF IntakeInv, IInv, TypeOK, Row
    <3>5. p \in Visit
      BY <3>3, <3>4 DEF Visit
    <3> QED BY <3>2, <3>3, <3>4, <3>5 DEF IntakeInv, IntakeTypeOK
  <2>2. CASE Resolve(v)
    <3>1. visit[v] # Away
      BY <2>2 DEF Resolve
    <3>2. p = [visit[v] EXCEPT !.step = "resolved", !.active = form[visit[v].form].active]
      BY <2>2 DEF Resolve, IntakeInv, IntakeTypeOK
    <3>3. /\ p \in Visit /\ p.step = "resolved" /\ p.form = visit[v].form
          /\ p.echo = visit[v].echo /\ p.active = form[visit[v].form].active
      BY <1>4, <1>5, <3>1, <3>2 DEF Visit
    <3>4. form[visit[v].form].active # 0
      BY <2>2 DEF Resolve, Resolvable
    <3>5. visit[v].echo <= form[visit[v].form].active
      BY <3>1 DEF IntakeInv, EchoNotAhead
    <3>6. visit' \in [Visitors -> Visit \cup {Away}]
      BY <2>2, <3>3 DEF Resolve, IntakeInv, IntakeTypeOK
    <3> QED BY <1>4, <1>5, <3>1, <3>3, <3>4, <3>5, <3>6
  <2>3. CASE PassGrace(v)
    <3>1. visit[v] # Away /\ Past(v)
      BY <2>3 DEF PassGrace, Past
    <3>2. p = [visit[v] EXCEPT !.step = "graced"]
      BY <2>3 DEF PassGrace, IntakeInv, IntakeTypeOK
    <3>3. /\ p \in Visit /\ p.step = "graced" /\ p.form = visit[v].form
          /\ p.echo = visit[v].echo /\ p.active = visit[v].active
      BY <1>5, <3>1, <3>2 DEF Visit
    <3>4. /\ visit[v].echo <= form[visit[v].form].active /\ visit[v].echo <= visit[v].active
          /\ visit[v].active \in 1..form[visit[v].form].active
      BY <3>1 DEF IntakeInv, EchoNotAhead
    <3>5. OneBehind(visit[v].echo, visit[v].active)
      BY <1>5, <2>3, <3>1, <3>4, GraceIsOneBehind DEF PassGrace, IntakeInv
    <3>6. visit' \in [Visitors -> Visit \cup {Away}]
      BY <2>3, <3>3 DEF PassGrace, IntakeInv, IntakeTypeOK
    <3> QED BY <3>3, <3>4, <3>5, <3>6
  <2>4. CASE CountSubmissions(v)
    <3>1. visit[v] # Away /\ Past(v)
      BY <2>4 DEF CountSubmissions, VersionAccepted, Past
    <3>2. p = [visit[v] EXCEPT !.step = "counted"]
      BY <2>4 DEF CountSubmissions, IntakeInv, IntakeTypeOK
    <3>3. /\ p \in Visit /\ p.step = "counted" /\ p.form = visit[v].form
          /\ p.echo = visit[v].echo /\ p.active = visit[v].active
      BY <1>5, <3>1, <3>2 DEF Visit
    <3>4. /\ visit[v].echo <= form[visit[v].form].active /\ visit[v].echo <= visit[v].active
          /\ visit[v].active \in 1..form[visit[v].form].active
      BY <3>1 DEF IntakeInv, EchoNotAhead
    <3>5. visit[v].echo \in {0, visit[v].active} \/ OneBehind(visit[v].echo, visit[v].active)
      BY <2>4 DEF CountSubmissions, VersionAccepted, SameVersion, IntakeInv, VersionChecked
    <3>6. visit' \in [Visitors -> Visit \cup {Away}]
      BY <2>4, <3>3 DEF CountSubmissions, IntakeInv, IntakeTypeOK
    <3> QED BY <3>3, <3>4, <3>5, <3>6
  <2>5. CASE TurnAway(v) \/ Leave(v)
    BY <2>5 DEF TurnAway, Leave, IntakeInv, IntakeTypeOK
  <2> QED BY <2>1, <2>2, <2>3, <2>4, <2>5
<1>8. IntakeTypeOK'
  BY <1>1, <1>7 DEF IntakeInv, IntakeTypeOK
<1>9. EchoNotAhead'
  BY <1>1, <1>6, <1>7 DEF IntakeInv, EchoNotAhead, Past
<1>10. VersionChecked'
  BY <1>6, <1>7 DEF IntakeInv, VersionChecked
<1> QED BY <1>2, <1>3, <1>8, <1>9, <1>10 DEF IntakeInv

(* The INSERT.                                                             *)
LEMMA StoreStep ==
    ASSUME IntakeInv, UNCHANGED vars, NEW v \in Visitors, Store(v)
    PROVE  IntakeInv'
<1> USE AwayIsNoVisit
<1> DEFINE p == visit[v]
<1>1. UNCHANGED <<form, version>> /\ IInv'
  BY IInvNext DEF IntakeInv, vars
<1>2. p # Away /\ p.step = "counted" /\ p \in Visit /\ Past(v)
  BY DEF Store, IntakeInv, IntakeTypeOK, Past
<1>3. PICK id \in SubmissionIds :
         submission' = submission \cup
            {[id |-> id, form |-> p.form, version |-> StoredVersion(p),
              answers |-> p.answers, echo |-> p.echo]}
  BY DEF Store
<1> DEFINE s == [id |-> id, form |-> p.form, version |-> p.active,
                 answers |-> p.answers, echo |-> p.echo]
<1>4. submission' = submission \cup {s} /\ s \in Submission
  BY <1>2, <1>3 DEF StoredVersion, Submission, Visit
<1>5. s.version \in 1..form[s.form].active
  BY <1>2 DEF IntakeInv, EchoNotAhead
<1>6. s.echo \in {0, s.version} \/ (Grace /\ s.echo + 1 = s.version)
  BY <1>2 DEF IntakeInv, VersionChecked, OneBehind
<1>7. s.answers \in Fits[SchemaOf(s.form, s.version)]
  BY DEF Store, Valid
<1>8. /\ visit' \in [Visitors -> Visit \cup {Away}]
      /\ \A u \in Visitors : visit'[u] = IF u = v THEN Away ELSE visit[u]
  BY DEF Store, IntakeInv, IntakeTypeOK
<1> HIDE DEF s, p
<1>9. IntakeTypeOK'
  BY <1>4, <1>8 DEF IntakeInv, IntakeTypeOK
<1>10. EchoNotAhead' /\ VersionChecked'
  BY <1>1, <1>8 DEF IntakeInv, EchoNotAhead, Past, VersionChecked
<1>11. StoredVersionExists' /\ StoredWithinGrace'
  BY <1>1, <1>4, <1>5, <1>6 DEF IntakeInv, StoredVersionExists, StoredWithinGrace
<1>12. AnswersFitTheirVersion'
  <2>1. \A f, n : SchemaOf(f, n)' = SchemaOf(f, n)
    BY <1>1 DEF SchemaOf
  <2> QED BY <1>4, <1>7, <2>1 DEF IntakeInv, AnswersFitTheirVersion
<1> QED BY <1>1, <1>9, <1>10, <1>11, <1>12 DEF IntakeInv

LEMMA IntakeInvNext == IntakeInv /\ [IntakeNext]_allVars => IntakeInv'
<1> SUFFICES ASSUME IntakeInv, [IntakeNext]_allVars PROVE IntakeInv'
  OBVIOUS
<1>1. CASE UNCHANGED allVars
  BY <1>1, AuthorStep DEF allVars, intakeVars, vars
<1>2. CASE Next /\ UNCHANGED intakeVars
  BY <1>2, AuthorStep
<1>3. ASSUME UNCHANGED vars, NEW v \in Visitors, Visiting(v) PROVE IntakeInv'
  BY <1>3, VisitStep, StoreStep DEF Visiting
<1>4. ASSUME UNCHANGED vars, NEW s \in submission, DeleteSubmission(s) PROVE IntakeInv'
  <2>1. UNCHANGED <<form, version, visit>> /\ submission' \subseteq submission /\ IInv'
    BY <1>4, IInvNext DEF IntakeInv, DeleteSubmission, vars
  <2> QED BY <2>1 DEF IntakeInv, IntakeTypeOK, EchoNotAhead, Past, VersionChecked,
          StoredVersionExists, StoredWithinGrace, AnswersFitTheirVersion, SchemaOf
<1> QED BY <1>1, <1>2, <1>3, <1>4 DEF IntakeNext

THEOREM IntakeInduction == IntakeSpec => []IntakeInv
<1> QED BY IntakeInvInit, IntakeInvNext, PTL DEF IntakeSpec

(* Every variable of the public surface keeps its type.                    *)
THEOREM IntakeTypeCorrect == IntakeSpec => []IntakeTypeOK
<1>1. IntakeInv => IntakeTypeOK
  BY DEF IntakeInv
<1> QED BY <1>1, IntakeInduction, PTL

(* No race of publishes and submits stores answers more than one version   *)
(* away from the one they were given to.                                   *)
THEOREM AlwaysStoredWithinGrace == IntakeSpec => []StoredWithinGrace
<1>1. IntakeInv => StoredWithinGrace
  BY DEF IntakeInv
<1> QED BY <1>1, IntakeInduction, PTL

(* With the grace window shut, answers are stored under the version they   *)
(* were given to.                                                          *)
THEOREM StrictlyStored ==
    ASSUME ~Grace
    PROVE  IntakeSpec => []StoredUnderAnsweredVersion
<1>1. IntakeInv => StoredUnderAnsweredVersion
  BY DEF IntakeInv, StoredWithinGrace, StoredUnderAnsweredVersion
<1> QED BY <1>1, IntakeInduction, PTL

(* Stored answers fit the frozen schema they are stored under.             *)
THEOREM AnswersAlwaysFit == IntakeSpec => []AnswersFitTheirVersion
<1>1. IntakeInv => AnswersFitTheirVersion
  BY DEF IntakeInv
<1> QED BY <1>1, IntakeInduction, PTL

(* form.submission.received follows form.published of its version.         *)
THEOREM AlwaysReceivedAfterPublished == IntakeSpec => []ReceivedAfterPublished
<1>1. IntakeInv => ReceivedAfterPublished
  <2> SUFFICES ASSUME IntakeInv, NEW s \in submission
               PROVE  <<s.form, s.version>> \in published
    BY DEF ReceivedAfterPublished
  <2>1. s.form \in Forms /\ s.version \in 1..form[s.form].active
    BY DEF IntakeInv, IntakeTypeOK, Submission, StoredVersionExists
  <2>2. s.version \in Ordinals(s.form)
    BY <2>1 DEF IntakeInv, IInv, VersionsUpToActive
  <2> QED BY <2>2 DEF Ordinals, IntakeInv, IInv, EveryVersionAnnounced
<1> QED BY <1>1, IntakeInduction, PTL

(***************************************************************************)
(* The cap on submissions                                                  *)
(*                                                                         *)
(* A visitor that has counted holds a place until its INSERT: that makes   *)
(* the bound inductive.  A place is taken only while the form has room.    *)
(***************************************************************************)
Counted(f) == {v \in Visitors : visit[v].step = "counted" /\ visit[v].form = f}

PlacesBounded ==
    SubmissionCap > 0 => \A f \in Forms :
       Cardinality(SubmissionsOf(f)) + Cardinality(Counted(f)) + 1
          <= SubmissionCap + Cardinality(Visitors)

PlacesInv == IsFiniteSet(submission) /\ PlacesBounded

LEMMA FinitePlaces ==
    ASSUME IsFiniteSet(submission), NEW f
    PROVE  /\ IsFiniteSet(SubmissionsOf(f)) /\ Cardinality(SubmissionsOf(f)) \in Nat
           /\ IsFiniteSet(Counted(f)) /\ Cardinality(Counted(f)) \in Nat
           /\ Cardinality(Counted(f)) <= Cardinality(Visitors)
           /\ Cardinality(Visitors) \in Nat
<1>1. SubmissionsOf(f) \in SUBSET submission /\ Counted(f) \in SUBSET Visitors
  BY DEF SubmissionsOf, Counted
<1> QED BY <1>1, IntakeAssumption, FS_Subset, FS_CardinalityType

(* A step that neither stores nor counts frees places at most.             *)
LEMMA NoNewPlace ==
    ASSUME PlacesInv, submission' \subseteq submission,
           \A f \in Forms : Counted(f)' \subseteq Counted(f)
    PROVE  PlacesInv'
<1>1. IsFiniteSet(submission')
  BY FS_Subset DEF PlacesInv
<1>2. SUFFICES ASSUME SubmissionCap > 0, NEW f \in Forms
               PROVE  Cardinality(SubmissionsOf(f)') + Cardinality(Counted(f)') + 1
                         <= SubmissionCap + Cardinality(Visitors)
  BY <1>1 DEF PlacesInv, PlacesBounded
<1>3. SubmissionsOf(f)' \in SUBSET SubmissionsOf(f) /\ Counted(f)' \in SUBSET Counted(f)
  BY DEF SubmissionsOf
<1>4. /\ IsFiniteSet(SubmissionsOf(f)) /\ Cardinality(SubmissionsOf(f)) \in Nat
      /\ IsFiniteSet(Counted(f)) /\ Cardinality(Counted(f)) \in Nat
      /\ Cardinality(Visitors) \in Nat
  BY FinitePlaces DEF PlacesInv
<1>5. /\ Cardinality(SubmissionsOf(f)') <= Cardinality(SubmissionsOf(f))
      /\ Cardinality(SubmissionsOf(f)') \in Nat
  BY <1>3, <1>4, FS_Subset, FS_CardinalityType
<1>6. /\ Cardinality(Counted(f)') <= Cardinality(Counted(f))
      /\ Cardinality(Counted(f)') \in Nat
  BY <1>3, <1>4, FS_Subset, FS_CardinalityType
<1>7. Cardinality(SubmissionsOf(f)) + Cardinality(Counted(f)) + 1
         <= SubmissionCap + Cardinality(Visitors)
  BY <1>2 DEF PlacesInv, PlacesBounded
<1> QED BY <1>4, <1>5, <1>6, <1>7, IntakeAssumption

LEMMA CountTakesPlace ==
    ASSUME IntakeTypeOK, PlacesInv, NEW v \in Visitors, CountSubmissions(v)
    PROVE  PlacesInv'
<1> DEFINE p == visit[v]
<1>1. UNCHANGED submission /\ p.step # "counted" /\ p # Away
  BY DEF CountSubmissions, VersionAccepted, Away
<1>2. /\ visit'[v].step = "counted" /\ visit'[v].form = p.form
      /\ \A u \in Visitors : u # v => visit'[u] = visit[u]
  BY <1>1 DEF CountSubmissions, IntakeTypeOK, Visit
<1>3. SUFFICES ASSUME SubmissionCap > 0, NEW f \in Forms
               PROVE  Cardinality(SubmissionsOf(f)') + Cardinality(Counted(f)') + 1
                         <= SubmissionCap + Cardinality(Visitors)
  BY <1>1 DEF PlacesInv, PlacesBounded
<1>4. SubmissionsOf(f)' = SubmissionsOf(f)
  BY <1>1 DEF SubmissionsOf
<1>5. /\ Cardinality(SubmissionsOf(f)) \in Nat /\ Cardinality(Visitors) \in Nat
  BY FinitePlaces DEF PlacesInv
<1>6. CASE f = p.form
  <2>1. Cardinality(SubmissionsOf(f)) < SubmissionCap
    BY <1>3, <1>6 DEF CountSubmissions, RoomUnderCap
  <2>2. Counted(f)' \in SUBSET Visitors
    BY DEF Counted
  <2>3. Cardinality(Counted(f)') <= Cardinality(Visitors) /\ Cardinality(Counted(f)') \in Nat
    BY <2>2, IntakeAssumption, FS_Subset, FS_CardinalityType
  <2> QED BY <1>4, <1>5, <2>1, <2>3, IntakeAssumption
<1>7. CASE f # p.form
  <2>1. Counted(f)' = Counted(f)
    BY <1>1, <1>2, <1>7 DEF Counted
  <2> QED BY <1>3, <1>4, <2>1 DEF PlacesInv, PlacesBounded
<1> QED BY <1>6, <1>7

LEMMA StoreFillsPlace ==
    ASSUME IntakeTypeOK, PlacesInv, NEW v \in Visitors, Store(v)
    PROVE  PlacesInv'
<1> DEFINE p == visit[v]
<1>0. PICK id \in SubmissionIds :
         submission' = submission \cup
            {[id |-> id, form |-> p.form, version |-> StoredVersion(p),
              answers |-> p.answers, echo |-> p.echo]}
  BY DEF Store
<1> DEFINE s == [id |-> id, form |-> p.form, version |-> StoredVersion(p),
                 answers |-> p.answers, echo |-> p.echo]
<1>1. submission' = submission \cup {s} /\ s.form = p.form
  BY <1>0
<1> HIDE DEF s
<1>2. IsFiniteSet(submission')
  BY <1>1, FS_AddElement DEF PlacesInv
<1>3. /\ visit'[v] = Away /\ Away.step # "counted" /\ p.step = "counted"
      /\ \A u \in Visitors : u # v => visit'[u] = visit[u]
  BY DEF Store, IntakeTypeOK, Away
<1>4. SUFFICES ASSUME SubmissionCap > 0, NEW f \in Forms
               PROVE  Cardinality(SubmissionsOf(f)') + Cardinality(Counted(f)') + 1
                         <= SubmissionCap + Cardinality(Visitors)
  BY <1>2 DEF PlacesInv, PlacesBounded
<1>5. /\ IsFiniteSet(SubmissionsOf(f)) /\ Cardinality(SubmissionsOf(f)) \in Nat
      /\ IsFiniteSet(Counted(f)) /\ Cardinality(Counted(f)) \in Nat
      /\ Cardinality(Visitors) \in Nat
  BY FinitePlaces DEF PlacesInv
<1>6. Cardinality(SubmissionsOf(f)) + Cardinality(Counted(f)) + 1
         <= SubmissionCap + Cardinality(Visitors)
  BY <1>4 DEF PlacesInv, PlacesBounded
<1>7. CASE f # p.form
  <2>1. SubmissionsOf(f)' = SubmissionsOf(f)
    BY <1>1, <1>7 DEF SubmissionsOf
  <2>2. Counted(f)' = Counted(f)
    BY <1>3, <1>7 DEF Counted
  <2> QED BY <1>6, <2>1, <2>2
<1>8. CASE f = p.form
  <2>1. SubmissionsOf(f)' = SubmissionsOf(f) \cup {s}
    BY <1>1, <1>8 DEF SubmissionsOf
  <2>2. /\ Cardinality(SubmissionsOf(f)') <= Cardinality(SubmissionsOf(f)) + 1
        /\ Cardinality(SubmissionsOf(f)') \in Nat
    <3>1. /\ IsFiniteSet(SubmissionsOf(f) \cup {s})
          /\ \/ Cardinality(SubmissionsOf(f) \cup {s}) = Cardinality(SubmissionsOf(f))
             \/ Cardinality(SubmissionsOf(f) \cup {s}) = Cardinality(SubmissionsOf(f)) + 1
      BY <1>5, FS_AddElement
    <3> QED BY <1>5, <2>1, <3>1
  <2>3. v \in Counted(f) /\ Counted(f)' = Counted(f) \ {v}
    BY <1>3, <1>8 DEF Counted
  <2>4. Cardinality(Counted(f)') = Cardinality(Counted(f)) - 1 /\ Cardinality(Counted(f)') \in Nat
    BY <1>5, <2>3, FS_RemoveElement, FS_CardinalityType
  <2> QED BY <1>5, <1>6, <2>2, <2>4, IntakeAssumption
<1> QED BY <1>7, <1>8

LEMMA PlacesInit == IntakeInit => PlacesInv
<1> SUFFICES ASSUME IntakeInit PROVE PlacesInv
  OBVIOUS
<1>1. \A f \in Forms : SubmissionsOf(f) = {} /\ Counted(f) = {}
  BY AwayIsNoVisit DEF IntakeInit, SubmissionsOf, Counted
<1>2. IsFiniteSet(submission) /\ Cardinality({}) = 0 /\ Cardinality(Visitors) \in Nat
  BY FS_EmptySet, FS_CardinalityType, IntakeAssumption DEF IntakeInit
<1> QED BY <1>1, <1>2, IntakeAssumption DEF PlacesInv, PlacesBounded

LEMMA PlacesNext == IntakeTypeOK /\ PlacesInv /\ [IntakeNext]_allVars => PlacesInv'
<1> SUFFICES ASSUME IntakeTypeOK, PlacesInv, [IntakeNext]_allVars PROVE PlacesInv'
  OBVIOUS
<1>1. CASE UNCHANGED intakeVars
  BY <1>1, NoNewPlace DEF intakeVars, Counted
<1>2. ASSUME NEW v \in Visitors, Visiting(v) PROVE PlacesInv'
  <2>1. CASE CountSubmissions(v)
    BY <2>1, CountTakesPlace
  <2>2. CASE Store(v)
    BY <2>2, StoreFillsPlace
  <2>3. CASE (\E f \in Forms : Render(v, f)) \/ Resolve(v) \/ PassGrace(v) \/ TurnAway(v) \/ Leave(v)
    <3>1. /\ submission' = submission /\ visit'[v].step # "counted"
          /\ \A u \in Visitors : u # v => visit'[u] = visit[u]
      BY <2>3, AwayIsNoVisit
         DEF Render, Resolve, PassGrace, TurnAway, Leave, IntakeTypeOK, Visit
    <3>2. \A f \in Forms : Counted(f)' \subseteq Counted(f)
      BY <3>1 DEF Counted
    <3> QED BY <3>1, <3>2, NoNewPlace
  <2> QED BY <1>2, <2>1, <2>2, <2>3 DEF Visiting
<1>3. ASSUME NEW s \in submission, DeleteSubmission(s) PROVE PlacesInv'
  BY <1>3, NoNewPlace DEF DeleteSubmission, Counted
<1> QED BY <1>1, <1>2, <1>3 DEF IntakeNext, allVars, intakeVars

(* For any number of visitors in progress, MAX_SUBMISSIONS_PER_FORM is     *)
(* exceeded by less than their number.                                     *)
THEOREM SubmissionCapOvershootBounded == IntakeSpec => []SubmissionCapOvershoot
<1>1. PlacesInv => SubmissionCapOvershoot
  <2> SUFFICES ASSUME PlacesInv, SubmissionCap > 0, NEW f \in Forms
               PROVE  Cardinality(SubmissionsOf(f)) + 1 <= SubmissionCap + Cardinality(Visitors)
    BY DEF SubmissionCapOvershoot
  <2> QED BY FinitePlaces, IntakeAssumption DEF PlacesInv, PlacesBounded
<1> QED BY <1>1, PlacesInit, PlacesNext, IntakeTypeCorrect, PTL DEF IntakeSpec
-----------------------------------------------------------------------------
(***************************************************************************)
(* Staff: what a stranger is shown, and what the next publish makes of the *)
(* row, although staff save whole rows next to any number of requests.     *)
(*                                                                         *)
(* The invariant of FormLifecycleProofs does not hold here: a staff save   *)
(* may put back an active version that is no longer the newest, and open a *)
(* form that has none.  What survives is said of the table of versions and *)
(* of the requests that hold a row lock.                                   *)
(***************************************************************************)
Dense ==
    /\ \A f \in Forms : \E n \in Nat : Ordinals(f) = 1..n
    /\ \A u, v \in version : u.form = v.form /\ u.version = v.version => u = v

OnlyPublishable == \A v \in version : v.schema \in Publishable

(* The holder of a row lock knows the newest ordinal.                      *)
HeadUnderLock ==
    \A w \in Workers : req[w] # Idle /\ req[w].step = "locked" =>
       lock[req[w].form] = w /\ req[w].head = HeadVersion(req[w].form)

Points(row, f) == row.active \in Ordinals(f) \cup {0}

ActivePoints == \A f \in Forms : Points(form[f], f)

(* What the requests leave true, whatever staff do.                        *)
Ground ==
    /\ TypeOK
    /\ ValidatedWhenLocked
    /\ Dense
    /\ OnlyPublishable
    /\ HeadUnderLock
    /\ ActivePoints

Page == [step : {"shown", "posted"}, form : Forms, got : Row, seen : Row, state : States,
         settings : Settings \cup {None}, alone : BOOLEAN]

(* The instance of a POST may be old; the version it points to is there.   *)
StaffInv ==
    /\ staff \in Page \cup {NoPage}
    /\ staff.step = "posted" => Points(staff.seen, staff.form)

AdminInv == Ground /\ StaffInv
-----------------------------------------------------------------------------
LEMMA HeadIsNat ==
    ASSUME Dense
    PROVE  \A f \in Forms : HeadVersion(f) \in Nat /\ Ordinals(f) = 1..HeadVersion(f)
BY HeadOfDense DEF Dense

LEMMA PageType == NoPage \notin Page /\ NoPage.step = "none"
BY DEF NoPage, Page

(* A step that adds no version and repoints no form to another one.        *)
Calm == /\ version' = version
        /\ \A f \in Forms : form'[f].active \in {form[f].active, 0}

LEMMA CalmKeepsVersions ==
    ASSUME Ground, Calm
    PROVE  Dense' /\ OnlyPublishable' /\ ActivePoints'
<1>1. \A f \in Forms : Ordinals(f)' = Ordinals(f)
  BY DEF Calm, Ordinals
<1>2. Dense' /\ OnlyPublishable'
  BY <1>1 DEF Ground, Calm, Dense, OnlyPublishable
<1>3. ActivePoints'
  BY <1>1 DEF Ground, Calm, ActivePoints, Points
<1> QED BY <1>2, <1>3

(* The other requests keep what they know of their locks.                  *)
LEMMA OthersKeepLocks ==
    ASSUME Ground, version' = version, NEW w \in Workers,
           \A u \in Workers \ {w} : req'[u] = req[u],
           \A u \in Workers \ {w}, f \in Forms : lock[f] = u => lock'[f] = u,
           req'[w] = Idle \/ req'[w].step # "locked"
    PROVE  ValidatedWhenLocked' /\ HeadUnderLock'
<1>1. \A u \in Workers : req[u] # Idle => req[u].form \in Forms
  BY DEF Ground, TypeOK, Request
<1>2. \A f : HeadVersion(f)' = HeadVersion(f)
  BY DEF HeadVersion, Ordinals
<1>3. ValidatedWhenLocked'
  BY DEF Ground, ValidatedWhenLocked, CanPublish
<1>4. HeadUnderLock'
  BY <1>1, <1>2 DEF Ground, HeadUnderLock
<1> QED BY <1>3, <1>4

LEMMA GroundType == Ground /\ [Next]_vars => TypeOK'
BY HeadIsNat, TypeStep DEF Ground

LEMMA CreateGround ==
    ASSUME Ground, TypeOK', NEW f \in Forms, CreateForm(f)
    PROVE  Ground'
<1>1. PICK d \in Schemas \cup {None}, s \in Settings :
         form' = [form EXCEPT ![f] = [Blank EXCEPT !.life = "live", !.handle = 1,
                                                   !.draft = d, !.settings = s]]
  BY DEF CreateForm
<1>2. [Blank EXCEPT !.life = "live", !.handle = 1, !.draft = d, !.settings = s].active = 0
  BY DEF Blank
<1>3. Calm
  BY <1>1, <1>2 DEF CreateForm, Calm, Ground, TypeOK
<1>4. ValidatedWhenLocked' /\ HeadUnderLock'
  <2>1. req' = req /\ lock' = lock /\ version' = version
    BY DEF CreateForm
  <2>2. \A g : HeadVersion(g)' = HeadVersion(g)
    BY <2>1 DEF HeadVersion, Ordinals
  <2> QED BY <2>1, <2>2 DEF Ground, ValidatedWhenLocked, HeadUnderLock, CanPublish
<1> QED BY <1>3, <1>4, CalmKeepsVersions DEF Ground

LEMMA LoadGround ==
    ASSUME Ground, TypeOK', NEW w \in Workers, NEW f \in Forms, NEW op, Load(w, f, op)
    PROVE  Ground'
<1>1. PICK a \in Argument(op) :
         req' = [req EXCEPT ![w] = [op |-> op, form |-> f, arg |-> a, step |-> "loaded",
                                    seen |-> Instance(op, form[f]), head |-> 0]]
  BY DEF Load
<1>2. req'[w].step = "loaded" /\ \A u \in Workers \ {w} : req'[u] = req[u]
  BY <1>1 DEF Ground, TypeOK
<1>3. Calm /\ version' = version /\ lock' = lock
  BY DEF Load, Calm
<1>4. ValidatedWhenLocked' /\ HeadUnderLock'
  BY <1>2, <1>3, OthersKeepLocks
<1> QED BY <1>3, <1>4, CalmKeepsVersions DEF Ground

(* Every step of a request but the row lock and the commit.                *)
LEMMA OrdinaryGround ==
    ASSUME Ground, TypeOK', NEW w \in Workers,
           \/ UpdateForm(w) \/ SaveDraft(w) \/ PublishViewSave(w) \/ RotateLink(w)
           \/ DeleteForm(w) \/ CountOpenForms(w) \/ SetState(w) \/ Refuse(w) \/ Crash(w)
    PROVE  Ground'
<1> DEFINE r == req[w]
<1>0. Step(w)
  BY DEF Step
<1>1. r \in Request /\ r.form \in Forms
  BY <1>0, BusyType DEF Ground
<1>2. Calm
  BY <1>1 DEF Calm, UpdateForm, SaveDraft, PublishViewSave, RotateLink, DeleteForm,
              CountOpenForms, SetState, Refuse, Crash, Ground, TypeOK, Row
<1>3. \A u \in Workers \ {w} : req'[u] = req[u]
  BY DEF UpdateForm, SaveDraft, PublishViewSave, RotateLink, DeleteForm,
         CountOpenForms, SetState, Refuse, Crash, Done, Ground, TypeOK
<1>4. \A u \in Workers \ {w}, f \in Forms : lock[f] = u => lock'[f] = u
  BY DEF UpdateForm, SaveDraft, PublishViewSave, RotateLink, DeleteForm,
         CountOpenForms, SetState, Refuse, Crash
<1>5. req'[w] = Idle \/ req'[w].step # "locked"
  <2>1. CASE CountOpenForms(w)
    <3>1. req'[w] = [r EXCEPT !.step = "counted"]
      BY <2>1 DEF CountOpenForms, Ground, TypeOK
    <3> QED BY <1>1, <3>1 DEF Request
  <2>2. CASE PublishViewSave(w)
    BY <2>2 DEF PublishViewSave, Ground, TypeOK
  <2>3. CASE ~CountOpenForms(w) /\ ~PublishViewSave(w)
    BY <2>3 DEF UpdateForm, SaveDraft, RotateLink, DeleteForm, SetState, Refuse, Crash,
                Done, Ground, TypeOK
  <2> QED BY <2>1, <2>2, <2>3
<1>6. ValidatedWhenLocked' /\ HeadUnderLock'
  BY <1>2, <1>3, <1>4, <1>5, OthersKeepLocks DEF Calm
<1> QED BY <1>2, <1>6, CalmKeepsVersions DEF Ground

LEMMA LockRowGround ==
    ASSUME Ground, TypeOK', NEW w \in Workers, LockRow(w)
    PROVE  Ground'
<1> DEFINE r == req[w]
           q == [r EXCEPT !.step = "locked", !.head = HeadVersion(r.form)]
<1>0. Step(w)
  BY DEF Step
<1>1. r \in Request /\ r.form \in Forms
  BY <1>0, BusyType DEF Ground
<1>2. Calm /\ version' = version
  BY DEF LockRow, Calm
<1>3. \A u \in Workers : req'[u] = IF u = w THEN q ELSE req[u]
  BY DEF LockRow, Ground, TypeOK
<1>4. /\ q.op = "publish" /\ q.form = r.form /\ q.seen = r.seen
      /\ q.head = HeadVersion(r.form)
  BY <1>1 DEF LockRow, Serving, Request
<1> HIDE DEF q
<1>5. ValidatedWhenLocked'
  BY <1>3, <1>4 DEF LockRow, Ground, ValidatedWhenLocked, CanPublish
<1>6. HeadUnderLock'
  <2>1. lock'[r.form] = w
    BY <1>1 DEF LockRow, Ground, TypeOK
  <2>2. \A f \in Forms : lock[f] \in Workers => lock'[f] = lock[f]
    BY FormAssumption DEF LockRow, Unlocked, Ground, TypeOK
  <2>3. \A u \in Workers : req[u] # Idle => req[u].form \in Forms
    BY DEF Ground, TypeOK, Request
  <2>4. \A f : HeadVersion(f)' = HeadVersion(f)
    BY <1>2 DEF HeadVersion, Ordinals
  <2> QED BY <1>3, <1>4, <2>1, <2>2, <2>3, <2>4 DEF Ground, HeadUnderLock
<1> QED BY <1>2, <1>5, <1>6, CalmKeepsVersions DEF Ground

(* The commit: the ordinal after the newest, and the form repointed to it. *)
LEMMA CommitGround ==
    ASSUME Ground, TypeOK', NEW w \in Workers, CommitPublish(w)
    PROVE  Ground'
<1> DEFINE f == req[w].form
           n == req[w].head + 1
           v == [form |-> req[w].form, version |-> req[w].head + 1, schema |-> req[w].seen.draft]
<1>0. Step(w)
  BY DEF Step
<1>1. req[w] # Idle /\ req[w] \in Request /\ f \in Forms /\ req[w].step = "locked"
  BY <1>0, BusyType, IdleIsNoRequest DEF Ground, CommitPublish
<1>2. /\ n = HeadVersion(f) + 1 /\ HeadVersion(f) \in Nat /\ lock[f] = w
      /\ Ordinals(f) = 1..HeadVersion(f)
  BY <1>1, HeadIsNat DEF Ground, HeadUnderLock
<1>3. version' = version \cup {v} /\ v.form = f /\ v.version = n /\ v.schema \in Publishable
  BY <1>1 DEF CommitPublish, Ground, ValidatedWhenLocked, CanPublish
<1>4. \A g : Ordinals(g)' = IF g = f THEN Ordinals(g) \cup {n} ELSE Ordinals(g)
  BY <1>3 DEF Ordinals
<1>5. Dense'
  <2>1. \A g \in Forms : \E k \in Nat : Ordinals(g)' = 1..k
    <3>1. SUFFICES ASSUME NEW g \in Forms PROVE \E k \in Nat : Ordinals(g)' = 1..k
      OBVIOUS
    <3>2. CASE g # f
      <4>1. Ordinals(g)' = Ordinals(g)
        BY <1>4, <3>2
      <4> QED BY <4>1 DEF Ground, Dense
    <3>3. CASE g = f
      <4>1. Ordinals(g)' = (1..HeadVersion(f)) \cup {n}
        BY <1>2, <1>4, <3>3
      <4>2. (1..HeadVersion(f)) \cup {n} = 1..n /\ n \in Nat
        BY <1>2
      <4> QED BY <4>1, <4>2
    <3> QED BY <3>2, <3>3
  <2>2. \A u \in version : ~(u.form = f /\ u.version = n)
    BY DEF CommitPublish, Ordinals
  <2>3. \A u, x \in version' : u.form = x.form /\ u.version = x.version => u = x
    BY <1>3, <2>2 DEF Ground, Dense
  <2> QED BY <2>1, <2>3 DEF Dense
<1>6. OnlyPublishable'
  BY <1>3 DEF Ground, OnlyPublishable
<1>7. \A g \in Forms : form'[g].active = IF g = f THEN n ELSE form[g].active
  BY <1>1 DEF CommitPublish, Ground, TypeOK, Row
<1>8. ActivePoints'
  BY <1>4, <1>7 DEF Ground, ActivePoints, Points
<1>9. \A u \in Workers : req'[u] = IF u = w THEN Idle ELSE req[u]
  BY DEF CommitPublish, Done, Ground, TypeOK
<1>10. ValidatedWhenLocked'
  BY <1>9 DEF Ground, ValidatedWhenLocked, CanPublish
<1>11. HeadUnderLock'
  <2>1. \A g \in Forms : g # f => lock'[g] = lock[g]
    BY DEF CommitPublish, Ground, TypeOK
  <2>2. \A u \in Workers \ {w} : req[u] # Idle /\ req[u].step = "locked" => req[u].form # f
    BY <1>2 DEF Ground, HeadUnderLock
  <2>3. \A g : g # f => HeadVersion(g)' = HeadVersion(g)
    <3>1. SUFFICES ASSUME NEW g, g # f PROVE HeadVersion(g)' = HeadVersion(g)
      OBVIOUS
    <3>2. Ordinals(g)' = Ordinals(g)
      BY <1>4, <3>1
    <3> QED BY <3>2 DEF HeadVersion
  <2>4. \A u \in Workers : req[u] # Idle => req[u].form \in Forms
    BY DEF Ground, TypeOK, Request
  <2> QED BY <1>9, <2>1, <2>2, <2>3, <2>4 DEF Ground, HeadUnderLock
<1> QED BY <1>5, <1>6, <1>8, <1>10, <1>11 DEF Ground

(* A request keeps the ground, and takes no version away.                  *)
LEMMA RequestsKeepGround ==
    ASSUME Ground, Next
    PROVE  Ground' /\ version \subseteq version'
<1>1. TypeOK'
  BY GroundType
<1>2. CASE \E f \in Forms : CreateForm(f)
  BY <1>1, <1>2, CreateGround DEF CreateForm
<1>3. CASE \E w \in Workers, f \in Forms, op \in Requested : Load(w, f, op)
  BY <1>1, <1>3, LoadGround DEF Load
<1>4. CASE \E w \in Workers : Step(w)
  <2>1. PICK w \in Workers : Step(w)
    BY <1>4
  <2>2. Ground'
    BY <1>1, <2>1, OrdinaryGround, LockRowGround, CommitGround DEF Step
  <2>3. version \subseteq version'
    BY <2>1 DEF Step, UpdateForm, SaveDraft, PublishViewSave, RotateLink, DeleteForm,
                CountOpenForms, SetState, LockRow, CommitPublish, Refuse, Crash
  <2> QED BY <2>2, <2>3
<1> QED BY <1>2, <1>3, <1>4 DEF Next
-----------------------------------------------------------------------------
(* The steps of the change page that write nothing.                        *)
LEMMA StillGround ==
    ASSUME Ground, UNCHANGED vars
    PROVE  Ground' /\ \A f : Ordinals(f)' = Ordinals(f)
<1>1. \A f : Ordinals(f)' = Ordinals(f) /\ HeadVersion(f)' = HeadVersion(f)
  BY DEF vars, Ordinals, HeadVersion
<1>2. TypeOK' /\ ValidatedWhenLocked' /\ OnlyPublishable'
  BY DEF vars, Ground, TypeOK, ValidatedWhenLocked, CanPublish, OnlyPublishable
<1>3. Dense' /\ HeadUnderLock' /\ ActivePoints'
  BY <1>1 DEF vars, Ground, Dense, HeadUnderLock, ActivePoints, Points
<1> QED BY <1>1, <1>2, <1>3 DEF Ground

LEMMA ElsewhereStep ==
    ASSUME AdminInv, Elsewhere
    PROVE  AdminInv'
<1>1. Ground' /\ version \subseteq version'
  BY RequestsKeepGround DEF AdminInv, Elsewhere
<1>2. \A f : Ordinals(f) \subseteq Ordinals(f)'
  BY <1>1 DEF Ordinals
<1>3. CASE staff' = staff
  BY <1>1, <1>2, <1>3 DEF AdminInv, StaffInv, Points
<1>4. CASE staff.step = "posted" /\ staff' = [staff EXCEPT !.alone = FALSE]
  <2>1. staff \in Page
    BY <1>4, PageType DEF AdminInv, StaffInv
  <2>2. staff' \in Page /\ staff'.seen = staff.seen /\ staff'.form = staff.form
    BY <1>4, <2>1 DEF Page
  <2> QED BY <1>1, <1>2, <1>4, <2>2 DEF AdminInv, StaffInv, Points
<1> QED BY <1>3, <1>4 DEF Elsewhere

LEMMA ShowStep ==
    ASSUME AdminInv, NEW f \in Forms, ShowChangePage(f)
    PROVE  AdminInv'
<1>1. Ground'
  BY StillGround DEF AdminInv, ShowChangePage
<1>2. form[f] \in Row /\ form[f].state \in States /\ form[f].settings \in Settings \cup {None}
  BY DEF AdminInv, Ground, TypeOK, Row
<1>3. staff' \in Page /\ staff'.step = "shown"
  BY <1>2, BlankType DEF ShowChangePage, Page
<1> QED BY <1>1, <1>3 DEF AdminInv, StaffInv

LEMMA PostStep ==
    ASSUME AdminInv, PostChangePage
    PROVE  AdminInv'
<1>1. Ground' /\ \A f : Ordinals(f)' = Ordinals(f)
  BY StillGround DEF AdminInv, PostChangePage
<1>2. staff \in Page
  BY PageType DEF AdminInv, StaffInv, PostChangePage
<1>3. PICK c \in Chosen :
         staff' = [staff EXCEPT !.step = "posted", !.got = Blank, !.seen = form[staff.form],
                                !.state = c[1], !.settings = c[2]]
  BY DEF PostChangePage
<1>4. /\ c[1] \in States /\ c[2] \in Settings \cup {None}
      /\ staff.form \in Forms /\ form[staff.form] \in Row
  BY <1>2 DEF Chosen, Page, AdminInv, Ground, TypeOK
<1>5. staff' \in Page /\ staff'.form = staff.form /\ staff'.seen = form[staff.form]
  BY <1>2, <1>3, <1>4, BlankType DEF Page
<1>6. Points(form[staff.form], staff.form)
  BY <1>4 DEF AdminInv, Ground, ActivePoints
<1> QED BY <1>1, <1>5, <1>6 DEF AdminInv, StaffInv, Points

(* The save writes no version and no lock; the row it writes points to one *)
(* of the versions that are there.                                         *)
LEMMA SaveStep ==
    ASSUME AdminInv, SaveModel
    PROVE  AdminInv'
<1> DEFINE f == staff.form
           row == [staff.seen EXCEPT !.state = staff.state, !.settings = staff.settings]
<1>1. staff \in Page /\ Points(staff.seen, f)
  BY PageType DEF AdminInv, StaffInv, SaveModel
<1>2. f \in Forms /\ row \in Row /\ row.active = staff.seen.active
  BY <1>1 DEF Page, Row
<1>3. form' = [form EXCEPT ![f] = row]
  BY DEF SaveModel
<1> HIDE DEF f, row
<1>4. \A g : Ordinals(g)' = Ordinals(g) /\ HeadVersion(g)' = HeadVersion(g)
  BY DEF SaveModel, Ordinals, HeadVersion
<1>5. TypeOK'
  BY <1>2, <1>3 DEF SaveModel, AdminInv, Ground, TypeOK
<1>6. ValidatedWhenLocked' /\ OnlyPublishable'
  BY DEF SaveModel, AdminInv, Ground, ValidatedWhenLocked, CanPublish, OnlyPublishable
<1>7. Dense' /\ HeadUnderLock'
  BY <1>4 DEF SaveModel, AdminInv, Ground, Dense, HeadUnderLock
<1>8. ActivePoints'
  BY <1>1, <1>2, <1>3, <1>4 DEF AdminInv, Ground, TypeOK, ActivePoints, Points
<1>9. StaffInv'
  BY PageType DEF SaveModel, StaffInv
<1> QED BY <1>5, <1>6, <1>7, <1>8, <1>9 DEF AdminInv, Ground

LEMMA AdminInvNext == AdminInv /\ [AdminNext]_adminVars => AdminInv'
<1> SUFFICES ASSUME AdminInv, [AdminNext]_adminVars PROVE AdminInv'
  OBVIOUS
<1>1. CASE Elsewhere
  BY <1>1, ElsewhereStep
<1>2. CASE \E f \in Forms : ShowChangePage(f)
  BY <1>2, ShowStep
<1>3. CASE PostChangePage
  BY <1>3, PostStep
<1>4. CASE SaveModel
  BY <1>4, SaveStep
<1>5. CASE LeavePage
  <2>1. Ground' /\ staff' = NoPage
    BY <1>5, StillGround DEF AdminInv, LeavePage
  <2> QED BY <2>1, PageType DEF AdminInv, StaffInv
<1>6. CASE UNCHANGED adminVars
  <2>1. UNCHANGED vars /\ staff' = staff
    BY <1>6 DEF adminVars, vars
  <2>2. Ground' /\ \A f : Ordinals(f)' = Ordinals(f)
    BY <2>1, StillGround DEF AdminInv
  <2> QED BY <2>1, <2>2 DEF AdminInv, StaffInv, Points
<1> QED BY <1>1, <1>2, <1>3, <1>4, <1>5, <1>6 DEF AdminNext

LEMMA AdminInduction == AdminSpec => []AdminInv
<1>1. AdminInit => AdminInv
  <2> SUFFICES ASSUME AdminInit PROVE AdminInv
    OBVIOUS
  <2>1. /\ TypeOK /\ version = {} /\ \A w \in Workers : req[w] = Idle
        /\ \A f \in Forms : form[f] = Blank
    BY InitType DEF AdminInit, Init
  <2>2. \A f : Ordinals(f) = 1..0
    BY <2>1 DEF Ordinals
  <2>3. Dense /\ OnlyPublishable
    BY <2>1, <2>2 DEF Dense, OnlyPublishable
  <2>4. ValidatedWhenLocked /\ HeadUnderLock /\ ActivePoints
    BY <2>1 DEF ValidatedWhenLocked, HeadUnderLock, ActivePoints, Points, Blank
  <2>5. StaffInv
    BY PageType DEF AdminInit, StaffInv
  <2> QED BY <2>1, <2>3, <2>4, <2>5 DEF AdminInv, Ground
<1> QED BY <1>1, AdminInvNext, PTL DEF AdminSpec
-----------------------------------------------------------------------------
(* resolve_public shows published, validated versions only, whatever the   *)
(* change page of admin.py put back.                                       *)
THEOREM PublicAlwaysPublished == AdminSpec => []PublicShowsPublished
<1>1. AdminInv => PublicShowsPublished
  <2> SUFFICES ASSUME AdminInv, NEW f \in Forms, PublicAnswer(f) = 200
               PROVE  form[f].active \in Ordinals(f) /\ SchemaOf(f, form[f].active) \in Publishable
    BY DEF PublicShowsPublished
  <2>1. form[f].active # 0
    <3>1. /\ form[f].life \in {"absent", "live", "deleted"}
          /\ form[f].state \in {"draft", "open", "closed"}
      BY DEF AdminInv, Ground, TypeOK, Row, States
    <3> QED BY <3>1 DEF PublicAnswer, Live
  <2>2. form[f].active \in Ordinals(f)
    BY <2>1 DEF AdminInv, Ground, ActivePoints, Points
  <2>3. PICK v \in version : v.form = f /\ v.version = form[f].active
    BY <2>2 DEF Ordinals
  <2>4. \A u \in version : u.form = f /\ u.version = form[f].active => u.schema \in Publishable
    BY DEF AdminInv, Ground, OnlyPublishable
  <2>5. SchemaOf(f, form[f].active) \in Publishable
    BY <2>3, <2>4 DEF SchemaOf
  <2> QED BY <2>2, <2>5
<1> QED BY <1>1, AdminInduction, PTL

(* A publish of services.py finds its ordinal free and ends with the row   *)
(* pointing to what it added, whatever a staff save put back before.       *)
THEOREM PublishAlwaysHeals == AdminSpec => PublishHeals
<1> DEFINE Added == \A v \in version' \ version :
                       form'[v.form].active = v.version /\ form'[v.form].draft = None
           Knows == \A w \in Workers : req[w] # Idle /\ req[w].step = "locked" =>
                       req[w].head = HeadVersion(req[w].form)
<1>1. AdminInv => Knows
  BY DEF AdminInv, Ground, HeadUnderLock
<1>2. AdminInv /\ [AdminNext]_adminVars => Added
  <2> SUFFICES ASSUME AdminInv, [AdminNext]_adminVars, NEW v \in version', v \notin version
               PROVE  form'[v.form].active = v.version /\ form'[v.form].draft = None
    OBVIOUS
  <2>1. Next
    BY DEF AdminNext, Elsewhere, ShowChangePage, PostChangePage, SaveModel, LeavePage,
           adminVars, vars
  <2>2. PICK w \in Workers : CommitPublish(w)
    BY <2>1 DEF Next, CreateForm, Load, Step, UpdateForm, SaveDraft, PublishViewSave, RotateLink,
                DeleteForm, CountOpenForms, SetState, LockRow, Refuse, Crash
  <2>3. Step(w)
    BY <2>2 DEF Step
  <2>4. req[w].form \in Forms /\ form[req[w].form] \in Row
    BY <2>3, BusyType DEF AdminInv, Ground, TypeOK
  <2>5. v = [form |-> req[w].form, version |-> req[w].head + 1, schema |-> req[w].seen.draft]
    BY <2>2 DEF CommitPublish
  <2>6. v.form = req[w].form /\ v.version = req[w].head + 1
    BY <2>5
  <2> QED BY <2>2, <2>4, <2>6 DEF CommitPublish, AdminInv, Ground, TypeOK, Row
<1>3. Knows' /\ Added =>
         /\ (\A w \in Workers : req[w] # Idle /\ req[w].step = "locked" =>
                req[w].head = HeadVersion(req[w].form))'
         /\ \A v \in version' \ version :
               /\ form'[v.form].active = v.version
               /\ form'[v.form].draft = None
  OBVIOUS
<1> QED BY <1>1, <1>2, <1>3, AdminInduction, PTL DEF AdminSpec, PublishHeals
-----------------------------------------------------------------------------
(***************************************************************************)
(* The lost update                                                         *)
(***************************************************************************)

(* While nobody else writes the row, the POST holds it as it is.           *)
PostIsFresh ==
    staff.step = "posted" /\ staff.alone => staff.seen = form[staff.form]

LEMMA FreshInit == AdminInit => PostIsFresh
BY PageType DEF AdminInit, PostIsFresh

LEMMA FreshNext == AdminInv /\ PostIsFresh /\ [AdminNext]_adminVars => PostIsFresh'
<1> SUFFICES ASSUME AdminInv, PostIsFresh, [AdminNext]_adminVars PROVE PostIsFresh'
  OBVIOUS
<1>1. staff \in Page \cup {NoPage} /\ NoPage.step = "none"
  BY PageType DEF AdminInv, StaffInv
<1>2. CASE Elsewhere
  <2>1. CASE staff' = staff /\ (staff.step = "posted" => form'[staff.form] = form[staff.form])
    BY <2>1 DEF PostIsFresh
  <2>2. CASE staff.step = "posted" /\ staff' = [staff EXCEPT !.alone = FALSE]
    <3>1. staff \in Page
      BY <1>1, <2>2
    <3>2. staff'.alone = FALSE
      BY <2>2, <3>1 DEF Page
    <3> QED BY <3>2 DEF PostIsFresh
  <2> QED BY <1>2, <2>1, <2>2 DEF Elsewhere
<1>3. ASSUME NEW f \in Forms, ShowChangePage(f) PROVE PostIsFresh'
  <2>1. staff'.step = "shown"
    BY <1>3 DEF ShowChangePage
  <2> QED BY <2>1 DEF PostIsFresh
<1>4. CASE PostChangePage
  <2>1. staff \in Page /\ form' = form
    BY <1>1, <1>4 DEF PostChangePage, vars
  <2>2. PICK c \in Chosen :
           staff' = [staff EXCEPT !.step = "posted", !.got = Blank, !.seen = form[staff.form],
                                  !.state = c[1], !.settings = c[2]]
    BY <1>4 DEF PostChangePage
  <2>3. staff'.seen = form[staff.form] /\ staff'.form = staff.form
    BY <2>1, <2>2 DEF Page
  <2> QED BY <2>1, <2>3 DEF PostIsFresh
<1>5. CASE SaveModel \/ LeavePage
  BY <1>1, <1>5 DEF SaveModel, LeavePage, PostIsFresh
<1>6. CASE UNCHANGED adminVars
  BY <1>6 DEF adminVars, PostIsFresh
<1> QED BY <1>2, <1>3, <1>4, <1>5, <1>6 DEF AdminNext

(* A staff save undoes only what was written between its POST and its      *)
(* UPDATE, however long the page had been open.                            *)
THEOREM SaveUndoesOnlyItsPost == AdminSpec => SaveTouchesItsPage
<1> DEFINE Touched == LET f == staff.form IN
                      form' = [form EXCEPT ![f].state = form'[f].state,
                                           ![f].settings = form'[f].settings]
<1>1. ASSUME AdminInv, PostIsFresh, AdminNext, staff.step = "posted", staff.alone, staff' = NoPage
      PROVE  Touched
  <2>1. /\ staff \in Page /\ staff.form \in Forms /\ staff # NoPage
        /\ staff.seen = form[staff.form]
    BY <1>1, PageType DEF AdminInv, StaffInv, PostIsFresh, Page
  <2>2. form \in [Forms -> Row] /\ form[staff.form] \in Row
    BY <1>1, <2>1 DEF AdminInv, Ground, TypeOK
  <2>3. ~Elsewhere
    <3> SUFFICES ASSUME Elsewhere PROVE FALSE
      OBVIOUS
    <3>1. staff' = staff \/ staff' = [staff EXCEPT !.alone = FALSE]
      BY DEF Elsewhere
    <3>2. staff'.step = "posted"
      BY <1>1, <2>1, <3>1 DEF Page
    <3> QED BY <1>1, <3>2, PageType
  <2>4. CASE SaveModel
    <3> DEFINE row == [form[staff.form] EXCEPT !.state = staff.state, !.settings = staff.settings]
    <3>1. form' = [form EXCEPT ![staff.form] = row]
      BY <2>1, <2>4 DEF SaveModel
    <3>2. row.state = staff.state /\ row.settings = staff.settings
      BY <2>2 DEF Row
    <3>3. form'[staff.form] = row
      BY <2>1, <2>2, <3>1
    <3>4. form'[staff.form].state = staff.state /\ form'[staff.form].settings = staff.settings
      BY <3>2, <3>3
    <3> QED BY <2>1, <2>2, <3>1, <3>4 DEF Row
  <2>5. CASE LeavePage
    <3>1. form' = form
      BY <2>5 DEF LeavePage, vars
    <3>2. form[staff.form] = [form[staff.form] EXCEPT !.state = form[staff.form].state,
                                                      !.settings = form[staff.form].settings]
      BY <2>2 DEF Row
    <3> QED BY <2>1, <2>2, <3>1, <3>2
  <2>6. ~PostChangePage /\ \A f \in Forms : ~ShowChangePage(f)
    BY <1>1, <2>1 DEF PostChangePage, ShowChangePage
  <2> QED BY <1>1, <2>3, <2>4, <2>5, <2>6 DEF AdminNext
<1>2. AdminInv /\ PostIsFresh /\ [AdminNext]_adminVars
         => [staff.step = "posted" /\ staff.alone /\ staff' = NoPage => Touched]_adminVars
  BY <1>1
<1> QED BY <1>2, AdminInduction, FreshInit, FreshNext, PTL DEF AdminSpec, SaveTouchesItsPage
=============================================================================
