---------------------------- MODULE RetentionProofs ----------------------------
(***************************************************************************)
(* Theorems about Retention: what a purge destroys and what it leaves, for *)
(* any forms, visitors, ceilings, overrides and clock.                     *)
(***************************************************************************)
EXTENDS Retention, TLAPS

(***************************************************************************)
(* The inductive invariant                                                 *)
(*                                                                         *)
(* The run's moment is past, so what is stored later is young enough.  The *)
(* loop over the overrides has done the forms it is through with, and only *)
(* forms with an override are left to it.  The doomed forms stay in the    *)
(* trash while the run works on them, and their versions go first.         *)
(***************************************************************************)
ExpirySteps == {"scan", "default", "each", "select"}

RunIsPast == task.step \in ExpirySteps => task.now <= now

LoopProgress ==
    task.step = "each" =>
       /\ \A f \in task.left : task.days[f] # 0
       /\ \A s \in submission : s.form \notin task.left => s.at + Horizon(s.form) >= task.now

DoomedAreOld ==
    task.step \in {"answers", "versions", "forms"} =>
       \A f \in task.doomed :
          /\ form[f].life = "deleted" /\ form[f].deleted + ceiling < now
          /\ task.step = "forms" => ~form[f].versions

GoneWithoutVersions == \A f \in Forms : form[f].life = "gone" => ~form[f].versions

RetentionInv ==
    /\ RetentionTypeOK
    /\ RunIsPast
    /\ LoopProgress
    /\ HorizonEnforced
    /\ DoomedAreOld
    /\ GoneWithoutVersions
    /\ AnswersHaveTheirVersion
-----------------------------------------------------------------------------
(* The step of the task tells which locals it has.                         *)
LEMMA TaskKinds ==
    ASSUME RetentionTypeOK
    PROVE  /\ task.step \in ExpirySteps <=> task \in Expiry
           /\ task.step \in {"answers", "versions", "forms"} <=> task \in Trash
           /\ task.step = "resting" <=> task = Resting
BY DEF RetentionTypeOK, Expiry, Trash, Resting, ExpirySteps

LEMMA NowIsNat == ASSUME RetentionTypeOK PROVE now \in Nat /\ ceiling \in Nat
BY RetentionAssumption DEF RetentionTypeOK

(* A cutoff is an integer: rows, ceilings and overrides are numbers.       *)
LEMMA HorizonIsNat ==
    ASSUME RetentionTypeOK, task \in Expiry
    PROVE  /\ task.now \in Nat /\ task.ceiling \in Nat
           /\ \A f \in Forms : Horizon(f) \in Nat /\ task.days[f] \in Nat
<1>1. task.days \in [Forms -> Overrides \cup {0}] /\ task.ceiling \in Ceilings /\ task.now \in 0..MaxTime
  BY DEF Expiry
<1>2. task.now \in Nat /\ task.ceiling \in Nat
  <2>1. Ceilings \subseteq Nat /\ 0..MaxTime \subseteq Nat
    BY RetentionAssumption
  <2> QED BY <1>1, <2>1
<1>3. ASSUME NEW f \in Forms PROVE task.days[f] \in Nat
  <2>1. task.days[f] \in Overrides \cup {0}
    BY <1>1
  <2>2. Overrides \cup {0} \subseteq Nat
    BY RetentionAssumption
  <2> QED BY <2>1, <2>2
<1> QED BY <1>2, <1>3 DEF Horizon

LEMMA RetentionInit == Init => RetentionInv
<1> SUFFICES ASSUME Init PROVE RetentionInv
  OBVIOUS
<1>1. RetentionTypeOK
  BY RetentionAssumption DEF Init, RetentionTypeOK, Row, Resting, Away
<1>2. task.step = "resting" /\ submission = {}
  BY DEF Init, Resting
<1>3. GoneWithoutVersions
  BY DEF Init, GoneWithoutVersions
<1> QED
  BY <1>1, <1>2, <1>3 DEF RetentionInv, RunIsPast, ExpirySteps, LoopProgress, HorizonEnforced,
     Expired, DoomedAreOld, AnswersHaveTheirVersion
-----------------------------------------------------------------------------
(* What the requests do to the rows: versions stay, and forms only enter   *)
(* the trash.                                                              *)
Request ==
    \/ Tick
    \/ \E c \in Ceilings : Redeploy(c)
    \/ \E f \in Forms, days \in Overrides \cup {0} : Patch(f, days)
    \/ \E f \in Forms : DeleteForm(f)
    \/ \E v \in Visitors, f \in Forms : Resolve(v, f)
    \/ \E v \in Visitors : Insert(v) \/ Leave(v)

LEMMA RequestTypes ==
    ASSUME RetentionTypeOK, Request
    PROVE  RetentionTypeOK' /\ task' = task
<1> USE RetentionAssumption
<1>1. CASE Tick
  BY <1>1 DEF Tick, RetentionTypeOK, Row, Submission
<1>2. ASSUME NEW c \in Ceilings, Redeploy(c) PROVE RetentionTypeOK' /\ task' = task
  BY <1>2 DEF Redeploy, RetentionTypeOK
<1>3. ASSUME NEW f \in Forms, NEW days \in Overrides \cup {0}, Patch(f, days)
      PROVE  RetentionTypeOK' /\ task' = task
  <2>1. form' \in [Forms -> Row]
    BY <1>3 DEF Patch, RetentionTypeOK, Row
  <2> QED BY <1>3, <2>1 DEF Patch, RetentionTypeOK
<1>4. ASSUME NEW f \in Forms, DeleteForm(f) PROVE RetentionTypeOK' /\ task' = task
  <2>1. form' \in [Forms -> Row]
    BY <1>4 DEF DeleteForm, RetentionTypeOK, Row
  <2> QED BY <1>4, <2>1 DEF DeleteForm, RetentionTypeOK
<1>5. ASSUME NEW v \in Visitors, NEW f \in Forms, Resolve(v, f)
      PROVE  RetentionTypeOK' /\ task' = task
  <2>1. visit' \in [Visitors -> [step : {"resolved"}, form : Forms, since : 0..MaxTime] \cup {Away}]
    BY <1>5 DEF Resolve, RetentionTypeOK
  <2> QED BY <1>5, <2>1 DEF Resolve, RetentionTypeOK
<1>6. ASSUME NEW v \in Visitors, Insert(v) PROVE RetentionTypeOK' /\ task' = task
  <2>1. visit' \in [Visitors -> [step : {"resolved"}, form : Forms, since : 0..MaxTime] \cup {Away}]
    BY <1>6 DEF Insert, RetentionTypeOK
  <2>2. visit[v].form \in Forms
    BY <1>6 DEF Insert, RetentionTypeOK
  <2>3. submission' \subseteq Submission
    BY <1>6, <2>2 DEF Insert, RetentionTypeOK, Submission
  <2> QED BY <1>6, <2>1, <2>3 DEF Insert, RetentionTypeOK
<1>7. ASSUME NEW v \in Visitors, Leave(v) PROVE RetentionTypeOK' /\ task' = task
  <2>1. visit' \in [Visitors -> [step : {"resolved"}, form : Forms, since : 0..MaxTime] \cup {Away}]
    BY <1>7 DEF Leave, RetentionTypeOK
  <2> QED BY <1>7, <2>1 DEF Leave, RetentionTypeOK
<1> QED BY <1>1, <1>2, <1>3, <1>4, <1>5, <1>6, <1>7 DEF Request

(* What the task does to its locals and to the rows.                       *)
LEMMA PurgeTypes ==
    ASSUME RetentionTypeOK, Begin \/ Purge \/ Die
    PROVE  RetentionTypeOK'
<1> USE RetentionAssumption, TaskKinds DEF ExpirySteps
<1>0. /\ ceiling \in Ceilings /\ now \in 0..MaxTime /\ form \in [Forms -> Row]
      /\ submission \subseteq Submission /\ deaths \in 0..MaxDeaths
  BY DEF RetentionTypeOK
<1>1. CASE Begin
  <2>1. task' \in Expiry /\ task'.step # "each"
    BY <1>1, <1>0 DEF Begin, Expiry
  <2> QED BY <1>1, <2>1 DEF Begin, RetentionTypeOK
<1>2. CASE Scan
  <2>1. [f \in Forms |-> IF form[f].life = "gone" THEN 0 ELSE form[f].days]
           \in [Forms -> Overrides \cup {0}]
    BY <1>0 DEF Row
  <2>2. task \in Expiry
    BY <1>2 DEF Scan
  <2>3. task' \in Expiry /\ task'.step = "default"
    BY <1>2, <2>1, <2>2 DEF Scan, Expiry
  <2> QED BY <1>2, <2>3 DEF Scan, RetentionTypeOK
<1>3. CASE DeleteDefault
  <2>1. task \in Expiry
    BY <1>3 DEF DeleteDefault
  <2>2. task' \in Expiry /\ (task'.step = "each" => task'.left # {})
    BY <1>3, <2>1 DEF DeleteDefault, Destroys, Expiry, Overridden
  <2> QED BY <1>0, <1>3, <2>2 DEF DeleteDefault, Destroys, RetentionTypeOK
<1>4. ASSUME NEW f \in Forms, DeleteOverridden(f) PROVE RetentionTypeOK'
  <2>1. task \in Expiry
    BY <1>4 DEF DeleteOverridden
  <2>2. /\ task' = [task EXCEPT !.left = @ \ {f}, !.step = IF task.left = {f} THEN "select" ELSE @]
        /\ task.step = "each" /\ f \in task.left /\ task.left \subseteq Forms
    BY <1>4, <2>1 DEF DeleteOverridden, Destroys, Expiry
  <2>3. task' \in Expiry
    BY <2>1, <2>2 DEF Expiry
  <2>4. task'.step = "each" => task'.left # {}
    <3>1. CASE task.left = {f}
      BY <2>1, <2>2, <3>1 DEF Expiry
    <3>2. CASE task.left # {f}
      <4>1. task'.left = task.left \ {f}
        BY <2>1, <2>2 DEF Expiry
      <4> QED BY <2>2, <3>2, <4>1
    <3> QED BY <3>1, <3>2
  <2> QED BY <1>0, <1>4, <2>3, <2>4 DEF DeleteOverridden, Destroys, RetentionTypeOK
<1>5. CASE SelectDoomed
  <2>1. task' \in Trash \cup {Resting} /\ task'.step # "each"
    BY <1>5 DEF SelectDoomed, Trash, Resting
  <2> QED BY <1>5, <2>1 DEF SelectDoomed, RetentionTypeOK
<1>6. CASE DeleteAnswers
  <2>1. task' \in Trash /\ task'.step # "each"
    BY <1>6 DEF DeleteAnswers, Destroys, Trash
  <2> QED BY <1>0, <1>6, <2>1 DEF DeleteAnswers, Destroys, RetentionTypeOK
<1>7. CASE DeleteVersions
  <2>1. task' \in Trash \cup {Resting} /\ task'.step # "each"
    BY <1>7 DEF DeleteVersions, Trash, Resting
  <2>2. form' \in [Forms -> Row]
    <3>1. CASE form' = form
      BY <1>0, <3>1
    <3>2. CASE form' = [f \in Forms |-> IF f \in task.doomed
                                       THEN [form[f] EXCEPT !.versions = FALSE] ELSE form[f]]
      BY <1>0, <3>2 DEF Row
    <3> QED BY <1>7, <3>1, <3>2 DEF DeleteVersions
  <2> QED BY <1>7, <2>1, <2>2 DEF DeleteVersions, RetentionTypeOK
<1>8. CASE DeleteForms
  <2>1. task' = Resting /\ task'.step # "each"
    BY <1>8 DEF DeleteForms, Resting
  <2>2. form' \in [Forms -> Row]
    BY <1>0, <1>8 DEF DeleteForms, Row
  <2> QED BY <1>8, <2>1, <2>2 DEF DeleteForms, RetentionTypeOK
<1>9. CASE Die
  <2>1. task'.step # "each"
    BY <1>9 DEF Die, Resting
  <2> QED BY <1>0, <1>9, <2>1 DEF Die, RetentionTypeOK
<1> QED BY <1>1, <1>2, <1>3, <1>4, <1>5, <1>6, <1>7, <1>8, <1>9 DEF Purge
-----------------------------------------------------------------------------
(* The clock does not go back and the ceiling stays while the task runs;   *)
(* rows in the trash stay as they are, and no version goes.                *)
RowsKept ==
    /\ now <= now' /\ task' = task /\ (task = Resting \/ ceiling' = ceiling)
    /\ \A f \in Forms :
          /\ form'[f].versions = form[f].versions
          /\ form'[f].life = "gone" <=> form[f].life = "gone"
          /\ form[f].life = "deleted" => form'[f] = form[f]

(* What is new was stored now, under a form that has its versions.         *)
OnlyNewRows ==
    \A s \in submission' :
        \/ s \in submission
        \/ s.at = now /\ s.form \in Forms /\ form[s.form].versions

LEMMA RequestEffect ==
    ASSUME RetentionTypeOK, Request
    PROVE  RowsKept /\ OnlyNewRows
<1>1. now \in Nat /\ form \in [Forms -> Row]
  BY NowIsNat DEF RetentionTypeOK
<1>2. CASE Tick
  BY <1>1, <1>2 DEF Tick, RowsKept, OnlyNewRows
<1>3. ASSUME NEW c \in Ceilings, Redeploy(c) PROVE RowsKept /\ OnlyNewRows
  BY <1>1, <1>3 DEF Redeploy, RowsKept, OnlyNewRows
<1>4. ASSUME NEW f \in Forms, NEW days \in Overrides \cup {0}, Patch(f, days)
      PROVE  RowsKept /\ OnlyNewRows
  BY <1>1, <1>4 DEF Patch, RowsKept, OnlyNewRows, Row
<1>5. ASSUME NEW f \in Forms, DeleteForm(f) PROVE RowsKept /\ OnlyNewRows
  BY <1>1, <1>5 DEF DeleteForm, RowsKept, OnlyNewRows, Row
<1>6. ASSUME NEW v \in Visitors, NEW f \in Forms, Resolve(v, f) PROVE RowsKept /\ OnlyNewRows
  BY <1>1, <1>6 DEF Resolve, RowsKept, OnlyNewRows
<1>7. ASSUME NEW v \in Visitors, Insert(v) PROVE RowsKept /\ OnlyNewRows
  <2>1. visit[v].form \in Forms
    BY <1>7 DEF Insert, RetentionTypeOK
  <2> QED BY <1>1, <1>7, <2>1 DEF Insert, RowsKept, OnlyNewRows
<1>8. ASSUME NEW v \in Visitors, Leave(v) PROVE RowsKept /\ OnlyNewRows
  BY <1>1, <1>8 DEF Leave, RowsKept, OnlyNewRows
<1> QED BY <1>2, <1>3, <1>4, <1>5, <1>6, <1>7, <1>8 DEF Request

LEMMA RequestKeepsInv ==
    ASSUME RetentionInv, Request
    PROVE  RetentionInv'
<1>1. RetentionTypeOK /\ RetentionTypeOK' /\ RowsKept /\ OnlyNewRows
  BY RequestTypes, RequestEffect DEF RetentionInv
<1>2. now \in Nat /\ now' \in Nat /\ ceiling \in Nat /\ task' = task /\ now <= now'
  BY <1>1, NowIsNat DEF RowsKept, RetentionTypeOK
<1>3. RunIsPast'
  <2>1. ASSUME task.step \in ExpirySteps PROVE task.now <= now'
    BY <1>1, <1>2, <2>1, TaskKinds, HorizonIsNat DEF RetentionInv, RunIsPast
  <2> QED BY <1>2, <2>1 DEF RunIsPast
<1>4. \A s \in submission' :
         \/ s \in submission
         \/ task.step \in ExpirySteps => s.at + Horizon(s.form) >= task.now
  <2>1. SUFFICES ASSUME NEW s \in submission', s \notin submission, task.step \in ExpirySteps
                 PROVE  s.at + Horizon(s.form) >= task.now
    OBVIOUS
  <2>2. s.at = now /\ s.form \in Forms /\ task.now <= now
    BY <1>1, <2>1 DEF OnlyNewRows, RetentionInv, RunIsPast
  <2>3. Horizon(s.form) \in Nat /\ task.now \in Nat
    BY <1>1, <2>1, <2>2, TaskKinds, HorizonIsNat
  <2> QED BY <1>2, <2>2, <2>3
<1>5. \A f : Horizon(f)' = Horizon(f)
  BY <1>2 DEF Horizon
<1>6. LoopProgress'
  BY <1>2, <1>4, <1>5 DEF RetentionInv, LoopProgress, ExpirySteps
<1>7. HorizonEnforced'
  BY <1>2, <1>4, <1>5 DEF RetentionInv, HorizonEnforced, Expired, ExpirySteps
<1>8. DoomedAreOld'
  <2> SUFFICES ASSUME task.step \in {"answers", "versions", "forms"}, NEW f \in task.doomed
               PROVE  /\ form'[f].life = "deleted" /\ form'[f].deleted + ceiling' < now'
                      /\ task.step = "forms" => ~form'[f].versions
    BY <1>2 DEF DoomedAreOld
  <2>1. f \in Forms /\ task # Resting
    BY <1>1, TaskKinds DEF Trash, Resting
  <2>2. form[f].life = "deleted" /\ form[f].deleted + ceiling < now /\ form'[f] = form[f]
    BY <1>1, <2>1 DEF RetentionInv, DoomedAreOld, RowsKept
  <2>3. form[f].deleted \in Nat /\ ceiling' = ceiling
    BY <1>1, <2>1 DEF RetentionTypeOK, Row, RowsKept
  <2>4. form[f].deleted + ceiling < now'
    BY <1>2, <2>2, <2>3
  <2> QED BY <2>2, <2>3, <2>4 DEF RetentionInv, DoomedAreOld
<1>9. GoneWithoutVersions'
  BY <1>1 DEF RetentionInv, GoneWithoutVersions, RowsKept
<1>10. AnswersHaveTheirVersion'
  <2> SUFFICES ASSUME NEW s \in submission'
               PROVE  form'[s.form].versions /\ form'[s.form].life # "gone"
    BY DEF AnswersHaveTheirVersion
  <2>1. s.form \in Forms /\ form[s.form].versions /\ form[s.form].life # "gone"
    BY <1>1 DEF OnlyNewRows, RetentionInv, AnswersHaveTheirVersion, GoneWithoutVersions,
       RetentionTypeOK, Submission
  <2> QED BY <1>1, <2>1 DEF RowsKept
<1> QED BY <1>1, <1>3, <1>6, <1>7, <1>8, <1>9, <1>10 DEF RetentionInv
-----------------------------------------------------------------------------
(* The task changes neither the clock nor the ceiling, and stores nothing. *)
LEMMA PurgeEffect ==
    ASSUME Begin \/ Purge \/ Die
    PROVE  now' = now /\ ceiling' = ceiling /\ submission' \subseteq submission
BY DEF Begin, Purge, Die, Scan, DeleteDefault, DeleteOverridden, SelectDoomed, DeleteAnswers,
   DeleteVersions, DeleteForms, Destroys

LEMMA RunStaysPast ==
    ASSUME RetentionInv, Begin \/ Purge \/ Die
    PROVE  RunIsPast'
<1>1. now' = now /\ now \in Nat /\ RetentionTypeOK
  BY PurgeEffect, NowIsNat DEF RetentionInv
<1>2. CASE Begin
  BY <1>1, <1>2 DEF Begin, RunIsPast
<1>3. CASE Scan
  BY <1>1, <1>3, TaskKinds DEF Scan, Expiry, RunIsPast, RetentionInv, ExpirySteps
<1>4. CASE DeleteDefault
  <2>1. task \in Expiry /\ task.step \in ExpirySteps
    BY <1>1, <1>4, TaskKinds DEF DeleteDefault, ExpirySteps
  <2>2. task'.now = task.now
    BY <1>4, <2>1 DEF DeleteDefault, Destroys, Expiry
  <2> QED BY <1>1, <2>1, <2>2 DEF RunIsPast, RetentionInv
<1>5. ASSUME NEW f \in Forms, DeleteOverridden(f) PROVE RunIsPast'
  <2>1. task \in Expiry /\ task.step \in ExpirySteps
    BY <1>1, <1>5, TaskKinds DEF DeleteOverridden, ExpirySteps
  <2>2. task'.now = task.now
    BY <1>5, <2>1 DEF DeleteOverridden, Destroys, Expiry
  <2> QED BY <1>1, <2>1, <2>2 DEF RunIsPast, RetentionInv
<1>6. ASSUME SelectDoomed \/ DeleteAnswers \/ DeleteVersions \/ DeleteForms \/ Die PROVE RunIsPast'
  <2>1. task'.step \notin ExpirySteps
    <3>1. CASE SelectDoomed
      BY <3>1 DEF SelectDoomed, Resting, ExpirySteps
    <3>2. CASE DeleteAnswers
      BY <1>1, <3>2, TaskKinds DEF DeleteAnswers, Destroys, Trash, ExpirySteps
    <3>3. CASE DeleteVersions
      BY <1>1, <3>3, TaskKinds DEF DeleteVersions, Trash, Resting, ExpirySteps
    <3>4. CASE DeleteForms \/ Die
      BY <3>4 DEF DeleteForms, Die, Resting, ExpirySteps
    <3> QED BY <1>6, <3>1, <3>2, <3>3, <3>4
  <2> QED BY <2>1 DEF RunIsPast
<1> QED BY <1>2, <1>3, <1>4, <1>5, <1>6 DEF Purge

(* The two queries of purge_expired.  The default one clears every form    *)
(* without an override, and leaves exactly the others to the loop.         *)
LEMMA DefaultClears ==
    ASSUME RetentionInv, DeleteDefault
    PROVE  LoopProgress' /\ HorizonEnforced'
<1>1. RetentionTypeOK /\ task \in Expiry /\ submission \subseteq Submission
  BY TaskKinds DEF RetentionInv, DeleteDefault, ExpirySteps, RetentionTypeOK
<1> DEFINE others == Overridden(task.days)
<1>2. /\ task'.now = task.now /\ task'.days = task.days /\ task'.ceiling = task.ceiling
      /\ task'.left = others
      /\ task'.step = IF others = {} THEN "select" ELSE "each"
  BY <1>1 DEF DeleteDefault, Destroys, Expiry
<1>3. ASSUME NEW s \in submission', s.form \notin others
      PROVE  s.at + Horizon(s.form)' >= task.now
  <2>1. s \in submission /\ s.form \in Forms /\ s.at \in Nat
    BY <1>1, <1>3 DEF DeleteDefault, Destroys, Submission
  <2>2. Horizon(s.form)' = task.ceiling
    BY <1>2, <1>3, <2>1 DEF Overridden, Horizon
  <2>3. ~(s.at + task.ceiling < task.now)
    BY <1>3, <2>1 DEF DeleteDefault, Destroys, Before, OfForms
  <2> QED BY <1>1, <2>1, <2>2, <2>3, HorizonIsNat
<1>4. LoopProgress'
  BY <1>2, <1>3 DEF LoopProgress, Overridden
<1>5. HorizonEnforced'
  BY <1>2, <1>3 DEF HorizonEnforced, Expired
<1> QED BY <1>4, <1>5

(* An iteration of the loop clears its form.                               *)
LEMMA LoopClears ==
    ASSUME RetentionInv, NEW f \in Forms, DeleteOverridden(f)
    PROVE  LoopProgress' /\ HorizonEnforced'
<1>1. /\ RetentionTypeOK /\ task \in Expiry /\ submission \subseteq Submission
      /\ task.step = "each" /\ f \in task.left /\ task.left \subseteq Forms
  BY TaskKinds DEF RetentionInv, DeleteOverridden, ExpirySteps, RetentionTypeOK, Expiry
<1>2. /\ task'.now = task.now /\ task'.days = task.days /\ task'.ceiling = task.ceiling
      /\ task'.left = task.left \ {f}
      /\ task'.step = IF task.left = {f} THEN "select" ELSE "each"
  BY <1>1 DEF DeleteOverridden, Destroys, Expiry
<1>3. \A g : Horizon(g)' = Horizon(g)
  BY <1>2 DEF Horizon
<1>4. \A g \in task.left : task.days[g] # 0
  BY <1>1 DEF RetentionInv, LoopProgress
<1>5. ASSUME NEW s \in submission', s.form \notin task'.left
      PROVE  s.at + Horizon(s.form) >= task.now
  <2>1. s \in submission /\ s.form \in Forms /\ s.at \in Nat
    BY <1>1, <1>5 DEF DeleteOverridden, Destroys, Submission
  <2>2. CASE s.form # f
    BY <1>1, <1>2, <1>5, <2>1, <2>2 DEF RetentionInv, LoopProgress
  <2>3. CASE s.form = f
    <3>1. ~(s.at + task.days[f] < task.now)
      BY <1>5, <2>1, <2>3 DEF DeleteOverridden, Destroys, Before, OfForms
    <3>2. Horizon(s.form) = task.days[f] /\ task.days[f] \in Nat /\ task.now \in Nat
      BY <1>1, <1>4, <2>3, HorizonIsNat DEF Horizon
    <3> QED BY <2>1, <3>1, <3>2
  <2> QED BY <2>2, <2>3
<1>6. LoopProgress'
  BY <1>2, <1>3, <1>4, <1>5 DEF LoopProgress
<1>7. HorizonEnforced'
  BY <1>2, <1>3, <1>5 DEF HorizonEnforced, Expired
<1> QED BY <1>6, <1>7

LEMMA OthersStayClear ==
    ASSUME RetentionInv, Begin \/ Purge \/ Die,
           task.step \notin {"default", "each"} \/ Die
    PROVE  LoopProgress' /\ HorizonEnforced'
<1>1. RetentionTypeOK
  BY DEF RetentionInv
<1>2. task'.step # "each" /\ (task'.step = "select" => task'.ceiling = 0)
  <2>1. CASE Begin
    BY <2>1 DEF Begin
  <2>2. CASE Scan
    BY <1>1, <2>2, TaskKinds DEF Scan, Expiry, ExpirySteps
  <2>3. CASE SelectDoomed
    BY <2>3 DEF SelectDoomed, Resting
  <2>4. CASE DeleteAnswers
    BY <1>1, <2>4, TaskKinds DEF DeleteAnswers, Destroys, Trash
  <2>5. CASE DeleteVersions
    BY <1>1, <2>5, TaskKinds DEF DeleteVersions, Trash, Resting
  <2>6. CASE DeleteForms \/ Die
    BY <2>6 DEF DeleteForms, Die, Resting
  <2> QED BY <2>1, <2>2, <2>3, <2>4, <2>5, <2>6 DEF Purge, DeleteDefault, DeleteOverridden
<1> QED BY <1>2 DEF LoopProgress, HorizonEnforced, Expired

(* The trash: what was selected stays selectable, answers go first, and    *)
(* PROTECT keeps the versions that answers arrived under in between.       *)
LEMMA TrashKept ==
    ASSUME RetentionInv, Begin \/ Purge \/ Die
    PROVE  DoomedAreOld' /\ GoneWithoutVersions' /\ AnswersHaveTheirVersion'
<1>1. /\ RetentionTypeOK /\ form \in [Forms -> Row] /\ submission \subseteq Submission
      /\ now' = now /\ ceiling' = ceiling /\ submission' \subseteq submission
      /\ DoomedAreOld /\ GoneWithoutVersions /\ AnswersHaveTheirVersion
  BY PurgeEffect DEF RetentionInv, RetentionTypeOK
<1>2. ASSUME form' = form
      PROVE  GoneWithoutVersions' /\ AnswersHaveTheirVersion'
  BY <1>1, <1>2 DEF GoneWithoutVersions, AnswersHaveTheirVersion
<1>3. CASE Begin \/ Die
  BY <1>2, <1>3 DEF Begin, Die, Resting, DoomedAreOld
<1>4. CASE Scan
  <2>1. task'.step = "default" /\ form' = form
    BY <1>1, <1>4, TaskKinds DEF Scan, Expiry, ExpirySteps
  <2> QED BY <1>2, <2>1 DEF DoomedAreOld
<1>5. CASE DeleteDefault
  <2>1. task'.step \in {"each", "select"} /\ form' = form
    BY <1>1, <1>5, TaskKinds DEF DeleteDefault, Destroys, Expiry, ExpirySteps
  <2> QED BY <1>2, <2>1 DEF DoomedAreOld
<1>6. ASSUME NEW f \in Forms, DeleteOverridden(f)
      PROVE  DoomedAreOld' /\ GoneWithoutVersions' /\ AnswersHaveTheirVersion'
  <2>1. task'.step \in {"each", "select"} /\ form' = form
    BY <1>1, <1>6, TaskKinds DEF DeleteOverridden, Destroys, Expiry, ExpirySteps
  <2> QED BY <1>2, <2>1 DEF DoomedAreOld
<1>7. CASE SelectDoomed
  <2>1. form' = form
    BY <1>7 DEF SelectDoomed
  <2>2. DoomedAreOld'
    BY <1>1, <1>7 DEF SelectDoomed, DoomedAreOld, Resting
  <2> QED BY <1>2, <2>1, <2>2
<1>8. CASE DeleteAnswers
  <2>1. task'.step = "versions" /\ task'.doomed = task.doomed /\ form' = form
    BY <1>1, <1>8, TaskKinds DEF DeleteAnswers, Destroys, Trash
  <2>2. DoomedAreOld'
    BY <1>1, <1>8, <2>1 DEF DeleteAnswers, DoomedAreOld
  <2> QED BY <1>2, <2>1, <2>2
<1>9. CASE DeleteVersions
  <2>1. CASE OfForms(task.doomed) # {}
    BY <1>2, <1>9, <2>1 DEF DeleteVersions, DoomedAreOld, Resting
  <2>2. CASE OfForms(task.doomed) = {}
    <3>1. /\ task'.step = "forms" /\ task'.doomed = task.doomed /\ task.doomed \subseteq Forms
          /\ \A f \in Forms : form'[f] = IF f \in task.doomed
                                        THEN [form[f] EXCEPT !.versions = FALSE] ELSE form[f]
      BY <1>1, <1>9, <2>2, TaskKinds DEF DeleteVersions, Trash
    <3>2. \A f \in Forms : /\ form'[f].life = form[f].life /\ form'[f].deleted = form[f].deleted
                           /\ f \in task.doomed => ~form'[f].versions
                           /\ f \notin task.doomed => form'[f] = form[f]
      BY <1>1, <3>1 DEF Row
    <3>3. DoomedAreOld'
      BY <1>1, <1>9, <3>1, <3>2 DEF DeleteVersions, DoomedAreOld
    <3>4. GoneWithoutVersions'
      BY <1>1, <3>2 DEF GoneWithoutVersions
    <3>5. \A s \in submission : s.form \in Forms /\ s.form \notin task.doomed
      BY <1>1, <2>2 DEF OfForms, Submission
    <3>6. AnswersHaveTheirVersion'
      BY <1>1, <3>2, <3>5 DEF AnswersHaveTheirVersion
    <3> QED BY <3>3, <3>4, <3>6
  <2> QED BY <2>1, <2>2
<1>10. CASE DeleteForms
  <2>1. /\ task.step = "forms" /\ task'.step = "resting"
        /\ \A f \in Forms : form'[f] = IF f \in task.doomed
                                      THEN [form[f] EXCEPT !.life = "gone"] ELSE form[f]
    BY <1>10 DEF DeleteForms, Resting
  <2>2. \A f \in Forms : /\ form'[f].versions = form[f].versions
                         /\ f \in task.doomed => ~form[f].versions
                         /\ f \notin task.doomed => form'[f] = form[f]
    BY <1>1, <2>1 DEF Row, DoomedAreOld
  <2>3. GoneWithoutVersions'
    BY <1>1, <2>2 DEF GoneWithoutVersions
  <2>4. AnswersHaveTheirVersion'
    <3> SUFFICES ASSUME NEW s \in submission
                 PROVE  form'[s.form].versions /\ form'[s.form].life # "gone"
      BY <1>1 DEF AnswersHaveTheirVersion
    <3>1. s.form \in Forms /\ form[s.form].versions /\ form[s.form].life # "gone"
      BY <1>1 DEF AnswersHaveTheirVersion, Submission
    <3> QED BY <2>2, <3>1
  <2> QED BY <2>1, <2>3, <2>4 DEF DoomedAreOld
<1> QED BY <1>3, <1>4, <1>5, <1>6, <1>7, <1>8, <1>9, <1>10 DEF Purge
-----------------------------------------------------------------------------
LEMMA RetentionStep == RetentionInv /\ [Next]_vars => RetentionInv'
<1> SUFFICES ASSUME RetentionInv, [Next]_vars PROVE RetentionInv'
  OBVIOUS
<1>1. CASE UNCHANGED vars
  BY <1>1 DEF vars, RetentionInv, RetentionTypeOK, RunIsPast, LoopProgress, HorizonEnforced,
     Expired, Horizon, DoomedAreOld, GoneWithoutVersions, AnswersHaveTheirVersion
<1>2. CASE Request
  BY <1>2, RequestKeepsInv
<1>3. CASE Begin \/ Purge \/ Die
  <2>1. RetentionTypeOK' /\ RunIsPast'
    BY <1>3, PurgeTypes, RunStaysPast DEF RetentionInv
  <2>2. DoomedAreOld' /\ GoneWithoutVersions' /\ AnswersHaveTheirVersion'
    BY <1>3, TrashKept
  <2>3. LoopProgress' /\ HorizonEnforced'
    <3>1. CASE task.step \notin {"default", "each"} \/ Die
      BY <1>3, <3>1, OthersStayClear
    <3>2. CASE DeleteDefault
      BY <3>2, DefaultClears
    <3>3. ASSUME NEW f \in Forms, DeleteOverridden(f) PROVE LoopProgress' /\ HorizonEnforced'
      BY <3>3, LoopClears
    <3>4. \/ task.step \notin {"default", "each"} \/ Die \/ DeleteDefault
          \/ \E f \in Forms : DeleteOverridden(f)
      BY <1>3 DEF Begin, Purge, Scan, SelectDoomed, DeleteAnswers, DeleteVersions, DeleteForms, Resting
    <3> QED BY <3>1, <3>2, <3>3, <3>4
  <2> QED BY <2>1, <2>2, <2>3 DEF RetentionInv
<1> QED BY <1>1, <1>2, <1>3 DEF Next, Request

THEOREM RetentionInduction == Spec => []RetentionInv
<1> QED BY RetentionInit, RetentionStep, PTL DEF Spec

(* Every variable keeps its type, and the loop over the overrides is only  *)
(* ever entered with something left to do.                                 *)
THEOREM RetentionTypeCorrect == Spec => []RetentionTypeOK
<1>1. RetentionInv => RetentionTypeOK
  BY DEF RetentionInv
<1> QED BY <1>1, RetentionInduction, PTL

(* After purge_expired nothing is stored past the horizon the run read     *)
(* (services.py 447-479), whatever arrived or was patched in between.      *)
THEOREM HorizonAlwaysEnforced == Spec => []HorizonEnforced
<1>1. RetentionInv => HorizonEnforced
  BY DEF RetentionInv
<1> QED BY <1>1, RetentionInduction, PTL

(* No purge orphans an answer (services.py 482-497).                       *)
THEOREM AnswersKeepTheirVersion == Spec => []AnswersHaveTheirVersion
<1>1. RetentionInv => AnswersHaveTheirVersion
  BY DEF RetentionInv
<1> QED BY <1>1, RetentionInduction, PTL

(* No answer is destroyed before its time: only by a query of the run that *)
(* found it past its horizon, or with a form old enough in the trash.      *)
THEOREM NeverDestroyedEarly == Spec => NeverEarly
<1> DEFINE Rightly == \A s \in submission \ submission' :
                         \/ task.step \in {"default", "each"} /\ s.at + Horizon(s.form) < task.now
                         \/ /\ form[s.form].life = "deleted"
                            /\ ceiling # 0 => form[s.form].deleted + ceiling < now
<1>1. RetentionInv /\ [Next]_vars => [Rightly]_vars
  <2> SUFFICES ASSUME RetentionInv, Next, NEW s \in submission, s \notin submission'
               PROVE  \/ task.step \in {"default", "each"} /\ s.at + Horizon(s.form) < task.now
                      \/ /\ form[s.form].life = "deleted"
                         /\ ceiling # 0 => form[s.form].deleted + ceiling < now
    OBVIOUS
  <2>0. RetentionTypeOK /\ s.form \in Forms
    BY DEF RetentionInv, RetentionTypeOK, Submission
  <2>1. DeleteDefault \/ (\E f \in Forms : DeleteOverridden(f)) \/ DeleteAnswers
    BY DEF Next, Tick, Redeploy, Patch, DeleteForm, Resolve, Insert, Leave, Begin, Purge, Die,
       Scan, SelectDoomed, DeleteVersions, DeleteForms
  <2>2. CASE DeleteDefault
    <3>1. s.at + task.ceiling < task.now /\ task.days[s.form] = 0
      BY <2>0, <2>2 DEF DeleteDefault, Destroys, Before, OfForms, Overridden
    <3> QED BY <2>2, <3>1 DEF DeleteDefault, Horizon
  <2>3. ASSUME NEW f \in Forms, DeleteOverridden(f)
        PROVE  task.step \in {"default", "each"} /\ s.at + Horizon(s.form) < task.now
    <3>1. s.form = f /\ s.at + task.days[f] < task.now /\ f \in task.left /\ task.step = "each"
      BY <2>3 DEF DeleteOverridden, Destroys, Before, OfForms
    <3>2. task.days[f] # 0
      BY <3>1 DEF RetentionInv, LoopProgress
    <3> QED BY <3>1, <3>2 DEF Horizon
  <2>4. CASE DeleteAnswers
    <3>1. s.form \in task.doomed /\ task.step = "answers"
      BY <2>4 DEF DeleteAnswers, Destroys, OfForms
    <3> QED BY <3>1 DEF RetentionInv, DoomedAreOld
  <2> QED BY <2>1, <2>2, <2>3, <2>4
<1>2. Spec => [][Rightly]_vars
  BY <1>1, RetentionInduction, PTL DEF Spec
<1> QED BY <1>2 DEF NeverEarly
=============================================================================
