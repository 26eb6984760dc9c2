------------------------- MODULE FormLifecycleProofs -------------------------
(***************************************************************************)
(* Theorems about FormLifecycle, for any number of forms, requests,        *)
(* schemas and any bound.                                                  *)
(***************************************************************************)
EXTENDS FormLifecycle, FiniteSetTheorems, SequenceTheorems, TLAPS

(* Every request carries the parameter of its operation, and a row.        *)
LEMMA InstanceType ==
    ASSUME NEW op \in Operations, NEW row \in Row
    PROVE  Instance(op, row) \in Row
  BY DEF Instance, Operations, Row, Blank, States

LEMMA BlankType == Blank \in Row
  BY DEF Row, Blank, States

(* What a request of a given operation may carry.                          *)
LEMMA ArgumentType ==
    ASSUME NEW r \in Request, r.arg \in Argument(r.op)
    PROVE  /\ r.op = "update" => r.arg \in Settings \cup {None}
           /\ r.op \in {"draft", "publish_view"} => r.arg \in Schemas
           /\ r.op = "state" => r.arg \in States
  BY DEF Request, Operations, Argument

LEMMA IdleIsNoRequest == Idle \notin Request
  BY DEF Idle, Request

LEMMA InitType == Init => TypeOK
  BY BlankType DEF Init, TypeOK

(* A request that takes a step is not idle, so it carries what its         *)
(* operation needs.                                                        *)
LEMMA BusyType ==
    ASSUME TypeOK, NEW w \in Workers, Step(w)
    PROVE  /\ req[w] \in Request
           /\ req[w].arg \in Argument(req[w].op)
           /\ req[w].form \in Forms
           /\ req[w].seen \in Row
<1>1. req[w] # Idle
  BY DEF Step, UpdateForm, SaveDraft, PublishViewSave, RotateLink, DeleteForm,
         CountOpenForms, SetState, LockRow, CommitPublish, Refuse, Crash, Serving, Idle
<1> QED BY <1>1 DEF TypeOK, Request

(* Ordinals without a gap have the head one expects.                       *)
LEMMA LastOfInterval ==
    ASSUME NEW S, NEW n \in Nat, S = 1..n
    PROVE  (IF S = {} THEN 0 ELSE CHOOSE k \in S : \A m \in S : m <= k) = n
<1>1. CASE n = 0
  BY <1>1
<1>2. CASE n # 0
  <2>1. S # {} /\ n \in S /\ \A m \in S : m <= n
    BY <1>2
  <2>2. \A k \in S : (\A m \in S : m <= k) => k = n
    BY <2>1
  <2> QED BY <2>1, <2>2
<1> QED BY <1>1, <1>2

LEMMA HeadOfDense ==
    ASSUME NEW f, NEW n \in Nat, Ordinals(f) = 1..n
    PROVE  HeadVersion(f) = n
BY LastOfInterval DEF HeadVersion

-----------------------------------------------------------------------------
(***************************************************************************)
(* The inductive invariant                                                 *)
(*                                                                         *)
(* ActiveIsHead and OrdinalsDense are not inductive alone: a publish       *)
(* commits the ordinal after a head it read in an earlier step, so the     *)
(* invariant says what a request that holds the row lock knows; and a      *)
(* state change writes on the strength of a row it read earlier, so it     *)
(* says what survives of a row once read (a published form stays           *)
(* published).                                                             *)
(***************************************************************************)
ValidatedWhenLocked ==
    \A w \in Workers : req[w] # Idle /\ req[w].step = "locked" =>
       req[w].op = "publish" /\ CanPublish(req[w])

(* Dense ordinals that end at the active version, one row each.            *)
VersionsUpToActive ==
    /\ \A f \in Forms : Ordinals(f) = 1..form[f].active
    /\ \A u, v \in version : u.form = v.form /\ u.version = v.version => u = v

(* The holder of a row lock knows the active version of that form.         *)
HeadKnown ==
    \A w \in Workers : req[w] # Idle /\ req[w].step = "locked" =>
       lock[req[w].form] = w /\ req[w].head = form[req[w].form].active

(* An instance that showed a published or open form is of a form that is   *)
(* published now.                                                          *)
StaysPublished ==
    \A w \in Workers : req[w] # Idle =>
       ((req[w].seen.active # 0 \/ req[w].seen.state = "open")
           => form[req[w].form].active # 0)

(* Nothing happens to a form before it is created.                         *)
AbsentIsBlank ==
    /\ \A f \in Forms : form[f].life = "absent" => form[f] = Blank
    /\ \A w \in Workers : req[w] # Idle => form[req[w].form].life # "absent"

EveryVersionAnnounced == published = {<<v.form, v.version>> : v \in version}

ClosedWasPublished == \A f \in Forms : closed[f] > 0 => form[f].active # 0

IInv ==
    /\ TypeOK
    /\ ValidatedWhenLocked
    /\ VersionsUpToActive
    /\ HeadKnown
    /\ OpenHasVersion
    /\ StaysPublished
    /\ AbsentIsBlank
    /\ EveryVersionAnnounced
    /\ ClosedWasPublished

(***************************************************************************)
(* Type correctness                                                        *)
(***************************************************************************)
LEMMA TypeStep ==
    ASSUME TypeOK, \A f \in Forms : HeadVersion(f) \in Nat, ValidatedWhenLocked, [Next]_vars
    PROVE  TypeOK'
<1> USE IdleIsNoRequest
<1>1. CASE UNCHANGED vars
  BY <1>1 DEF vars, TypeOK
<1>2. ASSUME NEW f \in Forms, CreateForm(f) PROVE TypeOK'
  <2>1. PICK d \in Schemas \cup {None}, s \in Settings :
           form' = [form EXCEPT ![f] = [Blank EXCEPT !.life = "live", !.handle = 1,
                                                     !.draft = d, !.settings = s]]
    BY <1>2 DEF CreateForm
  <2>2. [Blank EXCEPT !.life = "live", !.handle = 1, !.draft = d, !.settings = s] \in Row
    BY DEF Blank, Row, States
  <2> QED BY <1>2, <2>1, <2>2 DEF CreateForm, TypeOK
<1>3. ASSUME NEW w \in Workers, NEW f \in Forms, NEW op \in Requested, Load(w, f, op)
      PROVE TypeOK'
  <2>1. op \in Operations
    BY RequestedAssumption
  <2>2. PICK a \in Argument(op) :
           req' = [req EXCEPT ![w] = [op |-> op, form |-> f, arg |-> a, step |-> "loaded",
                                      seen |-> Instance(op, form[f]), head |-> 0]]
    BY <1>3 DEF Load
  <2>3. Instance(op, form[f]) \in Row
    BY <2>1, InstanceType DEF TypeOK
  <2>4. [op |-> op, form |-> f, arg |-> a, step |-> "loaded",
         seen |-> Instance(op, form[f]), head |-> 0] \in Request
    BY <2>1, <2>3 DEF Request
  <2> QED BY <1>3, <2>1, <2>2, <2>4 DEF Load, TypeOK
<1>4. ASSUME NEW w \in Workers, Step(w) PROVE TypeOK'
  <2> DEFINE r == req[w]
  <2>0. /\ r \in Request /\ r.arg \in Argument(r.op)
        /\ r.form \in Forms /\ r.seen \in Row /\ form[r.form] \in Row
    BY <1>4, BusyType DEF TypeOK
  <2>1. CASE UpdateForm(w)
    <3>1. (IF r.arg = None THEN r.seen.settings ELSE r.arg) \in Settings \cup {None}
      BY <2>0, <2>1, ArgumentType DEF UpdateForm, Serving, Row
    <3> QED BY <2>0, <2>1, <3>1 DEF UpdateForm, Done, TypeOK, Row
  <2>2. CASE SaveDraft(w)
    BY <2>0, <2>2, ArgumentType DEF SaveDraft, Serving, Done, TypeOK, Row
  <2>3. CASE PublishViewSave(w)
    <3>1. r.arg \in Schemas
      BY <2>0, <2>3, ArgumentType DEF PublishViewSave, Serving
    <3> DEFINE q == [op |-> "publish", form |-> r.form, arg |-> None, step |-> "loaded",
                     seen |-> [r.seen EXCEPT !.draft = r.arg], head |-> 0]
    <3>2. q \in Request /\ q.arg \in Argument(q.op)
      BY <2>0, <3>1 DEF Request, Operations, Argument, Row
    <3>3. req' = [req EXCEPT ![w] = q]
      BY <2>3 DEF PublishViewSave
    <3>4. form' \in [Forms -> Row]
      BY <2>0, <2>3, <3>1 DEF PublishViewSave, TypeOK, Row
    <3> HIDE DEF q
    <3> QED BY <2>3, <3>2, <3>3, <3>4 DEF PublishViewSave, TypeOK
  <2>4. CASE RotateLink(w)
    BY <2>0, <2>4 DEF RotateLink, Done, TypeOK, Row
  <2>5. CASE DeleteForm(w)
    <3>1. form' \in [Forms -> Row]
      BY <2>0, <2>5 DEF DeleteForm, TypeOK, Row
    <3> QED BY <2>0, <2>5, <3>1 DEF DeleteForm, Done, TypeOK
  <2>6. CASE CountOpenForms(w)
    BY <2>0, <2>6 DEF CountOpenForms, TypeOK, Request
  <2>7. CASE SetState(w)
    <3>1. form' \in [Forms -> Row]
      BY <2>0, <2>7, ArgumentType DEF SetState, Serving, TypeOK, Row
    <3> QED BY <2>0, <2>7, <3>1 DEF SetState, Done, TypeOK
  <2>8. CASE LockRow(w)
    BY <2>0, <2>8 DEF LockRow, TypeOK, Request
  <2>9. CASE CommitPublish(w)
    <3>1. r.head + 1 \in Nat
      BY <2>0 DEF Request
    <3>2. r.seen.draft \in Schemas
      BY <2>0, <2>9, FormAssumption DEF CommitPublish, Serving, ValidatedWhenLocked, CanPublish, Idle
    <3> QED BY <2>0, <2>9, <3>1, <3>2 DEF CommitPublish, Done, TypeOK, Row, Version
  <2>10. CASE Refuse(w)
    BY <2>10 DEF Refuse, Done, TypeOK
  <2>11. CASE Crash(w)
    BY <2>11 DEF Crash, Done, TypeOK
  <2> QED BY <1>4, <2>1, <2>2, <2>3, <2>4, <2>5, <2>6, <2>7, <2>8, <2>9, <2>10, <2>11 DEF Step
<1> QED BY <1>1, <1>2, <1>3, <1>4 DEF Next

-----------------------------------------------------------------------------
(***************************************************************************)
(* Induction                                                               *)
(***************************************************************************)
LEMMA IInvInit == Init => IInv
<1> SUFFICES ASSUME Init PROVE IInv
  OBVIOUS
<1>1. \A f \in Forms : Ordinals(f) = {} /\ form[f].active = 0 /\ form[f].state = "draft"
  BY DEF Init, Ordinals, Blank
<1>2. \A w \in Workers : req[w] = Idle
  BY DEF Init
<1>3. VersionsUpToActive
  BY <1>1 DEF VersionsUpToActive, Init
<1>4. EveryVersionAnnounced
  BY DEF EveryVersionAnnounced, Init
<1>5. ClosedWasPublished /\ OpenHasVersion
  BY <1>1 DEF ClosedWasPublished, OpenHasVersion, Init
<1> QED BY <1>2, <1>3, <1>4, <1>5, InitType
        DEF IInv, Init, ValidatedWhenLocked, HeadKnown, StaysPublished, AbsentIsBlank

(* The head a query reads is the active version.                           *)
LEMMA HeadIsActive ==
    ASSUME IInv, NEW f \in Forms
    PROVE  HeadVersion(f) = form[f].active /\ HeadVersion(f) \in Nat
<1>1. form[f].active \in Nat
  BY DEF IInv, TypeOK, Row
<1> QED BY <1>1, HeadOfDense DEF IInv, VersionsUpToActive

(* What the invariant needs of a step that commits no publish.             *)
Quiet == /\ version' = version /\ published' = published
         /\ \A f \in Forms : form'[f].active = form[f].active

LEMMA QuietKeepsVersions ==
    ASSUME IInv, Quiet
    PROVE  VersionsUpToActive' /\ EveryVersionAnnounced'
<1>1. \A f \in Forms : Ordinals(f)' = Ordinals(f)
  BY DEF Quiet, Ordinals
<1> QED BY <1>1 DEF IInv, Quiet, VersionsUpToActive, EveryVersionAnnounced

(* A request that ends, and a row whose other columns change, disturb no   *)
(* clause about the requests.                                              *)
LEMMA DoneKeepsRequests ==
    ASSUME IInv, Quiet, NEW w \in Workers, Done(w),
           \A u \in Workers \ {w}, f \in Forms : lock[f] = u => lock'[f] = u,
           \A f \in Forms : form[f].life # "absent" => form'[f].life # "absent",
           \A f \in Forms : form'[f].life = "absent" => form'[f] = form[f]
    PROVE  ValidatedWhenLocked' /\ HeadKnown' /\ StaysPublished' /\ AbsentIsBlank'
<1>1. \A u \in Workers : req'[u] = IF u = w THEN Idle ELSE req[u]
  BY DEF Done, IInv, TypeOK
<1>2. \A u \in Workers : req[u] # Idle => req[u].form \in Forms
  BY DEF IInv, TypeOK, Request
<1>3. ValidatedWhenLocked'
  BY <1>1 DEF IInv, ValidatedWhenLocked, CanPublish
<1>4. HeadKnown'
  BY <1>1, <1>2 DEF IInv, HeadKnown, Quiet
<1>5. StaysPublished'
  BY <1>1, <1>2 DEF IInv, StaysPublished, Quiet
<1>6. AbsentIsBlank'
  BY <1>1, <1>2 DEF IInv, AbsentIsBlank
<1> QED BY <1>3, <1>4, <1>5, <1>6

LEMMA CreateFormStep ==
    ASSUME IInv, TypeOK', NEW f \in Forms, CreateForm(f)
    PROVE  IInv'
<1>1. PICK d \in Schemas \cup {None}, s \in Settings :
         form' = [form EXCEPT ![f] = [Blank EXCEPT !.life = "live", !.handle = 1,
                                                   !.draft = d, !.settings = s]]
  BY DEF CreateForm
<1>2. form[f] = Blank
  BY DEF CreateForm, IInv, AbsentIsBlank
<1>3. form'[f].active = 0 /\ form'[f].state = "draft" /\ form'[f].life = "live"
  BY <1>1 DEF Blank, IInv, TypeOK
<1>4. \A g \in Forms \ {f} : form'[g] = form[g]
  BY <1>1 DEF IInv, TypeOK
<1>5. Quiet
  BY <1>2, <1>3, <1>4 DEF CreateForm, Quiet, Blank
<1>6. VersionsUpToActive' /\ EveryVersionAnnounced'
  BY <1>5, QuietKeepsVersions
<1>7. \A w \in Workers : req[w] # Idle => req[w].form \in Forms
  BY DEF IInv, TypeOK, Request
<1>8. ValidatedWhenLocked' /\ HeadKnown' /\ StaysPublished'
  BY <1>5, <1>7 DEF CreateForm, IInv, ValidatedWhenLocked, CanPublish, HeadKnown, StaysPublished, Quiet
<1>9. AbsentIsBlank'
  BY <1>3, <1>4, <1>7 DEF CreateForm, IInv, AbsentIsBlank
<1>10. OpenHasVersion' /\ ClosedWasPublished'
  BY <1>3, <1>4, <1>5 DEF CreateForm, IInv, OpenHasVersion, ClosedWasPublished, Quiet
<1> QED BY <1>6, <1>8, <1>9, <1>10 DEF IInv

LEMMA LoadStep ==
    ASSUME IInv, TypeOK', NEW w \in Workers, NEW f \in Forms, NEW op \in Operations, Load(w, f, op)
    PROVE  IInv'
<1>1. PICK a \in Argument(op) :
         req' = [req EXCEPT ![w] = [op |-> op, form |-> f, arg |-> a, step |-> "loaded",
                                    seen |-> Instance(op, form[f]), head |-> 0]]
  BY DEF Load
<1>2. /\ req'[w] = [op |-> op, form |-> f, arg |-> a, step |-> "loaded",
                    seen |-> Instance(op, form[f]), head |-> 0]
      /\ \A u \in Workers \ {w} : req'[u] = req[u]
  BY <1>1 DEF IInv, TypeOK
<1>3. Quiet
  BY DEF Load, Quiet
<1>4. VersionsUpToActive' /\ EveryVersionAnnounced'
  BY <1>3, QuietKeepsVersions
<1>5. ValidatedWhenLocked' /\ HeadKnown'
  BY <1>2 DEF Load, IInv, ValidatedWhenLocked, CanPublish, HeadKnown
<1>6. /\ Instance(op, form[f]).active # 0 => form[f].active # 0
      /\ Instance(op, form[f]).state = "open" => form[f].state = "open"
  BY DEF Instance, Operations, Blank, IInv, TypeOK, Row
<1>7. StaysPublished'
  BY <1>2, <1>6 DEF Load, IInv, StaysPublished, OpenHasVersion
<1>8. AbsentIsBlank'
  BY <1>2 DEF Load, IInv, AbsentIsBlank
<1>9. OpenHasVersion' /\ ClosedWasPublished'
  BY DEF Load, IInv, OpenHasVersion, ClosedWasPublished
<1> QED BY <1>4, <1>5, <1>7, <1>8, <1>9 DEF IInv

(* A request of a worker that ends by writing columns other than active.   *)
LEMMA WriteStep ==
    ASSUME IInv, TypeOK', NEW w \in Workers,
           UpdateForm(w) \/ SaveDraft(w) \/ RotateLink(w) \/ DeleteForm(w) \/ SetState(w)
    PROVE  IInv'
<1> DEFINE r == req[w]
<1>0. Step(w)
  BY DEF Step
<1>1. r # Idle /\ r \in Request /\ r.form \in Forms /\ r.arg \in Argument(r.op)
  BY <1>0, BusyType, IdleIsNoRequest DEF IInv
<1>2. \A f \in Forms : form'[f].active = form[f].active
  BY <1>1 DEF UpdateForm, SaveDraft, RotateLink, DeleteForm, SetState, IInv, TypeOK, Row
<1>3. Quiet
  BY <1>2 DEF Quiet, UpdateForm, SaveDraft, RotateLink, DeleteForm, SetState
<1>4. VersionsUpToActive' /\ EveryVersionAnnounced'
  BY <1>3, QuietKeepsVersions
<1>5. form[r.form].life # "absent"
  BY <1>1 DEF IInv, AbsentIsBlank
<1>6. /\ \A f \in Forms : form[f].life # "absent" => form'[f].life # "absent"
      /\ \A f \in Forms : form'[f].life = "absent" => form'[f] = form[f]
  BY <1>1, <1>5 DEF UpdateForm, SaveDraft, RotateLink, DeleteForm, SetState, IInv, TypeOK, Row
<1>7. Done(w) /\ lock' = lock
  BY DEF UpdateForm, SaveDraft, RotateLink, DeleteForm, SetState
<1>8. ValidatedWhenLocked' /\ HeadKnown' /\ StaysPublished' /\ AbsentIsBlank'
  BY <1>3, <1>6, <1>7, DoneKeepsRequests
<1>9. OpenHasVersion'
  <2>1. CASE SetState(w)
    <3>1. r.arg = "open" => form[r.form].active # 0
      BY <1>1, <2>1 DEF SetState, HasVersion, IInv, StaysPublished
    <3>2. \A f \in Forms : form'[f].state = IF f = r.form THEN r.arg ELSE form[f].state
      BY <1>1, <2>1 DEF SetState, IInv, TypeOK, Row
    <3> QED BY <1>1, <1>2, <3>1, <3>2 DEF IInv, OpenHasVersion
  <2>2. CASE ~SetState(w)
    <3>1. \A f \in Forms : form'[f].state = form[f].state
      BY <1>1, <2>2 DEF UpdateForm, SaveDraft, RotateLink, DeleteForm, IInv, TypeOK, Row
    <3> QED BY <1>2, <3>1 DEF IInv, OpenHasVersion
  <2> QED BY <2>1, <2>2
<1>10. ClosedWasPublished'
  <2>1. \A f \in Forms : closed'[f] # closed[f] => f = r.form /\ r.seen.state = "open"
    BY <1>1 DEF UpdateForm, SaveDraft, RotateLink, DeleteForm, SetState, IInv, TypeOK
  <2>2. r.seen.state = "open" => form[r.form].active # 0
    BY <1>1 DEF IInv, StaysPublished
  <2> QED BY <1>2, <2>1, <2>2 DEF IInv, ClosedWasPublished
<1> QED BY <1>4, <1>8, <1>9, <1>10 DEF IInv

(* The steps inside an operation that write no form row: the count, the    *)
(* row lock, a refusal, a crash.                                           *)
LEMMA InnerStep ==
    ASSUME IInv, TypeOK', NEW w \in Workers,
           CountOpenForms(w) \/ LockRow(w) \/ Refuse(w) \/ Crash(w)
    PROVE  IInv'
<1> DEFINE r == req[w]
<1>1. r # Idle /\ r \in Request /\ r.form \in Forms
  BY BusyType DEF IInv, TypeOK, Request, CountOpenForms, LockRow, Refuse, Crash, Serving, Idle
<1>2. Quiet /\ form' = form /\ closed' = closed
  BY DEF Quiet, CountOpenForms, LockRow, Refuse, Crash
<1>3. VersionsUpToActive' /\ EveryVersionAnnounced' /\ OpenHasVersion' /\ ClosedWasPublished'
  BY <1>2, QuietKeepsVersions DEF IInv, OpenHasVersion, ClosedWasPublished
<1>4. CASE CountOpenForms(w)
  <2>1. \A u \in Workers : req'[u] = IF u = w THEN [r EXCEPT !.step = "counted"] ELSE req[u]
    BY <1>4 DEF CountOpenForms, IInv, TypeOK
  <2>2. [r EXCEPT !.step = "counted"].step = "counted"
    BY <1>1 DEF Request
  <2>3. ValidatedWhenLocked' /\ HeadKnown'
    BY <1>2, <1>4, <2>1, <2>2 DEF CountOpenForms, IInv, ValidatedWhenLocked, HeadKnown, CanPublish
  <2>4. StaysPublished' /\ AbsentIsBlank'
    BY <1>1, <1>2, <2>1 DEF IInv, StaysPublished, AbsentIsBlank, Request
  <2> QED BY <1>3, <2>3, <2>4 DEF IInv
<1>5. CASE LockRow(w)
  <2> DEFINE q == [r EXCEPT !.step = "locked", !.head = HeadVersion(r.form)]
  <2>1. \A u \in Workers : req'[u] = IF u = w THEN q ELSE req[u]
    BY <1>5 DEF LockRow, IInv, TypeOK
  <2>2. /\ q.op = "publish" /\ q.form = r.form /\ q.seen = r.seen
        /\ q.head = form[r.form].active /\ q.step = "locked"
    BY <1>1, <1>5, HeadIsActive DEF LockRow, Serving, Request
  <2> HIDE DEF q
  <2>3. ValidatedWhenLocked'
    BY <1>5, <2>1, <2>2 DEF LockRow, IInv, ValidatedWhenLocked, CanPublish
  <2>4. HeadKnown'
    <3>1. lock'[r.form] = w
      BY <1>1, <1>5 DEF LockRow, IInv, TypeOK
    <3>2. \A f \in Forms : lock[f] \in Workers => lock'[f] = lock[f]
      BY <1>5, FormAssumption DEF LockRow, Unlocked, IInv, TypeOK
    <3>3. \A u \in Workers : req[u] # Idle => req[u].form \in Forms
      BY DEF IInv, TypeOK, Request
    <3> QED BY <1>2, <2>1, <2>2, <3>1, <3>2, <3>3 DEF IInv, HeadKnown
  <2>5. StaysPublished' /\ AbsentIsBlank'
    BY <1>1, <1>2, <2>1, <2>2 DEF IInv, StaysPublished, AbsentIsBlank
  <2> QED BY <1>3, <2>3, <2>4, <2>5 DEF IInv
<1>6. CASE Refuse(w) \/ Crash(w)
  <2>1. Done(w) /\ \A u \in Workers \ {w}, f \in Forms : lock[f] = u => lock'[f] = u
    BY <1>6 DEF Refuse, Crash
  <2>2. ValidatedWhenLocked' /\ HeadKnown' /\ StaysPublished' /\ AbsentIsBlank'
    BY <1>2, <2>1, DoneKeepsRequests
  <2> QED BY <1>3, <2>2 DEF IInv
<1> QED BY <1>4, <1>5, <1>6

(* The admin's publish view saves the draft and goes on as a publish.      *)
LEMMA PublishViewSaveStep ==
    ASSUME IInv, TypeOK', NEW w \in Workers, PublishViewSave(w)
    PROVE  IInv'
<1> DEFINE r == req[w]
           q == [op |-> "publish", form |-> req[w].form, arg |-> None, step |-> "loaded",
                 seen |-> [req[w].seen EXCEPT !.draft = req[w].arg], head |-> 0]
<1>0. Step(w)
  BY DEF Step
<1>1. r # Idle /\ r \in Request /\ r.form \in Forms /\ r.seen \in Row
  BY <1>0, BusyType, IdleIsNoRequest DEF IInv
<1>2. /\ q.step = "loaded" /\ q.form = r.form /\ q # Idle
      /\ q.seen.active = r.seen.active /\ q.seen.state = r.seen.state
  BY <1>1 DEF Row, Idle
<1>3. \A u \in Workers : req'[u] = IF u = w THEN q ELSE req[u]
  BY DEF PublishViewSave, IInv, TypeOK
<1> HIDE DEF q
<1>4. \A f \in Forms : /\ form'[f].active = form[f].active
                       /\ form'[f].state = form[f].state
                       /\ form'[f].life = form[f].life
                       /\ f # r.form => form'[f] = form[f]
  BY <1>1 DEF PublishViewSave, IInv, TypeOK, Row
<1>5. Quiet
  BY <1>4 DEF Quiet, PublishViewSave
<1>6. VersionsUpToActive' /\ EveryVersionAnnounced'
  BY <1>5, QuietKeepsVersions
<1>7. \A u \in Workers : req[u] # Idle => req[u].form \in Forms
  BY DEF IInv, TypeOK, Request
<1>8. ValidatedWhenLocked'
  BY <1>2, <1>3 DEF IInv, ValidatedWhenLocked, CanPublish
<1>9. HeadKnown'
  BY <1>2, <1>3, <1>4, <1>7 DEF PublishViewSave, IInv, HeadKnown
<1>10. StaysPublished'
  BY <1>1, <1>2, <1>3, <1>4, <1>7 DEF IInv, StaysPublished
<1>11. AbsentIsBlank'
  BY <1>1, <1>2, <1>3, <1>4, <1>7 DEF IInv, AbsentIsBlank
<1>12. OpenHasVersion' /\ ClosedWasPublished'
  BY <1>4 DEF PublishViewSave, IInv, OpenHasVersion, ClosedWasPublished
<1> QED BY <1>6, <1>8, <1>9, <1>10, <1>11, <1>12 DEF IInv

(* The commit of a publish: the ordinal after the head it read is free,    *)
(* because nobody else can have committed since it took the row lock.      *)
LEMMA CommitStep ==
    ASSUME IInv, TypeOK', NEW w \in Workers, CommitPublish(w)
    PROVE  IInv'
<1> DEFINE r == req[w]
           f == req[w].form
           n == req[w].head + 1
           v == [form |-> req[w].form, version |-> req[w].head + 1, schema |-> req[w].seen.draft]
<1>0. Step(w)
  BY DEF Step
<1>1. r # Idle /\ r \in Request /\ f \in Forms /\ r.step = "locked"
  BY <1>0, BusyType, IdleIsNoRequest DEF IInv, CommitPublish
<1>2. n = form[f].active + 1 /\ form[f].active \in Nat /\ lock[f] = w
  BY <1>1 DEF IInv, HeadKnown, TypeOK, Row
<1>3. \A g \in Forms : form'[g].active = IF g = f THEN n ELSE form[g].active
  BY <1>1 DEF CommitPublish, IInv, TypeOK, Row
<1>4. \A g \in Forms : /\ form'[g].state = form[g].state
                       /\ form'[g].life = form[g].life
  BY <1>1 DEF CommitPublish, IInv, TypeOK, Row
<1>5. form[f].life # "absent"
  BY <1>1 DEF IInv, AbsentIsBlank
<1>6. version' = version \cup {v} /\ v.form = f /\ v.version = n
  BY DEF CommitPublish
<1>7. \A g \in Forms : Ordinals(g)' = IF g = f THEN Ordinals(g) \cup {n} ELSE Ordinals(g)
  BY <1>6 DEF Ordinals
<1>8. VersionsUpToActive'
  <2>1. \A g \in Forms : Ordinals(g)' = 1..form'[g].active
    <3>1. SUFFICES ASSUME NEW g \in Forms PROVE Ordinals(g)' = 1..form'[g].active
      OBVIOUS
    <3>2. Ordinals(g) = 1..form[g].active
      BY DEF IInv, VersionsUpToActive
    <3>3. CASE g # f
      BY <1>3, <1>7, <3>2, <3>3
    <3>4. CASE g = f
      <4>1. Ordinals(g)' = (1..form[f].active) \cup {n}
        BY <1>7, <3>2, <3>4
      <4>2. (1..form[f].active) \cup {n} = 1..n
        BY <1>2
      <4> QED BY <1>3, <3>4, <4>1, <4>2
    <3> QED BY <3>3, <3>4
  <2>2. \A u \in version : ~(u.form = f /\ u.version = n)
    BY DEF CommitPublish, Ordinals
  <2> QED BY <1>6, <2>1, <2>2 DEF IInv, VersionsUpToActive
<1>9. EveryVersionAnnounced'
  BY <1>6 DEF CommitPublish, IInv, EveryVersionAnnounced
<1>10. \A u \in Workers : req'[u] = IF u = w THEN Idle ELSE req[u]
  BY DEF CommitPublish, Done, IInv, TypeOK
<1>11. \A u \in Workers : req[u] # Idle => req[u].form \in Forms
  BY DEF IInv, TypeOK, Request
<1>12. ValidatedWhenLocked'
  BY <1>10 DEF IInv, ValidatedWhenLocked, CanPublish
<1>13. HeadKnown'
  <2>1. \A g \in Forms : g # f => lock'[g] = lock[g]
    BY DEF CommitPublish, IInv, TypeOK
  <2>2. \A u \in Workers \ {w} : req[u] # Idle /\ req[u].step = "locked" => req[u].form # f
    BY <1>2 DEF IInv, HeadKnown
  <2> QED BY <1>3, <1>10, <1>11, <2>1, <2>2 DEF IInv, HeadKnown
<1>14. StaysPublished'
  BY <1>2, <1>3, <1>10, <1>11 DEF IInv, StaysPublished
<1>15. AbsentIsBlank'
  <2>1. \A g \in Forms : g # f => form'[g] = form[g]
    BY DEF CommitPublish, IInv, TypeOK
  <2> QED BY <1>4, <1>5, <1>10, <1>11, <2>1 DEF IInv, AbsentIsBlank
<1>16. OpenHasVersion' /\ ClosedWasPublished'
  <2>1. \A g \in Forms : form[g].active # 0 => form'[g].active # 0
    BY <1>2, <1>3
  <2>2. closed' = closed
    BY DEF CommitPublish
  <2> QED BY <1>4, <2>1, <2>2 DEF IInv, OpenHasVersion, ClosedWasPublished
<1> QED BY <1>8, <1>9, <1>12, <1>13, <1>14, <1>15, <1>16 DEF IInv

LEMMA IInvNext == IInv /\ [Next]_vars => IInv'
<1> SUFFICES ASSUME IInv, [Next]_vars PROVE IInv'
  OBVIOUS
<1>1. TypeOK'
  BY HeadIsActive, TypeStep DEF IInv
<1>2. CASE UNCHANGED vars
  <2>1. \A f \in Forms : Ordinals(f)' = Ordinals(f)
    BY <1>2 DEF vars, Ordinals
  <2> QED BY <1>1, <1>2, <2>1 DEF vars, IInv, ValidatedWhenLocked, CanPublish, VersionsUpToActive,
             HeadKnown, OpenHasVersion, StaysPublished, AbsentIsBlank, EveryVersionAnnounced,
             ClosedWasPublished
<1>3. ASSUME NEW f \in Forms, CreateForm(f) PROVE IInv'
  BY <1>1, <1>3, CreateFormStep
<1>4. ASSUME NEW w \in Workers, NEW f \in Forms, NEW op \in Requested, Load(w, f, op)
      PROVE IInv'
  BY <1>1, <1>4, LoadStep, RequestedAssumption
<1>5. ASSUME NEW w \in Workers, Step(w) PROVE IInv'
  <2>1. ASSUME PublishViewSave(w) PROVE IInv'
    BY <1>1, <2>1, PublishViewSaveStep
  <2> QED BY <1>1, <1>5, <2>1, WriteStep, InnerStep, CommitStep DEF Step
<1> QED BY <1>2, <1>3, <1>4, <1>5 DEF Next

THEOREM Induction == Spec => []IInv
<1> QED BY IInvInit, IInvNext, PTL DEF Spec

(* Every variable keeps its type.                                          *)
THEOREM TypeCorrect == Spec => []TypeOK
<1>1. IInv => TypeOK
  BY DEF IInv
<1> QED BY <1>1, Induction, PTL

(* Publishing under the row lock: the active version is the newest one.    *)
THEOREM ActiveAlwaysHead == Spec => []ActiveIsHead
<1>1. IInv => ActiveIsHead
  BY HeadIsActive DEF ActiveIsHead
<1> QED BY <1>1, Induction, PTL

(* Ordinals start at 1, have no gap, and name one row each.                *)
THEOREM OrdinalsAlwaysDense == Spec => []OrdinalsDense
<1>1. IInv => OrdinalsDense
  BY HeadIsActive DEF OrdinalsDense, IInv, VersionsUpToActive
<1> QED BY <1>1, Induction, PTL

(* The INSERT of a publish never meets the unique constraint.              *)
THEOREM HeadAlwaysReserved == Spec => []HeadReserved
<1>1. IInv => HeadReserved
  <2> SUFFICES ASSUME IInv PROVE HeadReserved
    OBVIOUS
  <2>1. \A w \in Workers : req[w] # Idle => req[w].form \in Forms
    BY DEF IInv, TypeOK, Request
  <2> QED BY <2>1, HeadIsActive DEF HeadReserved, IInv, HeadKnown
<1> QED BY <1>1, Induction, PTL

(* No race of state changes and publishes opens a form that has nothing to *)
(* show.                                                                   *)
THEOREM OpenAlwaysHasVersion == Spec => []OpenHasVersion
<1>1. IInv => OpenHasVersion
  BY DEF IInv
<1> QED BY <1>1, Induction, PTL

(* form.closed is never the first a subscriber hears of a form.            *)
THEOREM AlwaysAnnouncedBeforeClosed == Spec => []AnnouncedBeforeClosed
<1>1. IInv => AnnouncedBeforeClosed
  <2> SUFFICES ASSUME IInv, NEW f \in Forms, closed[f] > 0
               PROVE  <<f, 1>> \in published
    BY DEF AnnouncedBeforeClosed
  <2>1. form[f].active \in Nat /\ form[f].active # 0
    BY DEF IInv, ClosedWasPublished, TypeOK, Row
  <2>2. 1 \in Ordinals(f)
    BY <2>1 DEF IInv, VersionsUpToActive
  <2> QED BY <2>2 DEF Ordinals, IInv, EveryVersionAnnounced
<1> QED BY <1>1, Induction, PTL
-----------------------------------------------------------------------------
(***************************************************************************)
(* When form.closed is emitted, for a deployment that serves one request   *)
(* at a time.  With two of them the property is false: both may have read  *)
(* the row while it was open.                                              *)
(***************************************************************************)
OneAtATime == \A u, v \in Workers : u = v

(* What a request that may end the intake read is still so when it writes. *)
ReadIsCurrent ==
    \A w \in Workers : req[w] # Idle =>
       /\ form[req[w].form].life # "absent"
       /\ req[w].op \in {"state", "delete"} =>
             req[w].seen.state = form[req[w].form].state /\ Live(req[w].form)

(* A step that leaves the intake of every existing form as it was.         *)
IntakeStays ==
    /\ closed' = closed
    /\ \A f \in Forms : form[f].life # "absent" =>
          form'[f].state = form[f].state /\ form'[f].life = form[f].life

LEMMA CreateStays ==
    ASSUME TypeOK, NEW f \in Forms, CreateForm(f)
    PROVE  IntakeStays /\ req' = req
BY DEF CreateForm, TypeOK, IntakeStays

LEMMA ColumnsStay ==
    ASSUME TypeOK, NEW w \in Workers, Step(w), ~DeleteForm(w), ~SetState(w)
    PROVE  IntakeStays
<1>1. form \in [Forms -> Row] /\ req[w].form \in Forms
  BY BusyType DEF TypeOK
<1>2. CASE form' = form
  BY <1>2 DEF Step, UpdateForm, SaveDraft, PublishViewSave, RotateLink, CountOpenForms,
              LockRow, CommitPublish, Refuse, Crash, IntakeStays
<1>3. CASE UpdateForm(w)
  BY <1>1, <1>3 DEF UpdateForm, IntakeStays, Row
<1>4. CASE SaveDraft(w) \/ PublishViewSave(w)
  BY <1>1, <1>4 DEF SaveDraft, PublishViewSave, IntakeStays, Row
<1>5. CASE RotateLink(w)
  BY <1>1, <1>5 DEF RotateLink, IntakeStays, Row
<1>6. CASE CommitPublish(w)
  BY <1>1, <1>6 DEF CommitPublish, IntakeStays, Row
<1> QED BY <1>2, <1>3, <1>4, <1>5, <1>6
        DEF Step, CountOpenForms, LockRow, Refuse, Crash

(* What the only request makes of itself: it is over, or goes on as it     *)
(* was, or becomes the publish of publish_view.                            *)
LEMMA RequestGoesOn ==
    ASSUME TypeOK, NEW w \in Workers, Step(w)
    PROVE  \/ req'[w] = Idle
           \/ /\ req'[w].form = req[w].form /\ req[w] # Idle
              /\ \/ req'[w].op = "publish"
                 \/ req'[w].op = req[w].op /\ req'[w].seen = req[w].seen
<1>0. req[w] \in Request
  BY BusyType
<1>1. req \in [Workers -> Request \cup {Idle}] /\ req[w] # Idle
  BY <1>0, IdleIsNoRequest DEF TypeOK
<1>2. CASE PublishViewSave(w)
  BY <1>1, <1>2 DEF PublishViewSave
<1>3. CASE CountOpenForms(w) \/ LockRow(w)
  BY <1>0, <1>1, <1>3 DEF CountOpenForms, LockRow, Request
<1> QED BY <1>1, <1>2, <1>3
        DEF Step, UpdateForm, SaveDraft, RotateLink, DeleteForm, SetState, CommitPublish,
            Refuse, Crash, Done

LEMMA ReadStaysCurrent ==
    ASSUME OneAtATime
    PROVE  TypeOK /\ ReadIsCurrent /\ [Next]_vars => ReadIsCurrent'
<1> SUFFICES ASSUME TypeOK, ReadIsCurrent, [Next]_vars PROVE ReadIsCurrent'
  OBVIOUS
<1>1. \A w \in Workers : req[w] # Idle => req[w].form \in Forms
  BY DEF TypeOK, Request
<1>2. ASSUME NEW f \in Forms, CreateForm(f) PROVE ReadIsCurrent'
  BY <1>1, <1>2, CreateStays DEF ReadIsCurrent, IntakeStays, Live
<1>3. ASSUME NEW w \in Workers, NEW f \in Forms, NEW op \in Requested, Load(w, f, op)
      PROVE  ReadIsCurrent'
  <2>1. PICK a \in Argument(op) :
           req' = [req EXCEPT ![w] = [op |-> op, form |-> f, arg |-> a, step |-> "loaded",
                                      seen |-> Instance(op, form[f]), head |-> 0]]
    BY <1>3 DEF Load
  <2>2. /\ req'[w].form = f /\ req'[w].op = op /\ req'[w].seen = Instance(op, form[f])
        /\ \A u \in Workers : u = w
    BY <2>1 DEF TypeOK, OneAtATime
  <2>3. form' = form /\ form[f].life # "absent" /\ (op \in {"state", "delete"} => Live(f))
    BY <1>3 DEF Load, Live
  <2>4. op \in {"state", "delete"} => Instance(op, form[f]).state = form[f].state
    BY DEF Instance, Blank
  <2> QED BY <2>2, <2>3, <2>4 DEF ReadIsCurrent, Live
<1>4. ASSUME NEW w \in Workers, Step(w) PROVE ReadIsCurrent'
  <2>1. \A u \in Workers : u = w
    BY DEF OneAtATime
  <2>2. CASE DeleteForm(w) \/ SetState(w)
    <3>1. req'[w] = Idle
      BY <2>2 DEF DeleteForm, SetState, Done, TypeOK
    <3> QED BY <2>1, <3>1 DEF ReadIsCurrent
  <2>3. CASE ~DeleteForm(w) /\ ~SetState(w)
    <3>1. IntakeStays
      BY <1>4, <2>3, ColumnsStay
    <3>2. SUFFICES ASSUME req'[w] # Idle
                   PROVE  /\ form'[req'[w].form].life # "absent"
                          /\ req'[w].op \in {"state", "delete"} =>
                                /\ req'[w].seen.state = form'[req'[w].form].state
                                /\ form'[req'[w].form].life = "live"
      BY <2>1 DEF ReadIsCurrent, Live
    <3>3. /\ req'[w].form = req[w].form /\ req[w] # Idle
          /\ \/ req'[w].op = "publish"
             \/ req'[w].op = req[w].op /\ req'[w].seen = req[w].seen
      BY <1>4, <3>2, RequestGoesOn
    <3> QED BY <1>1, <3>1, <3>3 DEF ReadIsCurrent, IntakeStays, Live
  <2> QED BY <2>2, <2>3
<1>5. CASE UNCHANGED vars
  BY <1>5 DEF vars, ReadIsCurrent, Live
<1> QED BY <1>2, <1>3, <1>4, <1>5 DEF Next

(* One request at a time emits form.closed exactly when it closes or       *)
(* deletes an open form: the stale was_open of two requests is the only    *)
(* reason for a second event or a missing one, the way back to draft the   *)
(* only end of an intake that is never announced.                          *)
THEOREM OneAtATimeAnnouncesClosing ==
    ASSUME OneAtATime
    PROVE  Spec => ClosingIsAnnounced
<1>1. IntakeStays => AnnouncesClosing
  BY DEF AnnouncesClosing, IntakeStays, EndsIntake, TakesAnswers
<1>2. ASSUME TypeOK, ReadIsCurrent, NEW w \in Workers, Step(w) PROVE AnnouncesClosing
  <2>0. req[w] \in Request /\ req[w].form \in Forms
    BY <1>2, BusyType
  <2>1. /\ req[w] # Idle /\ req[w].form \in Forms
        /\ form \in [Forms -> Row] /\ form[req[w].form] \in Row /\ closed \in [Forms -> Nat]
    BY <1>2, <2>0, IdleIsNoRequest DEF TypeOK
  <2> DEFINE g == req[w].form
  <2>2. CASE DeleteForm(w)
    <3>0. req[w].op = "delete"
      BY <2>2 DEF DeleteForm, Serving
    <3>1. /\ form[g].state = req[w].seen.state /\ Live(g)
          /\ form'[g].life = "deleted" /\ form'[g].state = form[g].state
          /\ \A f \in Forms \ {g} : form'[f] = form[f]
      <4>1. form[g].state = req[w].seen.state /\ Live(g)
        BY <1>2, <2>1, <3>0 DEF ReadIsCurrent
      <4>2. form' = [form EXCEPT ![g].life = "deleted"]
        BY <2>2 DEF DeleteForm
      <4>3. /\ form'[g].life = "deleted" /\ form'[g].state = form[g].state
            /\ \A f \in Forms \ {g} : form'[f] = form[f]
        BY <2>1, <4>2 DEF Row
      <4> QED BY <4>1, <4>3
    <3>2. closed' = IF req[w].seen.state = "open" THEN [closed EXCEPT ![g] = @ + 1] ELSE closed
      BY <2>2 DEF DeleteForm
    <3>3. /\ closed'[g] # closed[g] <=> req[w].seen.state = "open"
          /\ \A f \in Forms \ {g} : closed'[f] = closed[f]
      BY <2>1, <3>2
    <3> QED BY <3>1, <3>3 DEF AnnouncesClosing, EndsIntake, TakesAnswers, Live
  <2>3. CASE SetState(w)
    <3>0. req[w].op = "state"
      BY <2>3 DEF SetState, Serving
    <3>1. /\ form[g].state = req[w].seen.state /\ Live(g)
          /\ form'[g].life = form[g].life /\ form'[g].state = req[w].arg
          /\ \A f \in Forms \ {g} : form'[f] = form[f]
      <4>1. form[g].state = req[w].seen.state /\ Live(g)
        BY <1>2, <2>1, <3>0 DEF ReadIsCurrent
      <4>2. form' = [form EXCEPT ![g].state = req[w].arg]
        BY <2>3 DEF SetState
      <4>3. /\ form'[g].life = form[g].life /\ form'[g].state = req[w].arg
            /\ \A f \in Forms \ {g} : form'[f] = form[f]
        BY <2>1, <4>2 DEF Row
      <4> QED BY <4>1, <4>3
    <3>2. closed' = IF req[w].arg = "closed" /\ req[w].seen.state = "open"
                    THEN [closed EXCEPT ![g] = @ + 1] ELSE closed
      BY <2>3 DEF SetState
    <3>3. /\ closed'[g] # closed[g] <=> (req[w].arg = "closed" /\ req[w].seen.state = "open")
          /\ \A f \in Forms \ {g} : closed'[f] = closed[f]
      BY <2>1, <3>2
    <3>4. req[w].arg \in States
      BY <1>2, <2>1, <3>0 DEF TypeOK, Argument
    <3> QED BY <3>1, <3>3, <3>4 DEF AnnouncesClosing, EndsIntake, TakesAnswers, Live, States
  <2>4. CASE ~DeleteForm(w) /\ ~SetState(w)
    BY <1>1, <1>2, <2>4, ColumnsStay
  <2> QED BY <2>2, <2>3, <2>4
<1>3. TypeOK /\ ReadIsCurrent /\ [Next]_vars => [AnnouncesClosing]_vars
  <2>1. ASSUME TypeOK, NEW w \in Workers, NEW f \in Forms, NEW op, Load(w, f, op)
        PROVE  IntakeStays
    BY <2>1 DEF Load, IntakeStays
  <2> QED BY <1>1, <1>2, <2>1, CreateStays DEF Next
<1>4. Init => ReadIsCurrent
  BY DEF Init, ReadIsCurrent
<1> QED BY <1>3, <1>4, TypeCorrect, ReadStaysCurrent, PTL DEF Spec, ClosingIsAnnounced
-----------------------------------------------------------------------------
(***************************************************************************)
(* How far MAX_OPEN_FORMS_PER_WORKSPACE can be exceeded, for any number of *)
(* forms, workspaces and concurrent requests.                              *)
(***************************************************************************)

(* A form counts against the bound from the moment a request has decided   *)
(* to open it (it counted, or it read the row while it was open) and not   *)
(* only from its write: that is what makes the bound inductive.  A request *)
(* adds its form in CountOpenForms only, where fewer than OpenCap forms    *)
(* are open.                                                               *)
OpeningForms == {req[w].form : w \in {u \in Workers : Opening(u)}}

OpenOrOpening(ws) ==
    OpenForms(ws) \cup {f \in OpeningForms : WorkspaceOf[f] = ws /\ Live(f)}

CapInv ==
    OpenCap > 0 => \A ws \in Workspaces :
       Cardinality(OpenOrOpening(ws)) + 1 <= OpenCap + Cardinality(Workers)

LEMMA FiniteForms ==
    ASSUME TypeOK, NEW ws
    PROVE  /\ IsFiniteSet(OpenForms(ws)) /\ Cardinality(OpenForms(ws)) \in Nat
           /\ IsFiniteSet(OpenOrOpening(ws)) /\ Cardinality(OpenOrOpening(ws)) \in Nat
           /\ Cardinality(OpenForms(ws)) <= Cardinality(OpenOrOpening(ws))
           /\ Cardinality(Workers) \in Nat
<1>1. OpenForms(ws) \in SUBSET Forms
  BY DEF OpenForms
<1>2. OpeningForms \subseteq Forms
  BY DEF OpeningForms, Opening, TypeOK, Request
<1>3. OpenOrOpening(ws) \in SUBSET Forms /\ OpenForms(ws) \in SUBSET OpenOrOpening(ws)
  BY <1>1, <1>2 DEF OpenOrOpening
<1>4. IsFiniteSet(OpenForms(ws)) /\ IsFiniteSet(OpenOrOpening(ws))
  BY <1>1, <1>3, FiniteAssumption, FS_Subset
<1> QED BY <1>3, <1>4, FiniteAssumption, FS_Subset, FS_CardinalityType

(* A set of requests is about no more forms than there are requests.       *)
LEMMA FewForms ==
    ASSUME NEW W \in SUBSET Workers, NEW q
    PROVE  /\ IsFiniteSet({q[w].form : w \in W})
           /\ Cardinality({q[w].form : w \in W}) <= Cardinality(Workers)
           /\ Cardinality({q[w].form : w \in W}) \in Nat
<1> DEFINE F == {q[w].form : w \in W}
           g == [w \in W |-> q[w].form]
<1>1. IsFiniteSet(W) /\ Cardinality(W) <= Cardinality(Workers)
  BY FiniteAssumption, FS_Subset
<1>2. g \in Surjection(W, F)
  BY DEF Surjection
<1> HIDE DEF g, F
<1>3. IsFiniteSet(F) /\ Cardinality(F) <= Cardinality(W)
  BY <1>1, <1>2, FS_Surjection
<1>4. IsFiniteSet(F) /\ Cardinality(F) <= Cardinality(Workers) /\ Cardinality(F) \in Nat
  BY <1>1, <1>3, FiniteAssumption, FS_CardinalityType
<1> QED BY <1>4 DEF F

(* A step that adds no form to OpenOrOpening keeps the bound.              *)
LEMMA NoNewForm ==
    ASSUME TypeOK, CapInv,
           \A ws \in Workspaces : OpenOrOpening(ws)' \subseteq OpenOrOpening(ws)
    PROVE  CapInv'
<1> SUFFICES ASSUME OpenCap > 0, NEW ws \in Workspaces
             PROVE  Cardinality(OpenOrOpening(ws)') + 1 <= OpenCap + Cardinality(Workers)
  BY DEF CapInv
<1>1. IsFiniteSet(OpenOrOpening(ws)) /\ OpenOrOpening(ws)' \in SUBSET OpenOrOpening(ws)
  BY FiniteForms
<1>2. /\ IsFiniteSet(OpenOrOpening(ws)')
      /\ Cardinality(OpenOrOpening(ws)') <= Cardinality(OpenOrOpening(ws))
  BY <1>1, FS_Subset
<1>3. /\ Cardinality(OpenOrOpening(ws)') \in Nat /\ Cardinality(OpenOrOpening(ws)) \in Nat
      /\ Cardinality(Workers) \in Nat
  BY <1>1, <1>2, FS_CardinalityType, FiniteAssumption
<1>4. Cardinality(OpenOrOpening(ws)) + 1 <= OpenCap + Cardinality(Workers)
  BY DEF CapInv
<1> QED BY <1>2, <1>3, <1>4, BoundAssumption

(* The count: fewer than OpenCap forms are open, and the requests in       *)
(* progress add one each at most.                                          *)
LEMMA CountKeepsCap ==
    ASSUME TypeOK, TypeOK', CapInv, NEW w \in Workers, CountOpenForms(w)
    PROVE  CapInv'
<1> SUFFICES ASSUME OpenCap > 0, NEW ws \in Workspaces
             PROVE  Cardinality(OpenOrOpening(ws)') + 1 <= OpenCap + Cardinality(Workers)
  BY DEF CapInv
<1>0. req[w] \in Request /\ req[w].form \in Forms /\ Step(w)
  BY BusyType DEF Step
<1>1. CASE ws = WorkspaceOf[req[w].form]
  <2>1. OpenForms(ws)' = OpenForms(ws)
    BY DEF CountOpenForms, OpenForms, Live
  <2>2. Cardinality(OpenForms(ws)) < OpenCap
    BY <1>1 DEF CountOpenForms
  <2>3. OpenOrOpening(ws)' \in SUBSET (OpenForms(ws) \cup OpeningForms')
    BY <2>1 DEF OpenOrOpening
  <2>4. /\ IsFiniteSet(OpenForms(ws)) /\ Cardinality(OpenForms(ws)) \in Nat
        /\ Cardinality(Workers) \in Nat
    BY FiniteForms
  <2>5. /\ IsFiniteSet(OpeningForms') /\ Cardinality(OpeningForms') <= Cardinality(Workers)
        /\ Cardinality(OpeningForms') \in Nat
    <3> DEFINE W == {u \in Workers : Opening(u)'}
    <3>1. OpeningForms' = {req'[u].form : u \in W}
      BY DEF OpeningForms
    <3>2. W \in SUBSET Workers
      OBVIOUS
    <3> HIDE DEF W
    <3> QED BY <3>1, <3>2, FewForms
  <2>6. /\ IsFiniteSet(OpenForms(ws) \cup OpeningForms')
        /\ Cardinality(OpenForms(ws) \cup OpeningForms')
              <= Cardinality(OpenForms(ws)) + Cardinality(OpeningForms')
        /\ Cardinality(OpenForms(ws) \cup OpeningForms') \in Nat
    <3>1. /\ IsFiniteSet(OpenForms(ws) \cup OpeningForms')
          /\ Cardinality(OpenForms(ws) \cup OpeningForms') =
                Cardinality(OpenForms(ws)) + Cardinality(OpeningForms')
                   - Cardinality(OpenForms(ws) \cap OpeningForms')
      BY <2>4, <2>5, FS_Union
    <3>2. Cardinality(OpenForms(ws) \cap OpeningForms') \in Nat
      BY <2>4, FS_Intersection, FS_CardinalityType
    <3> QED BY <2>4, <2>5, <3>1, <3>2, FS_CardinalityType
  <2>7. /\ Cardinality(OpenOrOpening(ws)') <= Cardinality(OpenForms(ws) \cup OpeningForms')
        /\ Cardinality(OpenOrOpening(ws)') \in Nat
    BY <2>3, <2>6, FS_Subset, FS_CardinalityType
  <2> QED BY <2>2, <2>4, <2>5, <2>6, <2>7, BoundAssumption
<1>2. CASE ws # WorkspaceOf[req[w].form]
  <2>1. OpenOrOpening(ws)' \subseteq OpenOrOpening(ws)
    <3>1. \A u \in Workers : req'[u] # req[u] => u = w
      BY DEF CountOpenForms, TypeOK
    <3>2. req'[w].form = req[w].form
      BY <1>0 DEF CountOpenForms, TypeOK, Request
    <3>3. \A u \in Workers : Opening(u)' /\ u # w => Opening(u)
      BY <3>1 DEF Opening, Serving
    <3> QED BY <1>2, <3>1, <3>2, <3>3
            DEF OpenOrOpening, OpeningForms, CountOpenForms, OpenForms, Live
  <2>2. IsFiniteSet(OpenOrOpening(ws)) /\ OpenOrOpening(ws)' \in SUBSET OpenOrOpening(ws)
    BY <2>1, FiniteForms
  <2>3. /\ IsFiniteSet(OpenOrOpening(ws)')
        /\ Cardinality(OpenOrOpening(ws)') <= Cardinality(OpenOrOpening(ws))
    BY <2>2, FS_Subset
  <2>4. /\ Cardinality(OpenOrOpening(ws)') \in Nat /\ Cardinality(OpenOrOpening(ws)) \in Nat
        /\ Cardinality(Workers) \in Nat
    BY <2>2, <2>3, FS_CardinalityType, FiniteAssumption
  <2>5. Cardinality(OpenOrOpening(ws)) + 1 <= OpenCap + Cardinality(Workers)
    BY DEF CapInv
  <2> QED BY <2>3, <2>4, <2>5, BoundAssumption
<1> QED BY <1>1, <1>2

(* Every other step leaves the forms that count, or takes some away: only  *)
(* a form that is open already is loaded as open, and what SetState opens  *)
(* was counted before.                                                     *)
LEMMA OtherKeepsCap ==
    ASSUME IInv, TypeOK', OpenCap > 0, [Next]_vars,
           \A w \in Workers : ~CountOpenForms(w),
           NEW ws \in Workspaces
    PROVE  OpenOrOpening(ws)' \subseteq OpenOrOpening(ws)
<1> USE IdleIsNoRequest
<1>1. CASE UNCHANGED vars
  BY <1>1 DEF vars, OpenOrOpening, OpeningForms, Opening, Serving, OpenForms, Live
<1>2. ASSUME NEW f \in Forms, CreateForm(f) PROVE OpenOrOpening(ws)' \subseteq OpenOrOpening(ws)
  <2>1. /\ form'[f].state = "draft"
        /\ \A g \in Forms \ {f} : form'[g] = form[g]
    BY <1>2 DEF CreateForm, IInv, TypeOK, Blank
  <2>2. \A w \in Workers : req[w] # Idle => req[w].form \in Forms \ {f}
    BY <1>2 DEF CreateForm, IInv, TypeOK, AbsentIsBlank, Request
  <2>3. OpeningForms' = OpeningForms /\ OpeningForms \subseteq Forms \ {f}
    BY <1>2, <2>2 DEF CreateForm, OpeningForms, Opening, Serving
  <2> QED BY <2>1, <2>3 DEF OpenOrOpening, OpenForms, Live
<1>3. ASSUME NEW w \in Workers, NEW f \in Forms, NEW op \in Requested, Load(w, f, op)
      PROVE OpenOrOpening(ws)' \subseteq OpenOrOpening(ws)
  <2>1. op \in Operations
    BY RequestedAssumption
  <2>2. PICK a \in Argument(op) :
           req' = [req EXCEPT ![w] = [op |-> op, form |-> f, arg |-> a, step |-> "loaded",
                                      seen |-> Instance(op, form[f]), head |-> 0]]
    BY <1>3 DEF Load
  <2>3. /\ req'[w] = [op |-> op, form |-> f, arg |-> a, step |-> "loaded",
                      seen |-> Instance(op, form[f]), head |-> 0]
        /\ \A u \in Workers \ {w} : req'[u] = req[u]
    BY <2>2 DEF IInv, TypeOK
  <2>4. Instance(op, form[f]).state = "open" => form[f].state = "open"
    BY <2>1 DEF Instance, Operations, Blank
  <2>5. \A u \in Workers \ {w} : Opening(u)' => Opening(u)
    BY <2>3 DEF Opening, Serving
  <2>6. Opening(w)' => form[f].state = "open" /\ req'[w].form = f
    BY <2>3, <2>4 DEF Opening
  <2>7. \A g \in OpeningForms' : g \in OpeningForms \/ (g = f /\ form[f].state = "open")
    BY <2>3, <2>5, <2>6 DEF OpeningForms
  <2> QED BY <1>3, <2>7 DEF Load, OpenOrOpening, OpenForms, Live
<1>4. ASSUME NEW w \in Workers, Step(w) PROVE OpenOrOpening(ws)' \subseteq OpenOrOpening(ws)
  <2> DEFINE r == req[w]
  <2>0. r \in Request /\ r.form \in Forms /\ r # Idle
    BY <1>4, BusyType DEF IInv
  <2>1. ASSUME Done(w), \A f \in Forms : Live(f)' => Live(f),
               \A f \in Forms : form'[f].state = "open" =>
                   form[f].state = "open" \/ f \in OpeningForms
        PROVE  OpenOrOpening(ws)' \subseteq OpenOrOpening(ws)
    <3>1. \A u \in Workers : req'[u] = IF u = w THEN Idle ELSE req[u]
      BY <2>1 DEF Done, IInv, TypeOK
    <3>2. \A u \in Workers : Opening(u)' => Opening(u)
      BY <3>1 DEF Opening, Serving
    <3>3. \A u \in Workers : Opening(u)' => req'[u] = req[u]
      BY <3>1 DEF Opening
    <3>4. OpeningForms' \subseteq OpeningForms
      BY <3>2, <3>3 DEF OpeningForms
    <3>5. OpeningForms \subseteq Forms
      BY DEF OpeningForms, Opening, IInv, TypeOK, Request
    <3> QED BY <2>1, <3>4, <3>5 DEF OpenOrOpening, OpenForms
  <2>2. CASE UpdateForm(w) \/ SaveDraft(w) \/ RotateLink(w) \/ DeleteForm(w) \/ CommitPublish(w)
             \/ Refuse(w) \/ Crash(w)
    <3>1. Done(w)
      BY <2>2 DEF UpdateForm, SaveDraft, RotateLink, DeleteForm, CommitPublish, Refuse, Crash
    <3>2. form \in [Forms -> Row]
      BY DEF IInv, TypeOK
    <3>3. \A f \in Forms : /\ form'[f].state = form[f].state
                           /\ form'[f].life = "live" => form[f].life = "live"
      <4>1. CASE UpdateForm(w) \/ SaveDraft(w) \/ RotateLink(w)
        BY <2>0, <3>2, <4>1 DEF UpdateForm, SaveDraft, RotateLink, Row
      <4>2. CASE DeleteForm(w)
        BY <2>0, <3>2, <4>2 DEF DeleteForm, Row
      <4>3. CASE CommitPublish(w)
        BY <2>0, <3>2, <4>3 DEF CommitPublish, Row
      <4>4. CASE Refuse(w) \/ Crash(w)
        BY <4>4 DEF Refuse, Crash
      <4> QED BY <2>2, <4>1, <4>2, <4>3, <4>4
    <3> QED BY <2>1, <3>1, <3>3 DEF Live
  <2>3. CASE SetState(w)
    <3>1. Done(w) /\ \A f \in Forms : form'[f].life = form[f].life
      BY <2>0, <2>3 DEF SetState, IInv, TypeOK, Row
    <3>2. r.arg = "open" => Opening(w)
      BY <2>0, <2>3, BoundAssumption DEF SetState, NeedsCount, Opening
    <3>3. \A f \in Forms : form'[f].state # form[f].state => f = r.form /\ form'[f].state = r.arg
      BY <2>0, <2>3 DEF SetState, IInv, TypeOK, Row
    <3>4. \A f \in Forms : form'[f].state = "open" => form[f].state = "open" \/ f \in OpeningForms
      BY <3>2, <3>3 DEF OpeningForms
    <3> QED BY <2>1, <3>1, <3>4 DEF Live
  <2>4. CASE PublishViewSave(w) \/ LockRow(w)
    <3>1. \A u \in Workers \ {w} : req'[u] = req[u]
      BY <2>4 DEF PublishViewSave, LockRow, IInv, TypeOK
    <3>2. req'[w].op = "publish"
      BY <2>0, <2>4 DEF PublishViewSave, LockRow, Serving, IInv, TypeOK, Request
    <3>3. \A u \in Workers : Opening(u)' => Opening(u) /\ req'[u] = req[u]
      BY <3>1, <3>2 DEF Opening, Serving
    <3>4. OpeningForms' \subseteq OpeningForms
      BY <3>3 DEF OpeningForms
    <3>5. \A f \in Forms : form'[f].state = form[f].state /\ form'[f].life = form[f].life
      BY <2>0, <2>4 DEF PublishViewSave, LockRow, IInv, TypeOK, Row
    <3>6. OpeningForms \subseteq Forms
      BY DEF OpeningForms, Opening, IInv, TypeOK, Request
    <3> QED BY <3>4, <3>5, <3>6 DEF OpenOrOpening, OpenForms, Live
  <2> QED BY <1>4, <2>2, <2>3, <2>4 DEF Step
<1> QED BY <1>1, <1>2, <1>3, <1>4 DEF Next

LEMMA CapInit == Init => CapInv
<1> SUFFICES ASSUME Init, OpenCap > 0, NEW ws \in Workspaces
             PROVE  Cardinality(OpenOrOpening(ws)) + 1 <= OpenCap + Cardinality(Workers)
  BY DEF CapInv
<1>1. OpenOrOpening(ws) = {}
  BY DEF Init, OpenOrOpening, OpenForms, OpeningForms, Opening, Idle, Blank
<1>2. Cardinality(OpenOrOpening(ws)) = 0 /\ Cardinality(Workers) \in Nat
  BY <1>1, FS_EmptySet, FiniteAssumption, FS_CardinalityType
<1> QED BY <1>2, BoundAssumption

LEMMA CapNext == IInv /\ IInv' /\ CapInv /\ [Next]_vars => CapInv'
<1> SUFFICES ASSUME IInv, IInv', CapInv, [Next]_vars PROVE CapInv'
  OBVIOUS
<1>1. ASSUME NEW w \in Workers, CountOpenForms(w) PROVE CapInv'
  BY <1>1, CountKeepsCap DEF IInv
<1>2. ASSUME \A w \in Workers : ~CountOpenForms(w) PROVE CapInv'
  <2>1. OpenCap > 0 => \A ws \in Workspaces : OpenOrOpening(ws)' \subseteq OpenOrOpening(ws)
    BY <1>2, OtherKeepsCap DEF IInv
  <2>2. CASE OpenCap > 0
    BY <2>1, <2>2, NoNewForm DEF IInv
  <2> QED BY <2>2 DEF CapInv
<1> QED BY <1>1, <1>2

(* MAX_OPEN_FORMS_PER_WORKSPACE is exceeded by at most one form for every  *)
(* further request in progress, for any number of forms and requests.      *)
THEOREM OpenCapOvershootBounded == Spec => []OpenCapOvershoot
<1>1. IInv /\ CapInv => OpenCapOvershoot
  <2> SUFFICES ASSUME IInv, CapInv, OpenCap > 0, NEW ws \in Workspaces
               PROVE  Cardinality(OpenForms(ws)) + 1 <= OpenCap + Cardinality(Workers)
    BY DEF OpenCapOvershoot
  <2>1. Cardinality(OpenOrOpening(ws)) + 1 <= OpenCap + Cardinality(Workers)
    BY DEF CapInv
  <2> QED BY <2>1, FiniteForms, BoundAssumption DEF IInv
<1> QED BY <1>1, Induction, CapInit, CapNext, PTL DEF Spec
-----------------------------------------------------------------------------
(***************************************************************************)
(* The concurrent publishing of FormLifecycle implements the append-only   *)
(* log of PublicationLog: a CommitPublish appends one publishable schema   *)
(* to one log, every other step leaves the three logs alone.               *)
(***************************************************************************)

LogOf(f) == [n \in 1..HeadVersion(f) |-> SchemaOf(f, n)]

(* A row is the only one of its form and ordinal.                          *)
LEMMA SchemaIsUnique ==
    ASSUME NEW V, \A u, v \in V : u.form = v.form /\ u.version = v.version => u = v,
           NEW v \in V, NEW f, NEW n, v.form = f, v.version = n
    PROVE  (CHOOSE u \in V : u.form = f /\ u.version = n) = v
OBVIOUS

LEMMA SeqIsFunction ==
    ASSUME NEW S, NEW q \in Seq(S), NEW k \in Nat, Len(q) = k
    PROVE  q = [n \in 1..k |-> q[n]]
OBVIOUS

LEMMA LogType ==
    ASSUME IInv, NEW f \in Forms
    PROVE  /\ LogOf(f) \in Seq(Schemas) /\ Len(LogOf(f)) = form[f].active
           /\ form[f].active \in Nat
<1>1. HeadVersion(f) = form[f].active /\ HeadVersion(f) \in Nat
  BY HeadIsActive
<1>2. ASSUME NEW n \in 1..HeadVersion(f) PROVE SchemaOf(f, n) \in Schemas
  <2>1. Ordinals(f) = 1..form[f].active
    BY DEF IInv, VersionsUpToActive
  <2>2. PICK v \in version : v.form = f /\ v.version = n
    BY <1>1, <2>1 DEF Ordinals
  <2>3. SchemaOf(f, n) = v.schema
    BY <2>2, SchemaIsUnique DEF IInv, VersionsUpToActive, SchemaOf
  <2> QED BY <2>3 DEF IInv, TypeOK, Version
<1>3. LogOf(f) \in Seq(Schemas) /\ Len(LogOf(f)) = HeadVersion(f)
  BY <1>1, <1>2 DEF LogOf
<1> QED BY <1>1, <1>3

LEMMA HeadAfter ==
    ASSUME IInv', NEW f \in Forms
    PROVE  HeadVersion(f)' = form'[f].active /\ form'[f].active \in Nat
<1>1. Ordinals(f)' = 1..form'[f].active /\ form'[f].active \in Nat
  BY DEF IInv, VersionsUpToActive, TypeOK, Row
<1> QED BY <1>1, LastOfInterval DEF HeadVersion

(* The steps that freeze nothing.                                          *)
LEMMA Stutter ==
    ASSUME IInv, IInv', Quiet
    PROVE  UNCHANGED Log!vars
<1>2. \A f \in Forms : HeadVersion(f)' = HeadVersion(f)
  BY HeadIsActive, HeadAfter DEF Quiet
<1>3. \A f \in Forms, n \in Nat : SchemaOf(f, n)' = SchemaOf(f, n)
  BY DEF Quiet, SchemaOf
<1>4. \A f \in Forms : HeadVersion(f) \in Nat
  BY HeadIsActive
<1>5. \A f \in Forms : [n \in 1..HeadVersion(f) |-> SchemaOf(f, n)]' = [n \in 1..HeadVersion(f) |-> SchemaOf(f, n)]
  BY <1>2, <1>3, <1>4
<1>6. \A f \in Forms : Announced(f)' = Announced(f)
  BY DEF Quiet, Announced
<1> QED BY <1>5, <1>6 DEF Log!vars, Quiet

LEMMA LogInit == Init => Log!Init
<1> SUFFICES ASSUME Init PROVE Log!Init
  OBVIOUS
<1>1. \A f \in Forms : Ordinals(f) = {}
  BY DEF Init, Ordinals
<1>2. \A f \in Forms : HeadVersion(f) = 0
  BY <1>1 DEF HeadVersion
<1>3. \A f \in Forms : [n \in 1..HeadVersion(f) |-> SchemaOf(f, n)] = << >>
  BY <1>2
<1>4. \A f \in Forms : form[f].active = 0 /\ Announced(f) = {}
  BY DEF Init, Blank, Announced
<1> QED BY <1>3, <1>4 DEF Log!Init

(* A new row with the ordinal after the active one, made the active one    *)
(* and announced, is a Publish of the log.                                 *)
LEMMA NewRowAppends ==
    ASSUME IInv, IInv', NEW f \in Forms, NEW s \in Publishable, NEW k \in Nat, k = form[f].active,
           NEW v, v.form = f, v.version = k + 1, v.schema = s,
           version' = version \cup {v}, published' = published \cup {<<f, k + 1>>},
           \A g \in Forms : form'[g].active = IF g = f THEN k + 1 ELSE form[g].active
    PROVE  Log!Publish(f, s)
<1>1. \A g \in Forms : /\ HeadVersion(g)' = form'[g].active /\ form'[g].active \in Nat
                       /\ HeadVersion(g) = form[g].active /\ form[g].active \in Nat
  BY HeadIsActive, HeadAfter DEF IInv, TypeOK, Row
<1>2. v \in version' /\ \A a, b \in version' : a.form = b.form /\ a.version = b.version => a = b
  BY DEF IInv, VersionsUpToActive
<1>3. ASSUME NEW g \in Forms, NEW n \in 1..form[g].active
      PROVE  SchemaOf(g, n)' = SchemaOf(g, n)
  <2>1. Ordinals(g) = 1..form[g].active
    BY DEF IInv, VersionsUpToActive
  <2>2. PICK u \in version : u.form = g /\ u.version = n
    BY <2>1 DEF Ordinals
  <2>3. SchemaOf(g, n) = u.schema
    BY <2>2, SchemaIsUnique DEF IInv, VersionsUpToActive, SchemaOf
  <2>4. u \in version'
    BY <2>2
  <2>5. SchemaOf(g, n)' = u.schema
    BY <1>2, <2>2, <2>4, SchemaIsUnique DEF SchemaOf
  <2> QED BY <2>3, <2>5
<1>4. SchemaOf(f, k + 1)' = s
  BY <1>2, SchemaIsUnique DEF SchemaOf
<1>5. \A g \in Forms : Announced(g)' = IF g = f THEN Announced(g) \cup {k + 1} ELSE Announced(g)
  <2>1. <<f, k + 1>>[1] = f /\ <<f, k + 1>>[2] = k + 1
    OBVIOUS
  <2>2. SUFFICES ASSUME NEW g \in Forms
                 PROVE  Announced(g)' = IF g = f THEN Announced(g) \cup {k + 1} ELSE Announced(g)
    OBVIOUS
  <2>3. \A n : n \in Announced(g) <=> \E e \in published : e[1] = g /\ e[2] = n
    BY DEF Announced
  <2>4. \A n : n \in Announced(g)' <=> \E e \in published' : e[1] = g /\ e[2] = n
    BY DEF Announced
  <2>5. \A n : n \in Announced(g)' <=> n \in Announced(g) \/ (g = f /\ n = k + 1)
    <3>1. ASSUME NEW n, n \in Announced(g)' PROVE n \in Announced(g) \/ (g = f /\ n = k + 1)
      <4>1. PICK e \in published' : e[1] = g /\ e[2] = n
        BY <2>4, <3>1
      <4>2. e \in published \/ e = <<f, k + 1>>
        OBVIOUS
      <4> QED BY <2>1, <2>3, <4>1, <4>2
    <3>2. ASSUME NEW n, n \in Announced(g) \/ (g = f /\ n = k + 1) PROVE n \in Announced(g)'
      <4>1. <<f, k + 1>> \in published' /\ \A e \in published : e \in published'
        OBVIOUS
      <4> QED BY <2>1, <2>3, <2>4, <3>2, <4>1
    <3> QED BY <3>1, <3>2
  <2> QED BY <2>5
<1>6. \A g \in Forms : [n \in 1..HeadVersion(g) |-> SchemaOf(g, n)]' =
                          IF g = f THEN Append(LogOf(g), s) ELSE LogOf(g)
  <2>1. ASSUME NEW g \in Forms, g # f PROVE LogOf(g)' = LogOf(g)
    BY <1>1, <1>3, <2>1 DEF LogOf
  <2>2. LogOf(f)' = Append(LogOf(f), s)
    <3>1. LogOf(f) \in Seq(Schemas) /\ Len(LogOf(f)) = k /\ k \in Nat
      BY LogType
    <3>2. LogOf(f)' = [n \in 1..(k + 1) |-> SchemaOf(f, n)']
      BY <1>1 DEF LogOf
    <3>3. \A n \in 1..(k + 1) : SchemaOf(f, n)' = IF n <= k THEN LogOf(f)[n] ELSE s
      BY <1>1, <1>3, <1>4, <3>1 DEF LogOf
    <3>4. Append(LogOf(f), s) = [n \in 1..(k + 1) |-> IF n <= k THEN LogOf(f)[n] ELSE s]
      <4>1. s \in Schemas
        BY FormAssumption
      <4>2. /\ Append(LogOf(f), s) \in Seq(Schemas) /\ Len(Append(LogOf(f), s)) = k + 1
            /\ \A n \in 1..k : Append(LogOf(f), s)[n] = LogOf(f)[n]
            /\ Append(LogOf(f), s)[k + 1] = s
        BY <3>1, <4>1, AppendProperties
      <4>3. Append(LogOf(f), s) = [n \in 1..(k + 1) |-> Append(LogOf(f), s)[n]]
        <5> DEFINE q == Append(LogOf(f), s)
        <5>1. q \in Seq(Schemas) /\ Len(q) = k + 1 /\ k + 1 \in Nat
          BY <4>2
        <5> HIDE DEF q
        <5>2. q = [n \in 1..(k + 1) |-> q[n]]
          BY <5>1, SeqIsFunction
        <5> QED BY <5>2 DEF q
      <4>4. \A n \in 1..(k + 1) : Append(LogOf(f), s)[n] = IF n <= k THEN LogOf(f)[n] ELSE s
        BY <3>1, <4>2
      <4> QED BY <4>3, <4>4
    <3> QED BY <3>2, <3>3, <3>4
  <2> QED BY <2>1, <2>2 DEF LogOf
<1>7. Len(LogOf(f)) = k
  BY LogType
<1>8. [g \in Forms |-> [n \in 1..HeadVersion(g) |-> SchemaOf(g, n)]]' =
         [[g \in Forms |-> LogOf(g)] EXCEPT ![f] = Append(LogOf(f), s)]
  <2> DEFINE a == Append(LogOf(f), s)
             L(g) == LogOf(g)
  <2>1. \A g \in Forms : LogOf(g)' = IF g = f THEN a ELSE L(g)
    BY <1>6 DEF LogOf
  <2>2. [g \in Forms |-> LogOf(g)]' = [g \in Forms |-> LogOf(g)']
    OBVIOUS
  <2> HIDE DEF a, L
  <2>3. [g \in Forms |-> LogOf(g)'] = [[g \in Forms |-> L(g)] EXCEPT ![f] = a]
    BY <2>1
  <2> QED BY <2>2, <2>3 DEF a, L, LogOf
<1>9. [g \in Forms |-> form[g].active]' = [[g \in Forms |-> form[g].active] EXCEPT ![f] = k + 1]
  OBVIOUS
<1>10. [g \in Forms |-> Announced(g)]' =
          [[g \in Forms |-> Announced(g)] EXCEPT ![f] = Announced(f) \cup {k + 1}]
  BY <1>5
<1> QED BY <1>7, <1>8, <1>9, <1>10 DEF Log!Publish, LogOf

LEMMA CommitAppends ==
    ASSUME IInv, IInv', NEW w \in Workers, CommitPublish(w)
    PROVE  Log!Next
<1> DEFINE v == [form |-> req[w].form, version |-> req[w].head + 1, schema |-> req[w].seen.draft]
<1>1. req[w] \in Request /\ req[w].form \in Forms /\ req[w] # Idle /\ req[w].step = "locked"
  BY BusyType, IdleIsNoRequest DEF Step, IInv, CommitPublish
<1>2. req[w].head = form[req[w].form].active /\ req[w].head \in Nat
  BY <1>1 DEF IInv, HeadKnown, TypeOK, Row
<1>3. req[w].seen.draft \in Publishable
  BY <1>1 DEF IInv, ValidatedWhenLocked, CanPublish
<1>4. \A g \in Forms : form'[g].active = IF g = req[w].form THEN req[w].head + 1 ELSE form[g].active
  BY <1>1, <1>2 DEF CommitPublish, IInv, TypeOK, Row
<1>5. /\ version' = version \cup {v} /\ published' = published \cup {<<req[w].form, req[w].head + 1>>}
      /\ v.form = req[w].form /\ v.version = req[w].head + 1 /\ v.schema = req[w].seen.draft
  BY DEF CommitPublish
<1>6. PICK f \in Forms, s \in Publishable, k \in Nat, u \in version' :
         /\ k = form[f].active /\ u.form = f /\ u.version = k + 1 /\ u.schema = s
         /\ version' = version \cup {u} /\ published' = published \cup {<<f, k + 1>>}
         /\ \A g \in Forms : form'[g].active = IF g = f THEN k + 1 ELSE form[g].active
  BY <1>1, <1>2, <1>3, <1>4, <1>5
<1>7. Log!Publish(f, s)
  BY <1>6, NewRowAppends
<1> QED BY <1>7 DEF Log!Next

(* Every behaviour of the interleaved requests is, seen through the stored *)
(* version rows, the active pointers and the form.published events, one of *)
(* the append-only log: versions are frozen one at a time, in order, made  *)
(* active and announced in the same step, and never changed.               *)
THEOREM ImplementsLog == Spec => PublishesToLog
<1>1. IInv /\ IInv' /\ [Next]_vars => [Log!Next]_Log!vars
  <2> SUFFICES ASSUME IInv, IInv', [Next]_vars, \A w \in Workers : ~CommitPublish(w)
               PROVE  Quiet
    BY CommitAppends, Stutter
  <2>1. form \in [Forms -> Row] /\ IInv
    BY DEF IInv, TypeOK
  <2>2. CASE UNCHANGED vars
    BY <2>2 DEF vars, Quiet
  <2>3. ASSUME NEW f \in Forms, CreateForm(f) PROVE Quiet
    BY <2>1, <2>3 DEF CreateForm, IInv, AbsentIsBlank, Quiet, Blank
  <2>4. ASSUME NEW w \in Workers, NEW f \in Forms, NEW op \in Requested, Load(w, f, op)
        PROVE Quiet
    BY <2>4 DEF Load, Quiet
  <2>5. ASSUME NEW w \in Workers, Step(w) PROVE Quiet
    <3>1. req[w].form \in Forms
      BY <2>5, BusyType DEF IInv
    <3>2. CASE UpdateForm(w) \/ SaveDraft(w) \/ PublishViewSave(w) \/ RotateLink(w)
      BY <2>1, <3>1, <3>2 DEF UpdateForm, SaveDraft, PublishViewSave, RotateLink, Quiet, Row
    <3>3. CASE DeleteForm(w) \/ SetState(w)
      BY <2>1, <3>1, <3>3 DEF DeleteForm, SetState, Quiet, Row
    <3>4. CASE CountOpenForms(w) \/ LockRow(w) \/ Refuse(w) \/ Crash(w)
      BY <3>4 DEF CountOpenForms, LockRow, Refuse, Crash, Quiet
    <3> QED BY <2>5, <3>2, <3>3, <3>4 DEF Step
  <2> QED BY <2>2, <2>3, <2>4, <2>5 DEF Next
<1>2. PublishesToLog <=> Log!Init /\ [][Log!Next]_Log!vars
  BY DEF PublishesToLog, Log!Spec
<1> QED BY <1>1, <1>2, LogInit, Induction, PTL DEF Spec
=============================================================================
