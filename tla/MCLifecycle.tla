------------------------------ MODULE MCLifecycle ------------------------------
(* Three small instances of Intake in one run.  `scene' is the one that a   *)
(* behaviour belongs to: it says who takes part and bounds what they start, *)
(* and it never changes.                                                    *)
EXTENDS Intake, TLC

CONSTANTS s1, s2, bad,   \* two publishable schemas and one that is refused
          a1             \* a body that fits the first only

MCWorkspaceOf == [f \in Forms |-> CHOOSE ws \in Workspaces : TRUE]

MCFits == s1 :> {a1} @@ s2 :> {} @@ bad :> {}

MCSymmetry == Permutations(Forms) \cup Permutations(Workers) \cup Permutations(Visitors)

(* Two requests at a time on one form, in every order; one schema that the  *)
(* validator refuses.                                                       *)
PublishScenes ==
    {[forms |-> {f}, authors |-> Workers, visitors |-> {}, requested |-> Operations,
      schemas |-> {s1, s2, bad}, versions |-> 2, handles |-> 2, closings |-> 2] : f \in Forms}

(* Three forms under a cap of one, two requests at a time: both can count   *)
(* before either writes.                                                    *)
OpenScenes ==
    {[forms |-> Forms, authors |-> Workers, visitors |-> {},
      requested |-> {"publish", "state"},
      schemas |-> {s1}, versions |-> 1, handles |-> 1, closings |-> 1]}

(* Two visitors next to one author, whose requests come one at a time.      *)
AnswerScenes ==
    {[forms |-> {f}, authors |-> {w}, visitors |-> Visitors,
      requested |-> {"publish_view", "state", "delete"},
      schemas |-> {s1, s2}, versions |-> 3, handles |-> 1, closings |-> 1]
        : f \in Forms, w \in Workers}

VARIABLE scene

sceneVars == <<form, version, lock, req, published, closed, submission, visit, scene>>

SceneInit == IntakeInit /\ scene \in PublishScenes \cup OpenScenes \cup AnswerScenes

(* A form that is created, and a request that arrives, within the scene.    *)
Create(f) ==
    /\ CreateForm(f)
    /\ form'[f].draft \in IF "publish" \in scene.requested THEN scene.schemas ELSE {None}

Arrive(w, f, op) ==
    /\ op \in {"publish", "publish_view"} => HeadVersion(f) < scene.versions
    /\ op = "rotate" => form[f].handle < scene.handles
    /\ op \in {"state", "delete"} => closed[f] < scene.closings
    /\ Load(w, f, op)
    /\ op \in {"draft", "publish_view"} => req'[w].arg \in scene.schemas

(* The primary keys are handed out lowest first.                            *)
Visited(v) ==
    /\ Visiting(v)
    /\ \A s \in submission' \ submission :
          \A id \in 1..(s.id - 1) : \E other \in submission : other.id = id

SceneNext ==
    /\ \/ /\ \/ \E f \in scene.forms : Create(f)
             \/ \E w \in scene.authors, f \in scene.forms, op \in scene.requested :
                   Arrive(w, f, op)
             \/ \E w \in scene.authors : Step(w)
          /\ UNCHANGED intakeVars
       \/ /\ \/ \E v \in scene.visitors : Visited(v)
             \/ \E s \in submission : DeleteSubmission(s)
          /\ UNCHANGED vars
    /\ UNCHANGED scene

SceneSpec == SceneInit /\ [][SceneNext]_sceneVars

(* ClosingIsAnnounced, where one request is served at a time: form.closed   *)
(* is emitted by exactly the requests that close or delete an open form.    *)
(* (set_state back to draft ends the intake too and is not announced.)      *)
OneAuthorAnnouncesClosing ==
    [][Cardinality(scene.authors) = 1 => AnnouncesClosing]_sceneVars
=============================================================================
