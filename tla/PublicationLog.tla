--------------------------- MODULE PublicationLog ---------------------------
(***************************************************************************)
(* What publishing promises, whatever the requests around it do: every     *)
(* form has an append-only log of frozen schemas; one step appends one     *)
(* schema, makes it the active one and announces it under its ordinal.     *)
(* FormLifecycle is shown to implement this specification.                 *)
(***************************************************************************)
EXTENDS Naturals, Sequences

CONSTANTS Forms,
          Publishable    \* the schemas that may be frozen

VARIABLES log,        \* log[f][n] is the schema of version n of form f
          active,     \* the ordinal respondents answer, 0 before the first publish
          announced   \* the ordinals form.published was emitted for

vars == <<log, active, announced>>

Init ==
    /\ log = [f \in Forms |-> <<>>]
    /\ active = [f \in Forms |-> 0]
    /\ announced = [f \in Forms |-> {}]

Publish(f, s) ==
    /\ active' = [active EXCEPT ![f] = Len(log[f]) + 1]
    /\ log' = [log EXCEPT ![f] = Append(log[f], s)]
    /\ announced' = [announced EXCEPT ![f] = announced[f] \cup {Len(log[f]) + 1}]

Next == \E f \in Forms, s \in Publishable : Publish(f, s)

Spec == Init /\ [][Next]_vars
=============================================================================
