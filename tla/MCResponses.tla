----------------------------- MODULE MCResponses -----------------------------
(* Three kinds, two fields, and one slug that no lookup path finds.         *)
EXTENDS Responses

Q(slug, name, mandatory, kind, config) ==
    [slug |-> slug, name |-> name, mandatory |-> mandatory, kind |-> kind, config |-> config]

MCKinds == {"text", "select", "header"}
MCPlain == MCKinds \X (1..2)
Dunder == <<"a__b", 1>>
MCSlugs == MCPlain \cup {Dunder}
MCNames == MCKinds \X {1}
MCTexts == {<<"yes">>}
(* The bounds of a narrow config are such that the one text does not meet   *)
(* them.                                                                    *)
MCAdmits == [config \in Configs |-> IF config = "narrow" THEN {} ELSE MCTexts]

(* A header whose slug questions of other versions have, above a mandatory *)
(* question; that question alone, optional and of another kind; a body     *)
(* that is no schema.                                                      *)
MCRaw == {Malformed,
          <<Q(<<"text", 1>>, <<"text", 1>>, FALSE, "header", "bare"), Q(<<"text", 2>>, None, TRUE, "text", "set")>>,
          <<Q(<<"text", 2>>, <<"text", 1>>, FALSE, "select", "set")>>}

(* A header above a question whose slug holds "__"; then a question of the *)
(* slug that the header had; then the same with narrower bounds.           *)
MCRevised == {<<Q(<<"text", 1>>, None, FALSE, "header", "bare"), Q(Dunder, None, FALSE, "text", "set")>>,
              <<Q(<<"text", 1>>, None, FALSE, "text", "set")>>,
              <<Q(<<"text", 1>>, None, FALSE, "text", "narrow")>>}
=============================================================================
