------------------------------ MODULE SchemaRules ------------------------------
(***************************************************************************)
(* schema.py: what forms adds on top of the field engine.  Pure operators  *)
(* over stored schemas; the state machines that publish, answer and review *)
(* are built from them.                                                    *)
(*                                                                         *)
(* A schema is the sequence of its fields; its meta block (title, labels   *)
(* of buttons) plays no part in any rule.  Names are told apart by         *)
(* identity only.  The verdict of the engine, stapel_attributes, on a      *)
(* config and on the value of an answer is external.                       *)
(***************************************************************************)
EXTENDS Naturals, FiniteSets, Sequences, SequencesExt

CONSTANTS
    Slugs,        \* non-empty storage keys
    Plain,        \* those that a lookup path keeps in one piece: no "__", no "_" at the end
    Names,        \* question labels
    Kinds,        \* field kinds that a config may name, "header" among them
    AllowedKinds, \* the setting FIELD_KINDS
    MaxFields,    \* the setting MAX_FIELDS_PER_FORM
    Texts,        \* the values an answer may have, sequences of words
    Admits,       \* the values that a question of each config admits
    None,         \* an empty slug, an absent name or answer
    Malformed     \* a body that is neither a list of objects nor an envelope of one

ASSUME SchemaAssumption ==
    /\ "header" \in Kinds
    /\ AllowedKinds \subseteq Kinds
    /\ MaxFields \in Nat \ {0}
    /\ Plain \subseteq Slugs
    /\ None \notin Slugs \cup Names \cup Texts

(* "bare": nothing but the type; "set" and "narrow": options, lengths and  *)
(* bounds that its dataclass knows; "alien": a key it does not know.       *)
Configs == {"bare", "set", "narrow", "alien"}

ASSUME AdmitsAssumption == Admits \in [Configs -> SUBSET Texts]

Field == [slug : Slugs \cup {None}, name : Names \cup {None}, mandatory : BOOLEAN,
          kind : Kinds, config : Configs]

(* The kinds whose bare config validate_configs_structured refuses, as a   *)
(* select without options.                                                 *)
NeedsConfig == {"select"}

SlugsOf(schema) == {schema[i].slug : i \in DOMAIN schema}
-----------------------------------------------------------------------------
(* normalize_schema: anything that is no schema raises SchemaInvalid.      *)
Normalizable(raw) == raw # Malformed

(* validate_schema; its order, caps and kinds first, decides only which    *)
(* error is reported.                                                      *)
WithinFieldCap(schema) == Len(schema) \in 1..MaxFields

SlugsDistinct(schema) ==
    /\ None \notin SlugsOf(schema)
    /\ \A i, j \in DOMAIN schema : schema[i].slug = schema[j].slug => i = j

ConfigSound(field) ==
    /\ field.kind \in AllowedKinds
    /\ field.config # "alien"
    /\ field.kind \in NeedsConfig => field.config # "bare"

ValidSchema(schema) ==
    /\ WithinFieldCap(schema)
    /\ SlugsDistinct(schema)
    /\ \A i \in DOMAIN schema : ConfigSound(schema[i])
-----------------------------------------------------------------------------
IsHeader(field) == field.kind = "header"

(* A field without a name is labelled by its slug.                         *)
LabelOf(field) == IF field.name = None THEN field.slug ELSE field.name

(* answer_columns: headers are captions and get no column.  A column is    *)
(* known by the place of its question, so that they are in schema order.   *)
AnswerColumns(schema) ==
    [i \in {j \in DOMAIN schema : ~IsHeader(schema[j])} |->
        [slug |-> schema[i].slug, label |-> LabelOf(schema[i])]]

(* _question_index: the questions by slug; of two fields with one slug the *)
(* later counts.                                                           *)
QuestionSlugs(schema) ==
    {schema[i].slug : i \in {j \in DOMAIN schema : ~IsHeader(schema[j])}} \ {None}

QuestionIndex(schema) ==
    [slug \in QuestionSlugs(schema) |->
        LET at == {i \in DOMAIN schema : schema[i].slug = slug /\ ~IsHeader(schema[i])} IN
        schema[CHOOSE i \in at : \A j \in at : j <= i]]

(* The public form: rendering input only.                                  *)
PublicFields(schema) ==
    [i \in DOMAIN schema |-> [slug      |-> schema[i].slug,
                              label     |-> LabelOf(schema[i]),
                              mandatory |-> schema[i].mandatory,
                              kind      |-> schema[i].kind,
                              config    |-> schema[i].config]]
-----------------------------------------------------------------------------
(* An answer as it is sent: the kind of value it is, and the value.        *)
Answer == [kind : Kinds \ {"header"}, value : Texts]

(* validate_answers: no key that is unknown or a header; every mandatory   *)
(* question answered, and every value of its question's kind and within    *)
(* its options and bounds (external: validate_dto_structured).             *)
AnswersAccepted(schema, answers) ==
    /\ DOMAIN answers \subseteq QuestionSlugs(schema)
    /\ \A slug \in QuestionSlugs(schema) :
          LET question == QuestionIndex(schema)[slug] IN
          IF slug \in DOMAIN answers
          THEN answers[slug].kind = question.kind /\ answers[slug].value \in Admits[question.config]
          ELSE ~question.mandatory

(* to_dao (external: normalize_to_dao): the label of a chosen option is    *)
(* kept beside its value, and headers are generated from the config,       *)
(* whatever was sent.                                                      *)
OptionLabel(value) == <<"label">> \o value

StoredAnswer(answer) ==
    [kind   |-> answer.kind, value |-> answer.value,
     labels |-> IF answer.kind = "select" THEN OptionLabel(answer.value) ELSE None]

Caption == [kind |-> "header", value |-> <<"caption">>, labels |-> None]

StoredAnswers(schema, answers) ==
    [slug \in DOMAIN answers \cup (SlugsOf(schema) \ QuestionSlugs(schema)) |->
        IF slug \in DOMAIN answers THEN StoredAnswer(answers[slug]) ELSE Caption]
-----------------------------------------------------------------------------
(* Mutant of SchemaDiff: a question is known by its label, not its slug.   *)
SchemaDiffByLabel(old, new) ==
    LET before == QuestionIndex(old)
        after == QuestionIndex(new)
        labels(index) == {LabelOf(index[s]) : s \in DOMAIN index}
    IN
    [added    |-> {<<s, LabelOf(after[s])>> :
                      s \in {t \in DOMAIN after : LabelOf(after[t]) \notin labels(before)}},
     removed  |-> {<<s, LabelOf(before[s])>> :
                      s \in {t \in DOMAIN before : LabelOf(before[t]) \notin labels(after)}},
     renamed  |-> {}, retyped |-> {}, required |-> {}]

(* diff_schemas: the slug is the identity of a question, so a changed slug *)
(* is a removal plus an addition.  Of the config only the type is compared.*)
SchemaDiff(old, new) ==
    LET before == QuestionIndex(old)
        after == QuestionIndex(new)
        kept == DOMAIN before \cap DOMAIN after
    IN
    [added    |-> {<<s, LabelOf(after[s])>> : s \in DOMAIN after \ DOMAIN before},
     removed  |-> {<<s, LabelOf(before[s])>> : s \in DOMAIN before \ DOMAIN after},
     renamed  |-> {<<s, LabelOf(after[s]), LabelOf(before[s])>> :
                      s \in {t \in kept : LabelOf(before[t]) # LabelOf(after[t])}},
     retyped  |-> {<<s, after[s].kind>> : s \in {t \in kept : before[t].kind # after[t].kind}},
     required |-> {<<s, after[s].mandatory>> :
                      s \in {t \in kept : before[t].mandatory # after[t].mandatory}}]

NothingChanged(change) == \A part \in DOMAIN change : change[part] = {}
=============================================================================
