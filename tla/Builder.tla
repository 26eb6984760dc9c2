-------------------------------- MODULE Builder --------------------------------
(***************************************************************************)
(* How the schema of one form is authored: the builder on the admin's      *)
(* change page (forms-builder.js, FormAdmin.render_change_form and         *)
(* publish_view) beside the REST draft and publish.                        *)
(*                                                                         *)
(* The board is the browser's copy of the schema.  It is filled when the   *)
(* page renders, edited with no call to the server, and posted whole.      *)
(* Publishing is one step here; FormLifecycle has its interleavings.       *)
(*                                                                         *)
(* A slug or a name is a pair of a word and the number behind it:          *)
(* <<"text", 1>> is text, <<"text", 2>> is text_2.                         *)
(***************************************************************************)
EXTENDS SchemaRules

CONSTANTS
    RawDrafts,   \* the bodies that PUT .../draft/ may bring
    Closed,      \* no builder page is open
    MaxVersion,  \* bound: versions the form may get
    MaxEdits     \* bound: edits made on boards altogether

ASSUME BuilderAssumption ==
    /\ AllowedKinds \X (1..MaxFields) \subseteq Slugs
    /\ AllowedKinds \X {1} \subseteq Names
    /\ RawDrafts \subseteq Seq(Field) \cup {Malformed}
    /\ MaxVersion \in Nat /\ MaxEdits \in Nat

VARIABLES
    draft,    \* Form.draft_schema
    versions, \* the schemas of forms_form_version by ordinal; the last is active
    board,    \* the schema in the browser
    edits     \* how many edits were made

authoring == <<draft, versions, board, edits>>

Active == Len(versions)

BuilderInit ==
    /\ draft = None
    /\ versions = <<>>
    /\ board = Closed
    /\ edits = 0
-----------------------------------------------------------------------------
(* PUT .../draft/: save_draft, if normalize_schema takes the body.         *)
SaveDraft ==
    /\ \E raw \in RawDrafts :
          /\ Normalizable(raw)
          /\ draft' = raw
    /\ UNCHANGED <<versions, board, edits>>

(* services.publish of a draft: it becomes the next version, and is        *)
(* cleared.  Refused, it stays as it was saved.                            *)
PublishSchema(schema) ==
    /\ Active < MaxVersion
    /\ IF ValidSchema(schema)
       THEN versions' = Append(versions, schema) /\ draft' = None
       ELSE UNCHANGED versions /\ draft' = schema

PublishDraft ==
    /\ draft # None
    /\ PublishSchema(draft)
    /\ UNCHANGED <<board, edits>>

(* render_change_form: the draft, or what respondents answer now, or an    *)
(* empty schema.  `clean' is history: the slugs were distinct when the     *)
(* page rendered and nobody has typed one since.  (Bound: not when there   *)
(* is no edit left to make.)                                               *)
RenderBoard ==
    LET fields == IF draft # None THEN draft
                  ELSE IF Active # 0 THEN versions[Active] ELSE <<>>
    IN
    /\ edits < MaxEdits
    /\ board' = [fields |-> fields, clean |-> SlugsDistinct(fields)]
    /\ UNCHANGED <<draft, versions, edits>>

(* submit and publish_view: the board is saved as the draft and published. *)
PublishBoard ==
    /\ board # Closed
    /\ PublishSchema(board.fields)
    /\ board' = Closed
    /\ UNCHANGED edits
-----------------------------------------------------------------------------
(* Mutant of UniqueSlug: numbered by how many fields have the base.        *)
CountedSlug(base, fields) ==
    <<base, 1 + Cardinality({i \in DOMAIN fields : fields[i].slug \in {base} \X Nat})>>

(* uniqueSlug: the base, or the base and the smallest free number from 2.  *)
UniqueSlug(base, fields) ==
    <<base, CHOOSE n \in 1..Len(fields) + 1 :
               /\ <<base, n>> \notin SlugsOf(fields)
               /\ \A m \in 1..n - 1 : <<base, m>> \in SlugsOf(fields)>>

Edit(fields) ==
    /\ edits < MaxEdits
    /\ edits' = edits + 1
    /\ board' = [board EXCEPT !.fields = fields]
    /\ UNCHANGED <<draft, versions>>

(* The button of a kind; at the maximum it only alerts.                    *)
AddField(kind) ==
    /\ Len(board.fields) < MaxFields
    /\ Edit(Append(board.fields, [slug |-> UniqueSlug(kind, board.fields), name |-> <<kind, 1>>,
                                  mandatory |-> FALSE, kind |-> kind, config |-> "bare"]))

RemoveField(i) == Edit(RemoveAt(board.fields, i))

(* The arrows; a field does not move past an end.                          *)
MoveField(i, to) ==
    /\ to \in DOMAIN board.fields
    /\ Edit([board.fields EXCEPT ![i] = board.fields[to], ![to] = board.fields[i]])

EditName(i, name) == Edit([board.fields EXCEPT ![i].name = name])

(* The storage key typed by hand: whatever the author writes.              *)
EditSlug(i, slug) ==
    /\ edits < MaxEdits
    /\ edits' = edits + 1
    /\ board' = [fields |-> [board.fields EXCEPT ![i].slug = slug], clean |-> FALSE]
    /\ UNCHANGED <<draft, versions>>

(* A header has no such box.                                               *)
ToggleRequired(i) ==
    /\ ~IsHeader(board.fields[i])
    /\ Edit([board.fields EXCEPT ![i].mandatory = ~@])

(* The editor of stapel-attributes hands its config over and keeps the     *)
(* kind.                                                                   *)
Configure(i, config) == Edit([board.fields EXCEPT ![i].config = config])

EditBoard ==
    /\ board # Closed
    /\ \/ \E kind \in AllowedKinds : AddField(kind)
       \/ \E i \in DOMAIN board.fields :
             \/ RemoveField(i)
             \/ \E to \in {i - 1, i + 1} : MoveField(i, to)
             \/ \E name \in Names \cup {None} : EditName(i, name)
             \/ \E slug \in Slugs \cup {None} : EditSlug(i, slug)
             \/ ToggleRequired(i)
             \/ \E config \in {"set", "narrow"} : Configure(i, config)

Author == SaveDraft \/ PublishDraft \/ RenderBoard \/ PublishBoard \/ EditBoard
-----------------------------------------------------------------------------
(* The builder names a new question so that no other has its slug: a       *)
(* publish is refused for a duplicate one only after an author typed it or *)
(* the draft came with it, whatever was added, moved and removed.          *)
SlugsCollideOnlyByHand == board # Closed /\ board.clean => SlugsDistinct(board.fields)
=============================================================================
