---------------------------- MODULE ResponsesProofs ----------------------------
(***************************************************************************)
(* Theorems about Builder and Responses: what the builder calls questions, *)
(* what is published and stored, and what the history of versions tells,   *)
(* for any kinds, slugs, names and numbers of fields, versions and answers.*)
(***************************************************************************)
EXTENDS Responses, FiniteSetTheorems, SequenceTheorems, WellFoundedInduction, NaturalsInduction, TLAPS
-----------------------------------------------------------------------------
(***************************************************************************)
(* Free numbers                                                            *)
(***************************************************************************)
LEMMA LeastNumber ==
    ASSUME NEW S \in SUBSET Nat, S # {}
    PROVE  \E m \in S : \A k \in S : m <= k
<1> DEFINE R == OpToRel(<, Nat)
<1>1. \A x, y \in Nat : <<x, y>> \in R <=> x < y
  BY DEF OpToRel
<1>2. IsWellFoundedOn(R, Nat)
  BY NatLessThanWellFounded
<1> HIDE DEF R
<1>3. PICK m \in S : \A k \in S : ~(<<k, m>> \in R)
  BY <1>2, WFMin
<1>4. ASSUME NEW k \in S PROVE m <= k
  <2>1. ~(k < m)
    BY <1>1, <1>3
  <2> QED BY <2>1
<1> QED BY <1>4

LEMMA GreatestNumber ==
    ASSUME NEW n \in Nat, NEW S \in SUBSET (0..n), S # {}
    PROVE  \E m \in S : \A k \in S : k <= m
<1> DEFINE mirror == {n - k : k \in S}
<1>1. mirror \in SUBSET Nat /\ mirror # {}
  <2>1. \A k \in S : n - k \in Nat
    OBVIOUS
  <2> QED BY <2>1
<1>2. PICK d \in mirror : \A k \in mirror : d <= k
  <2> HIDE DEF mirror
  <2> QED BY <1>1, LeastNumber
<1>3. PICK m \in S : d = n - m
  OBVIOUS
<1>4. ASSUME NEW k \in S PROVE k <= m
  <2>1. d <= n - k /\ k \in Nat /\ m \in Nat
    BY <1>2
  <2> QED BY <1>3, <2>1
<1> QED BY <1>4

(* Among one number more than there are fields, one is behind no slug of   *)
(* the base: the pigeonhole that makes uniqueSlug's loop end.              *)
LEMMA FreeNumber ==
    ASSUME NEW base, NEW fields \in Seq(Field)
    PROVE  \E n \in 1..Len(fields) + 1 : <<base, n>> \notin SlugsOf(fields)
<1> SUFFICES ASSUME \A n \in 1..Len(fields) + 1 : <<base, n>> \in SlugsOf(fields)
             PROVE  FALSE
  OBVIOUS
<1> DEFINE P == 1..Len(fields) + 1
           At(n) == CHOOSE i \in DOMAIN fields : fields[i].slug = <<base, n>>
           at == [n \in P |-> At(n)]
<1>1. Len(fields) \in Nat /\ DOMAIN fields = 1..Len(fields)
  OBVIOUS
<1>2. ASSUME NEW n \in P PROVE At(n) \in DOMAIN fields /\ fields[At(n)].slug = <<base, n>>
  <2>1. \E i \in DOMAIN fields : fields[i].slug = <<base, n>>
    BY DEF SlugsOf
  <2> QED BY <2>1
<1>3. at \in [P -> 1..Len(fields)]
  BY <1>1, <1>2
<1>4. /\ IsFiniteSet(P) /\ Cardinality(P) = Len(fields) + 1
      /\ IsFiniteSet(1..Len(fields)) /\ Cardinality(1..Len(fields)) = Len(fields)
  BY <1>1, FS_Interval
<1>5. Cardinality(1..Len(fields)) < Cardinality(P)
  BY <1>1, <1>4
<1> HIDE DEF P
<1>6. PICK x, y \in P : x # y /\ at[x] = at[y]
  <2> HIDE DEF at
  <2> QED BY <1>3, <1>4, <1>5, FS_PigeonHole
<1>7. <<base, x>> = <<base, y>>
  BY <1>2, <1>6
<1> QED BY <1>6, <1>7

(* What uniqueSlug returns.                                                *)
LEMMA UniqueSlugIsFree ==
    ASSUME NEW base, NEW fields \in Seq(Field)
    PROVE  /\ UniqueSlug(base, fields) \notin SlugsOf(fields)
           /\ \E n \in 1..Len(fields) + 1 : UniqueSlug(base, fields) = <<base, n>>
<1> DEFINE free == {n \in 1..Len(fields) + 1 : <<base, n>> \notin SlugsOf(fields)}
           Least(n) == /\ <<base, n>> \notin SlugsOf(fields)
                       /\ \A m \in 1..n - 1 : <<base, m>> \in SlugsOf(fields)
<1>0. Len(fields) \in Nat
  OBVIOUS
<1>1. free \in SUBSET Nat /\ free # {}
  <2>1. \E n \in 1..Len(fields) + 1 : n \in free
    BY FreeNumber
  <2> QED BY <1>0, <2>1
<1>2. PICK m \in free : \A k \in free : m <= k
  BY <1>1, LeastNumber
<1>3. Least(m) /\ m \in 1..Len(fields) + 1
  <2>1. ASSUME NEW k \in 1..m - 1 PROVE <<base, k>> \in SlugsOf(fields)
    <3>1. m \in Nat /\ k \in 1..Len(fields) + 1 /\ ~(m <= k)
      BY <1>0
    <3> QED BY <1>2, <3>1
  <2> QED BY <2>1
<1>4. PICK n \in 1..Len(fields) + 1 : n = (CHOOSE k \in 1..Len(fields) + 1 : Least(k)) /\ Least(n)
  <2> HIDE DEF Least
  <2> QED BY <1>3
<1> QED BY <1>4 DEF UniqueSlug
-----------------------------------------------------------------------------
(***************************************************************************)
(* What each edit makes of the slugs on the board                          *)
(***************************************************************************)
LEMMA AddedField ==
    ASSUME NEW fields \in Seq(Field), NEW field \in Field
    PROVE  /\ Append(fields, field) \in Seq(Field)
           /\ /\ SlugsDistinct(fields)
              /\ field.slug # None /\ field.slug \notin SlugsOf(fields)
              => SlugsDistinct(Append(fields, field))
<1> DEFINE after == Append(fields, field)
<1>1. /\ after \in Seq(Field) /\ DOMAIN after = DOMAIN fields \cup {Len(fields) + 1}
      /\ \A i \in DOMAIN fields : after[i] = fields[i]
      /\ after[Len(fields) + 1] = field
  OBVIOUS
<1> HIDE DEF after
<1>2. SlugsDistinct(fields) /\ field.slug # None /\ field.slug \notin SlugsOf(fields)
         => SlugsDistinct(after)
  BY <1>1 DEF SlugsDistinct, SlugsOf
<1> QED BY <1>1, <1>2 DEF after

(* What is left after a removal is each field at its own or the next place.*)
LEMMA RemovedField ==
    ASSUME NEW fields \in Seq(Field), NEW i \in DOMAIN fields
    PROVE  /\ RemoveAt(fields, i) \in Seq(Field)
           /\ SlugsDistinct(fields) => SlugsDistinct(RemoveAt(fields, i))
<1> DEFINE front == SubSeq(fields, 1, i - 1)
           back == SubSeq(fields, i + 1, Len(fields))
           after == front \o back
           from(j) == IF j < i THEN j ELSE j + 1
<1>0. Len(fields) \in Nat /\ DOMAIN fields = 1..Len(fields) /\ i \in 1..Len(fields)
      /\ \A j \in 1..Len(fields) : fields[j] \in Field
  OBVIOUS
<1>1. /\ front \in Seq(Field) /\ Len(front) = i - 1
      /\ \A j \in 1..i - 1 : front[j] = fields[j]
  <2>1. \A j \in 1..i - 1 : fields[j] \in Field
    BY <1>0
  <2>2. /\ front \in Seq(Field) /\ Len(front) = IF 1 <= i - 1 THEN i - 1 - 1 + 1 ELSE 0
        /\ \A j \in 1..i - 1 - 1 + 1 : front[j] = fields[1 + j - 1]
    BY <1>0, <2>1, SubSeqProperties
  <2> HIDE DEF front
  <2> QED BY <1>0, <2>2
<1>2. /\ back \in Seq(Field) /\ Len(back) = Len(fields) - i
      /\ \A j \in 1..Len(fields) - i : back[j] = fields[i + j]
  <2>1. \A j \in i + 1..Len(fields) : fields[j] \in Field
    BY <1>0
  <2>2. /\ back \in Seq(Field)
        /\ Len(back) = IF i + 1 <= Len(fields) THEN Len(fields) - (i + 1) + 1 ELSE 0
        /\ \A j \in 1..Len(fields) - (i + 1) + 1 : back[j] = fields[i + 1 + j - 1]
    BY <1>0, <2>1, SubSeqProperties
  <2> HIDE DEF back
  <2>3. back \in Seq(Field) /\ Len(back) = Len(fields) - i
    BY <1>0, <2>2
  <2>4. ASSUME NEW j \in 1..Len(fields) - i PROVE back[j] = fields[i + j]
    <3>1. j \in 1..Len(fields) - (i + 1) + 1 /\ i + 1 + j - 1 = i + j
      BY <1>0
    <3>2. back[j] = fields[i + 1 + j - 1]
      BY <2>2, <3>1
    <3> QED BY <3>1, <3>2
  <2> QED BY <2>3, <2>4
<1> HIDE DEF front, back
<1>3. /\ after \in Seq(Field) /\ Len(after) = Len(fields) - 1
      /\ \A j \in 1..Len(after) : after[j] = IF j <= i - 1 THEN front[j] ELSE back[j - (i - 1)]
  <2>1. /\ after \in Seq(Field) /\ Len(after) = Len(front) + Len(back)
        /\ \A j \in 1..Len(front) + Len(back) :
              after[j] = IF j <= Len(front) THEN front[j] ELSE back[j - Len(front)]
    BY <1>1, <1>2, ConcatProperties
  <2> HIDE DEF after
  <2> QED BY <1>0, <1>1, <1>2, <2>1
<1> HIDE DEF after
<1>4. DOMAIN after = 1..Len(after)
  BY <1>3
<1>5. ASSUME NEW j \in DOMAIN after
      PROVE  from(j) \in DOMAIN fields /\ after[j] = fields[from(j)]
  <2>1. j \in Nat /\ 1 <= j /\ j <= Len(fields) - 1
    BY <1>0, <1>3, <1>4
  <2>2. CASE j < i
    BY <1>0, <1>1, <1>3, <1>4, <2>1, <2>2
  <2>3. CASE ~(j < i)
    <3>1. j - (i - 1) \in 1..Len(fields) - i /\ i + (j - (i - 1)) = j + 1 /\ ~(j <= i - 1)
      BY <1>0, <2>1, <2>3
    <3>2. after[j] = back[j - (i - 1)] /\ back[j - (i - 1)] = fields[i + (j - (i - 1))]
      BY <1>2, <1>3, <1>4, <3>1
    <3> QED BY <1>0, <2>1, <2>3, <3>1, <3>2
  <2> QED BY <2>2, <2>3
<1>6. \A j, k \in DOMAIN after : from(j) = from(k) => j = k
  BY <1>0, <1>3, <1>4
<1> HIDE DEF from
<1>7. SlugsDistinct(fields) => SlugsDistinct(after)
  BY <1>5, <1>6 DEF SlugsDistinct, SlugsOf
<1> QED BY <1>3, <1>7 DEF RemoveAt, after, front, back

LEMMA MovedField ==
    ASSUME NEW fields \in Seq(Field), NEW i \in DOMAIN fields, NEW to \in DOMAIN fields
    PROVE  LET after == [fields EXCEPT ![i] = fields[to], ![to] = fields[i]] IN
           after \in Seq(Field) /\ (SlugsDistinct(fields) => SlugsDistinct(after))
<1> DEFINE after == [fields EXCEPT ![i] = fields[to], ![to] = fields[i]]
<1>1. after \in Seq(Field) /\ DOMAIN after = DOMAIN fields
  OBVIOUS
<1>2. \A j \in DOMAIN fields :
         after[j] = IF j = to THEN fields[i] ELSE IF j = i THEN fields[to] ELSE fields[j]
  OBVIOUS
<1> HIDE DEF after
<1>3. SlugsDistinct(fields) => SlugsDistinct(after)
  BY <1>1, <1>2 DEF SlugsDistinct, SlugsOf
<1> QED BY <1>1, <1>3 DEF after

LEMMA ChangedField ==
    ASSUME NEW fields \in Seq(Field), NEW i \in DOMAIN fields, NEW field \in Field
    PROVE  LET after == [fields EXCEPT ![i] = field] IN
           /\ after \in Seq(Field)
           /\ field.slug = fields[i].slug /\ SlugsDistinct(fields) => SlugsDistinct(after)
<1> DEFINE after == [fields EXCEPT ![i] = field]
<1>1. after \in Seq(Field) /\ DOMAIN after = DOMAIN fields
  OBVIOUS
<1>2. \A j \in DOMAIN fields : after[j] = IF j = i THEN field ELSE fields[j]
  OBVIOUS
<1> HIDE DEF after
<1>3. field.slug = fields[i].slug /\ SlugsDistinct(fields) => SlugsDistinct(after)
  BY <1>1, <1>2 DEF SlugsDistinct, SlugsOf
<1> QED BY <1>1, <1>3 DEF after
-----------------------------------------------------------------------------
(***************************************************************************)
(* The inductive invariant                                                 *)
(*                                                                         *)
(* Whatever an edit, a render or a draft leaves behind is a sequence of    *)
(* fields, and a version has passed validation: so an answer accepted      *)
(* against it has slugs that are no one's but its questions'.              *)
(***************************************************************************)
SchemasOK ==
    /\ draft # None => draft \in Seq(Field)
    /\ versions \in Seq(Seq(Field))
    /\ \A n \in DOMAIN versions : ValidSchema(versions[n])
    /\ board # Closed => board \in [fields : Seq(Field), clean : BOOLEAN]

(* Versions are added and never changed.                                   *)
Grown ==
    /\ DOMAIN versions \subseteq DOMAIN versions' /\ Active <= Active'
    /\ \A n \in DOMAIN versions : versions'[n] = versions[n]

Given == [kind : Kinds, value : Texts \cup {Caption.value},
          labels : {OptionLabel(text) : text \in Texts} \cup {None}]

Row == [version : Nat, answers : UNION {[given -> Given] : given \in SUBSET Slugs},
        erased : BOOLEAN]

(* A row under the versions there are: what it holds are answers to the    *)
(* questions of its version and captions of its headers.                   *)
Tells(row, all) ==
    /\ row.version \in DOMAIN all
    /\ \A slug \in DOMAIN row.answers :
          /\ row.answers[slug].kind # "header" =>
                slug \in QuestionSlugs(all[row.version]) /\ row.answers[slug].value \in Texts
          /\ row.answers[slug].kind = "header" =>
                /\ slug \in SlugsOf(all[row.version]) \ QuestionSlugs(all[row.version])
                /\ row.answers[slug] = Caption

RowsOK ==
    /\ submission \in Seq(Row)
    /\ \A i \in Stored : /\ Tells(submission[i], versions)
                         /\ submission[i].erased => submission[i].answers = Empty

ResponsesInv == SchemasOK /\ RowsOK /\ SlugsCollideOnlyByHand
-----------------------------------------------------------------------------
(***************************************************************************)
(* Authors                                                                 *)
(***************************************************************************)
LEMMA PublishKeeps ==
    ASSUME SchemasOK, NEW schema \in Seq(Field), PublishSchema(schema)
    PROVE  /\ draft' # None => draft' \in Seq(Field)
           /\ versions' \in Seq(Seq(Field)) /\ Grown
           /\ \A n \in DOMAIN versions' : ValidSchema(versions'[n])
<1>1. CASE ValidSchema(schema)
  <2>1. versions' = Append(versions, schema) /\ draft' = None
    BY <1>1 DEF PublishSchema
  <2>2. /\ versions' \in Seq(Seq(Field))
        /\ DOMAIN versions' = DOMAIN versions \cup {Len(versions) + 1}
        /\ \A n \in DOMAIN versions : versions'[n] = versions[n]
        /\ versions'[Len(versions) + 1] = schema
        /\ Len(versions) <= Len(versions')
    BY <2>1 DEF SchemasOK
  <2> QED BY <1>1, <2>1, <2>2 DEF SchemasOK, Grown, Active
<1>2. CASE ~ValidSchema(schema)
  <2>1. versions' = versions /\ draft' = schema /\ Len(versions) \in Nat
    BY <1>2 DEF PublishSchema, SchemasOK
  <2> QED BY <2>1 DEF SchemasOK, Grown, Active
<1> QED BY <1>1, <1>2

(* An edit that leaves a sequence of fields, and distinct slugs distinct.  *)
Harmless(fields) ==
    /\ fields \in Seq(Field)
    /\ SlugsDistinct(board.fields) => SlugsDistinct(fields)

LEMMA EditKeeps ==
    ASSUME SchemasOK, SlugsCollideOnlyByHand, board # Closed,
           NEW fields, Harmless(fields), Edit(fields)
    PROVE  SchemasOK' /\ SlugsCollideOnlyByHand' /\ versions' = versions
<1>1. /\ board \in [fields : Seq(Field), clean : BOOLEAN]
      /\ board' = [board EXCEPT !.fields = fields] /\ draft' = draft /\ versions' = versions
  BY DEF Edit, SchemasOK
<1>2. /\ board' \in [fields : Seq(Field), clean : BOOLEAN]
      /\ board'.fields = fields /\ board'.clean = board.clean
  BY <1>1 DEF Harmless
<1>3. board.clean => SlugsDistinct(board.fields)
  BY DEF SlugsCollideOnlyByHand
<1>4. board'.clean => SlugsDistinct(board'.fields)
  BY <1>2, <1>3 DEF Harmless
<1>5. SlugsCollideOnlyByHand'
  BY <1>4 DEF SlugsCollideOnlyByHand, SlugsDistinct, SlugsOf
<1> QED BY <1>1, <1>2, <1>5 DEF SchemasOK

LEMMA AuthorKeeps ==
    ASSUME SchemasOK, SlugsCollideOnlyByHand, Author
    PROVE  SchemasOK' /\ SlugsCollideOnlyByHand' /\ Grown
<1>0. versions' = versions => Grown
  BY DEF SchemasOK, Grown, Active
<1>1. CASE SaveDraft
  <2>1. draft' \in Seq(Field) /\ UNCHANGED <<versions, board>>
    BY <1>1, BuilderAssumption DEF SaveDraft, Normalizable
  <2> QED BY <1>0, <2>1 DEF SchemasOK, SlugsCollideOnlyByHand
<1>2. CASE PublishDraft
  <2>1. draft \in Seq(Field) /\ PublishSchema(draft) /\ board' = board
    BY <1>2 DEF PublishDraft, SchemasOK
  <2> QED BY <2>1, PublishKeeps DEF SchemasOK, SlugsCollideOnlyByHand
<1>3. CASE RenderBoard
  <2> DEFINE fields == IF draft # None THEN draft
                       ELSE IF Active # 0 THEN versions[Active] ELSE <<>>
  <2>1. fields \in Seq(Field)
    <3>1. Active \in Nat /\ (Active # 0 => versions[Active] \in Seq(Field))
      BY DEF Active, SchemasOK
    <3> QED BY <3>1 DEF SchemasOK
  <2>2. board' = [fields |-> fields, clean |-> SlugsDistinct(fields)] /\ UNCHANGED <<draft, versions>>
    BY <1>3 DEF RenderBoard
  <2> HIDE DEF fields
  <2>3. SlugsDistinct(fields) \in BOOLEAN
    BY DEF SlugsDistinct
  <2>4. /\ board'.fields = fields /\ (board'.clean => SlugsDistinct(fields))
        /\ board' \in [fields : Seq(Field), clean : BOOLEAN]
    BY <2>1, <2>2, <2>3
  <2>5. SlugsCollideOnlyByHand'
    BY <2>4 DEF SlugsCollideOnlyByHand, SlugsDistinct, SlugsOf
  <2> QED BY <1>0, <2>2, <2>4, <2>5 DEF SchemasOK
<1>4. CASE PublishBoard
  <2>1. board.fields \in Seq(Field) /\ PublishSchema(board.fields) /\ board' = Closed
    BY <1>4 DEF PublishBoard, SchemasOK
  <2> QED BY <2>1, PublishKeeps DEF SchemasOK, SlugsCollideOnlyByHand
<1>5. CASE EditBoard
  <2>1. board # Closed /\ board \in [fields : Seq(Field), clean : BOOLEAN]
        /\ board.fields \in Seq(Field)
    BY <1>5 DEF EditBoard, SchemasOK
  <2>2. \A i \in DOMAIN board.fields : board.fields[i] \in Field
    BY <2>1
  <2>3. ASSUME NEW kind \in AllowedKinds, AddField(kind)
        PROVE  SchemasOK' /\ SlugsCollideOnlyByHand' /\ versions' = versions
    <3> DEFINE slug == UniqueSlug(kind, board.fields)
               field == [slug |-> slug, name |-> <<kind, 1>>, mandatory |-> FALSE,
                         kind |-> kind, config |-> "bare"]
    <3>1. slug \notin SlugsOf(board.fields) /\ slug \in Slugs
      <4>1. Len(board.fields) < MaxFields /\ Len(board.fields) \in Nat
        BY <2>1, <2>3 DEF AddField
      <4>2. PICK n \in 1..Len(board.fields) + 1 : slug = <<kind, n>>
        BY <2>1, UniqueSlugIsFree
      <4>3. n \in 1..MaxFields
        BY <4>1, SchemaAssumption
      <4>4. <<kind, n>> \in AllowedKinds \X (1..MaxFields)
        BY <4>3
      <4> QED BY <2>1, <4>2, <4>4, UniqueSlugIsFree, BuilderAssumption
    <3>2. Edit(Append(board.fields, field))
      BY <2>3 DEF AddField
    <3> HIDE DEF slug
    <3>3. field \in Field /\ field.slug = slug /\ slug # None
      <4>1. <<kind, 1>> \in Names /\ kind \in Kinds
        BY BuilderAssumption, SchemaAssumption
      <4> QED BY <3>1, <4>1, SchemaAssumption DEF Field, Configs
    <3> HIDE DEF field
    <3>4. Harmless(Append(board.fields, field))
      BY <2>1, <3>1, <3>3, AddedField DEF Harmless
    <3> QED BY <2>1, <3>2, <3>4, EditKeeps
  <2>4. ASSUME NEW i \in DOMAIN board.fields, RemoveField(i)
        PROVE  SchemasOK' /\ SlugsCollideOnlyByHand' /\ versions' = versions
    <3>1. Harmless(RemoveAt(board.fields, i)) /\ Edit(RemoveAt(board.fields, i))
      BY <2>1, <2>4, RemovedField DEF Harmless, RemoveField
    <3> QED BY <2>1, <3>1, EditKeeps
  <2>5. ASSUME NEW i \in DOMAIN board.fields, NEW to, MoveField(i, to)
        PROVE  SchemasOK' /\ SlugsCollideOnlyByHand' /\ versions' = versions
    <3> DEFINE after == [board.fields EXCEPT ![i] = board.fields[to], ![to] = board.fields[i]]
    <3>1. to \in DOMAIN board.fields /\ Edit(after)
      BY <2>5 DEF MoveField
    <3>2. Harmless(after)
      BY <2>1, <3>1, MovedField DEF Harmless
    <3> QED BY <2>1, <3>1, <3>2, EditKeeps
  <2>6. ASSUME NEW i \in DOMAIN board.fields, NEW field \in Field,
               field.slug = board.fields[i].slug, Edit([board.fields EXCEPT ![i] = field])
        PROVE  SchemasOK' /\ SlugsCollideOnlyByHand' /\ versions' = versions
    <3>1. Harmless([board.fields EXCEPT ![i] = field])
      BY <2>1, <2>6, ChangedField DEF Harmless
    <3> QED BY <2>1, <2>6, <3>1, EditKeeps
  <2>7. ASSUME NEW i \in DOMAIN board.fields, NEW name \in Names \cup {None}, EditName(i, name)
        PROVE  SchemasOK' /\ SlugsCollideOnlyByHand' /\ versions' = versions
    <3> DEFINE field == [board.fields[i] EXCEPT !.name = name]
    <3>1. field \in Field /\ field.slug = board.fields[i].slug
      BY <2>2 DEF Field
    <3>2. Edit([board.fields EXCEPT ![i] = field])
      BY <2>7 DEF EditName
    <3> HIDE DEF field
    <3> QED BY <2>6, <3>1, <3>2
  <2>8. ASSUME NEW i \in DOMAIN board.fields, ToggleRequired(i)
        PROVE  SchemasOK' /\ SlugsCollideOnlyByHand' /\ versions' = versions
    <3> DEFINE field == [board.fields[i] EXCEPT !.mandatory = ~@]
    <3>1. field \in Field /\ field.slug = board.fields[i].slug
      BY <2>2 DEF Field
    <3>2. Edit([board.fields EXCEPT ![i] = field])
      BY <2>8 DEF ToggleRequired
    <3> HIDE DEF field
    <3> QED BY <2>6, <3>1, <3>2
  <2>9. ASSUME NEW i \in DOMAIN board.fields, NEW config \in {"set", "narrow"},
               Configure(i, config)
        PROVE  SchemasOK' /\ SlugsCollideOnlyByHand' /\ versions' = versions
    <3> DEFINE field == [board.fields[i] EXCEPT !.config = config]
    <3>1. field \in Field /\ field.slug = board.fields[i].slug
      BY <2>2 DEF Field, Configs
    <3>2. Edit([board.fields EXCEPT ![i] = field])
      BY <2>9 DEF Configure
    <3> HIDE DEF field
    <3> QED BY <2>6, <3>1, <3>2
  <2>10. ASSUME NEW i \in DOMAIN board.fields, NEW slug \in Slugs \cup {None}, EditSlug(i, slug)
         PROVE  SchemasOK' /\ SlugsCollideOnlyByHand' /\ versions' = versions
    <3> DEFINE field == [board.fields[i] EXCEPT !.slug = slug]
               after == [board.fields EXCEPT ![i] = field]
    <3>1. field \in Field
      BY <2>2 DEF Field
    <3>2. board' = [fields |-> after, clean |-> FALSE] /\ UNCHANGED <<draft, versions>>
      BY <2>10 DEF EditSlug
    <3> HIDE DEF field
    <3>3. after \in Seq(Field)
      BY <2>1, <3>1, ChangedField
    <3> HIDE DEF after
    <3>4. board' \in [fields : Seq(Field), clean : BOOLEAN] /\ board'.clean = FALSE
      BY <3>2, <3>3
    <3> QED BY <3>2, <3>4 DEF SchemasOK, SlugsCollideOnlyByHand
  <2> QED BY <1>0, <1>5, <2>3, <2>4, <2>5, <2>7, <2>8, <2>9, <2>10 DEF EditBoard
<1> QED BY <1>1, <1>2, <1>3, <1>4, <1>5 DEF Author
-----------------------------------------------------------------------------
(***************************************************************************)
(* Answers                                                                 *)
(***************************************************************************)
LEMMA EmptyRow == Gone \in Row /\ Empty \in UNION {[given -> Given] : given \in SUBSET Slugs}
<1>1. Empty \in [{} -> Given] /\ {} \in SUBSET Slugs
  BY DEF Empty
<1> QED BY <1>1 DEF Gone, Row

(* What is stored is typed: the slugs of a published version are proper.   *)
LEMMA StoredAnswersType ==
    ASSUME NEW schema \in Seq(Field), ValidSchema(schema),
           NEW asked, NEW answers \in [asked -> Answer], AnswersAccepted(schema, answers)
    PROVE  StoredAnswers(schema, answers) \in UNION {[given -> Given] : given \in SUBSET Slugs}
<1> DEFINE given == DOMAIN answers \cup (SlugsOf(schema) \ QuestionSlugs(schema))
<1>1. SlugsOf(schema) \subseteq Slugs
  <2>1. ASSUME NEW i \in DOMAIN schema PROVE schema[i].slug \in Slugs
    <3>1. schema[i] \in Field
      OBVIOUS
    <3>2. schema[i].slug # None
      BY DEF ValidSchema, SlugsDistinct, SlugsOf
    <3> QED BY <3>1, <3>2 DEF Field
  <2> QED BY <2>1 DEF SlugsOf
<1>2. given \subseteq Slugs
  BY <1>1 DEF AnswersAccepted, QuestionSlugs, SlugsOf
<1>3. Caption \in Given
  BY SchemaAssumption DEF Caption, Given
<1>4. ASSUME NEW slug \in DOMAIN answers PROVE StoredAnswer(answers[slug]) \in Given
  BY DEF Answer, StoredAnswer, Given
<1>5. StoredAnswers(schema, answers) \in [given -> Given]
  <2> HIDE DEF given
  <2>1. StoredAnswers(schema, answers) =
           [slug \in given |-> IF slug \in DOMAIN answers THEN StoredAnswer(answers[slug])
                                                          ELSE Caption]
    BY DEF StoredAnswers, given
  <2> QED BY <1>3, <1>4, <2>1
<1> QED BY <1>2, <1>5

LEMMA StoredAnswersTell ==
    ASSUME NEW schema, NEW asked, NEW answers \in [asked -> Answer],
           AnswersAccepted(schema, answers), NEW slug \in DOMAIN StoredAnswers(schema, answers)
    PROVE  LET stored == StoredAnswers(schema, answers)[slug] IN
           /\ stored.kind # "header" => slug \in QuestionSlugs(schema) /\ stored.value \in Texts
           /\ stored.kind = "header" =>
                 slug \in SlugsOf(schema) \ QuestionSlugs(schema) /\ stored = Caption
<1> DEFINE stored == StoredAnswers(schema, answers)[slug]
<1>1. CASE slug \in DOMAIN answers
  <2>1. stored = StoredAnswer(answers[slug])
    BY <1>1 DEF StoredAnswers
  <2>2. answers[slug] \in Answer
    BY <1>1
  <2> HIDE DEF stored
  <2>3. stored.kind # "header" /\ stored.value \in Texts
    BY <2>1, <2>2 DEF Answer, StoredAnswer
  <2>4. slug \in QuestionSlugs(schema)
    BY <1>1 DEF AnswersAccepted
  <2> QED BY <2>3, <2>4 DEF stored
<1>2. CASE slug \notin DOMAIN answers
  <2>1. stored = Caption /\ slug \in SlugsOf(schema) \ QuestionSlugs(schema)
    BY <1>2 DEF StoredAnswers
  <2> QED BY <2>1 DEF Caption
<1> QED BY <1>1, <1>2

LEMMA ResponsesInit == Init => ResponsesInv
BY DEF Init, BuilderInit, ResponsesInv, SchemasOK, RowsOK, Stored, SlugsCollideOnlyByHand

LEMMA SubmitKeeps ==
    ASSUME SchemasOK, RowsOK, NEW n \in DOMAIN versions, Submit(n)
    PROVE  RowsOK'
<1>1. PICK asked \in SUBSET UNION {SlugsOf(versions[m]) : m \in DOMAIN versions} :
      \E answers \in [asked -> Answer] :
          /\ AnswersAccepted(versions[n], answers)
          /\ submission' = Append(submission,
                              [version |-> n, answers |-> StoredAnswers(versions[n], answers),
                               erased |-> FALSE])
  BY DEF Submit
<1>2. PICK answers \in [asked -> Answer] :
          /\ AnswersAccepted(versions[n], answers)
          /\ submission' = Append(submission,
                              [version |-> n, answers |-> StoredAnswers(versions[n], answers),
                               erased |-> FALSE])
  BY <1>1
<1>3. versions[n] \in Seq(Field) /\ ValidSchema(versions[n]) /\ n \in Nat
  BY DEF SchemasOK
<1> DEFINE stored == StoredAnswers(versions[n], answers)
           row == [version |-> n, answers |-> stored, erased |-> FALSE]
<1>4. stored \in UNION {[given -> Given] : given \in SUBSET Slugs}
  BY <1>2, <1>3, StoredAnswersType
<1>5. submission' = Append(submission, row)
  BY <1>2
<1> HIDE DEF stored
<1>6. row \in Row /\ row.version = n /\ row.answers = stored /\ row.erased = FALSE
  BY <1>3, <1>4 DEF Row
<1> HIDE DEF row
<1>7. /\ submission' \in Seq(Row)
      /\ DOMAIN submission' = DOMAIN submission \cup {Len(submission) + 1}
      /\ \A i \in DOMAIN submission : submission'[i] = submission[i]
      /\ submission'[Len(submission) + 1] = row
  BY <1>5, <1>6 DEF RowsOK
<1>8. versions' = versions
  BY DEF Submit
<1>9. Tells(row, versions)
  BY <1>2, <1>6, StoredAnswersTell DEF Tells, stored
<1> QED BY <1>6, <1>7, <1>8, <1>9 DEF RowsOK, Stored

LEMMA EraseKeeps ==
    ASSUME SchemasOK, RowsOK, NEW i \in Stored, Erase(i) \/ DeleteSubmission(i)
    PROVE  RowsOK'
<1>1. i \in DOMAIN submission /\ submission \in Seq(Row) /\ submission[i] \in Row
      /\ versions' = versions
  BY DEF Stored, RowsOK, Erase, DeleteSubmission
<1>2. CASE Erase(i)
  <2> DEFINE row == [submission[i] EXCEPT !.answers = Empty, !.erased = TRUE]
  <2>1. submission' = [submission EXCEPT ![i] = row]
    BY <1>2 DEF Erase
  <2>2. row \in Row /\ row.version = submission[i].version /\ row.answers = Empty
    BY <1>1, EmptyRow DEF Row
  <2> HIDE DEF row
  <2>3. /\ submission' \in Seq(Row) /\ DOMAIN submission' = DOMAIN submission
        /\ \A j \in DOMAIN submission : submission'[j] = IF j = i THEN row ELSE submission[j]
    BY <1>1, <2>1, <2>2
  <2>4. Tells(row, versions)
    BY <2>2 DEF Tells, Empty, RowsOK
  <2> QED BY <1>1, <2>2, <2>3, <2>4 DEF RowsOK, Stored
<1>3. CASE DeleteSubmission(i)
  <2>1. /\ submission' \in Seq(Row) /\ DOMAIN submission' = DOMAIN submission
        /\ \A j \in DOMAIN submission : submission'[j] = IF j = i THEN Gone ELSE submission[j]
    BY <1>1, <1>3, EmptyRow DEF DeleteSubmission
  <2> QED BY <1>1, <2>1 DEF RowsOK, Stored
<1> QED BY <1>2, <1>3

LEMMA RowsStayTrue ==
    ASSUME Grown
    PROVE  \A row : Tells(row, versions) => Tells(row, versions')
BY DEF Grown, Tells

LEMMA ResponsesNext == ResponsesInv /\ [Next]_vars => ResponsesInv'
<1> SUFFICES ASSUME SchemasOK, RowsOK, SlugsCollideOnlyByHand, [Next]_vars
             PROVE  SchemasOK' /\ RowsOK' /\ SlugsCollideOnlyByHand'
  BY DEF ResponsesInv
<1>1. ASSUME Author, submission' = submission
      PROVE  SchemasOK' /\ RowsOK' /\ SlugsCollideOnlyByHand'
  <2>1. SchemasOK' /\ SlugsCollideOnlyByHand' /\ Grown
    BY <1>1, AuthorKeeps
  <2>2. Stored' = Stored
    BY <1>1 DEF Stored
  <2>3. \A i \in Stored : Tells(submission[i], versions')
    BY <2>1, RowsStayTrue DEF RowsOK
  <2> QED BY <1>1, <2>1, <2>2, <2>3 DEF RowsOK
<1>2. ASSUME draft' = draft, versions' = versions, board' = board, RowsOK'
      PROVE  SchemasOK' /\ RowsOK' /\ SlugsCollideOnlyByHand'
  BY <1>2 DEF SchemasOK, SlugsCollideOnlyByHand
<1>3. ASSUME NEW n \in DOMAIN versions, Submit(n)
      PROVE  SchemasOK' /\ RowsOK' /\ SlugsCollideOnlyByHand'
  BY <1>2, <1>3, SubmitKeeps DEF Submit
<1>4. ASSUME NEW i \in Stored, Erase(i) \/ DeleteSubmission(i)
      PROVE  SchemasOK' /\ RowsOK' /\ SlugsCollideOnlyByHand'
  BY <1>2, <1>4, EraseKeeps DEF Erase, DeleteSubmission
<1>5. ASSUME OpenPage \/ QueryRows \/ RenderPage \/ UNCHANGED vars
      PROVE  SchemasOK' /\ RowsOK' /\ SlugsCollideOnlyByHand'
  <2>1. draft' = draft /\ versions' = versions /\ board' = board /\ submission' = submission
    BY <1>5 DEF OpenPage, QueryRows, RenderPage, vars
  <2> QED BY <1>2, <2>1 DEF RowsOK, Stored
<1> QED BY <1>1, <1>3, <1>4, <1>5 DEF Next

(* Drafts, versions, boards and rows are what the code takes them for, and *)
(* an erased row keeps no answer.                                          *)
THEOREM ResponsesTypeCorrect == Spec => []ResponsesTypeOK
<1>1. ResponsesInv => ResponsesTypeOK
  BY DEF ResponsesInv, SchemasOK, RowsOK, Tells, ResponsesTypeOK
<1> QED BY <1>1, ResponsesInit, ResponsesNext, PTL DEF Spec

(* A builder page whose slugs were distinct keeps them distinct through    *)
(* any additions, moves and removals, until an author types one.           *)
THEOREM BuilderNamesApart == Spec => []SlugsCollideOnlyByHand
<1>1. ResponsesInv => SlugsCollideOnlyByHand
  BY DEF ResponsesInv
<1> QED BY <1>1, ResponsesInit, ResponsesNext, PTL DEF Spec
-----------------------------------------------------------------------------
(***************************************************************************)
(* The history of versions                                                 *)
(***************************************************************************)

(* Where slugs are distinct, the index of a schema is its questions.       *)
LEMMA IndexIsQuestions ==
    ASSUME NEW schema \in Seq(Field), SlugsDistinct(schema), NEW i \in DOMAIN schema, ~IsHeader(schema[i])
    PROVE  /\ schema[i].slug \in QuestionSlugs(schema)
           /\ QuestionIndex(schema)[schema[i].slug] = schema[i]
<1> DEFINE s == schema[i].slug
           at == {k \in DOMAIN schema : schema[k].slug = s /\ ~IsHeader(schema[k])}
<1>1. s \in QuestionSlugs(schema)
  BY DEF QuestionSlugs, SlugsDistinct, SlugsOf
<1>2. at = {i}
  BY DEF SlugsDistinct
<1>3. QuestionIndex(schema)[s] = schema[CHOOSE k \in at : \A j \in at : j <= k]
  BY <1>1 DEF QuestionIndex
<1>4. (CHOOSE k \in at : \A j \in at : j <= k) = i
  <2>1. i <= i
    OBVIOUS
  <2> QED BY <1>2, <2>1
<1> QED BY <1>1, <1>3, <1>4

LEMMA QuestionsAreIndexed ==
    ASSUME NEW schema \in Seq(Field), SlugsDistinct(schema), NEW s \in QuestionSlugs(schema)
    PROVE  \E i \in DOMAIN schema : /\ ~IsHeader(schema[i]) /\ schema[i].slug = s
                                    /\ QuestionIndex(schema)[s] = schema[i]
<1>1. PICK i \in DOMAIN schema : ~IsHeader(schema[i]) /\ schema[i].slug = s
  BY DEF QuestionSlugs
<1> QED BY <1>1, IndexIsQuestions

(* The labels follow from those before and the change, whatever the        *)
(* schemas are.                                                            *)
LEMMA LabelsRetrace ==
    ASSUME NEW old, NEW new
    PROVE  Retraced(Labels(old), SchemaDiff(old, new)) = Labels(new)
<1> DEFINE B == QuestionSlugs(old)
           A == QuestionSlugs(new)
           b(s) == LabelOf(QuestionIndex(old)[s])
           a(s) == LabelOf(QuestionIndex(new)[s])
           removed == {<<s, b(s)>> : s \in B \ A}
           added == {<<s, a(s)>> : s \in A \ B}
           renamed == {<<s, a(s), b(s)>> : s \in {t \in A \cap B : b(t) # a(t)}}
           before == {<<s, b(s)>> : s \in {t \in A \cap B : b(t) # a(t)}}
           after == {<<s, a(s)>> : s \in {t \in A \cap B : b(t) # a(t)}}
<1>1. DOMAIN QuestionIndex(old) = B /\ DOMAIN QuestionIndex(new) = A
  BY DEF QuestionIndex
<1>2. /\ SchemaDiff(old, new).added = added
      /\ SchemaDiff(old, new).removed = removed
      /\ SchemaDiff(old, new).renamed = renamed
  BY <1>1 DEF SchemaDiff
<1>3. Labels(old) = {<<s, b(s)>> : s \in B} /\ Labels(new) = {<<s, a(s)>> : s \in A}
  BY DEF Labels
<1> HIDE DEF a, b, A, B
<1>4. {<<r[1], r[3]>> : r \in renamed} = before /\ {<<r[1], r[2]>> : r \in renamed} = after
  <2> DEFINE K == {t \in A \cap B : b(t) # a(t)}
             r(s) == <<s, a(s), b(s)>>
  <2>1. \A s : r(s)[1] = s /\ r(s)[2] = a(s) /\ r(s)[3] = b(s)
    OBVIOUS
  <2>2. renamed = {r(s) : s \in K}
    OBVIOUS
  <2> HIDE DEF r, renamed, K
  <2>3. {<<q[1], q[3]>> : q \in renamed} = {<<r(s)[1], r(s)[3]>> : s \in K}
    BY <2>2
  <2>4. {<<q[1], q[2]>> : q \in renamed} = {<<r(s)[1], r(s)[2]>> : s \in K}
    BY <2>2
  <2> QED BY <2>1, <2>3, <2>4 DEF K
<1>5. ({<<s, b(s)>> : s \in B} \ (removed \cup before)) \cup added \cup after
         = {<<s, a(s)>> : s \in A}
  OBVIOUS
<1> HIDE DEF removed, added, renamed, before, after
<1> QED BY <1>2, <1>3, <1>4, <1>5 DEF Retraced

(* What a respondent is asked, and what is accepted of one, depend on the  *)
(* questions alone.                                                        *)
Asked(question, slug) ==
    [slug |-> slug, label |-> LabelOf(question), mandatory |-> question.mandatory,
     kind |-> question.kind, config |-> question.config]

(* The same but for its config.                                            *)
Outlined(question, slug) ==
    [slug |-> slug, label |-> LabelOf(question), mandatory |-> question.mandatory,
     kind |-> question.kind, config |-> None]

LEMMA AskedByQuestions ==
    ASSUME NEW schema \in Seq(Field), SlugsDistinct(schema)
    PROVE  AskedBy(schema) = {Asked(QuestionIndex(schema)[s], s) : s \in QuestionSlugs(schema)}
<1> DEFINE questions == {i \in DOMAIN schema : ~IsHeader(schema[i])}
<1>1. \A i \in questions : PublicFields(schema)[i] = Asked(schema[i], schema[i].slug)
  BY DEF PublicFields, Asked
<1>2. AskedBy(schema) = {Asked(schema[i], schema[i].slug) : i \in questions}
  <2> HIDE DEF Asked
  <2> QED BY <1>1 DEF AskedBy
<1>3. \A i \in questions : /\ schema[i].slug \in QuestionSlugs(schema)
                          /\ QuestionIndex(schema)[schema[i].slug] = schema[i]
  BY IndexIsQuestions
<1>4. \A s \in QuestionSlugs(schema) : \E i \in questions :
         schema[i].slug = s /\ QuestionIndex(schema)[s] = schema[i]
  BY QuestionsAreIndexed
<1> HIDE DEF questions
<1> QED BY <1>2, <1>3, <1>4

LEMMA OutlineOfQuestions ==
    ASSUME NEW schema \in Seq(Field), SlugsDistinct(schema)
    PROVE  Outline(schema) = {Outlined(QuestionIndex(schema)[s], s) : s \in QuestionSlugs(schema)}
<1> DEFINE index(s) == QuestionIndex(schema)[s]
<1>1. Outline(schema) = {[Asked(index(s), s) EXCEPT !.config = None] : s \in QuestionSlugs(schema)}
  <2> HIDE DEF index, Asked
  <2>1. AskedBy(schema) = {Asked(index(s), s) : s \in QuestionSlugs(schema)}
    BY AskedByQuestions DEF index
  <2> QED BY <2>1 DEF Outline
<1>2. \A s : [Asked(index(s), s) EXCEPT !.config = None] = Outlined(index(s), s)
  BY DEF Asked, Outlined
<1> HIDE DEF index
<1>3. Outline(schema) = {Outlined(index(s), s) : s \in QuestionSlugs(schema)}
  BY <1>1, <1>2
<1> QED BY <1>3 DEF index

LEMMA AcceptedByQuestions ==
    ASSUME NEW schema
    PROVE  AcceptedBy(schema) =
              {answers \in UNION {[asked -> Answer] : asked \in SUBSET QuestionSlugs(schema)} :
                  AnswersAccepted(schema, answers)}
<1>1. QuestionSlugs(schema) \subseteq SlugsOf(schema)
  BY DEF QuestionSlugs, SlugsOf
<1>2. ASSUME NEW asked \in SUBSET SlugsOf(schema), NEW answers \in [asked -> Answer],
             AnswersAccepted(schema, answers)
      PROVE  asked \in SUBSET QuestionSlugs(schema)
  BY <1>2 DEF AnswersAccepted
<1> QED BY <1>1, <1>2 DEF AcceptedBy

(* A change that reports nothing left every question what it was.          *)
LEMMA NothingReported ==
    ASSUME NEW old, NEW new, NothingChanged(SchemaDiff(old, new))
    PROVE  /\ QuestionSlugs(old) = QuestionSlugs(new)
           /\ \A s \in QuestionSlugs(new) :
                 LET before == QuestionIndex(old)[s]
                     after == QuestionIndex(new)[s]
                 IN  /\ LabelOf(before) = LabelOf(after)
                     /\ before.kind = after.kind
                     /\ before.mandatory = after.mandatory
<1> DEFINE B == QuestionSlugs(old)
           A == QuestionSlugs(new)
           before(s) == QuestionIndex(old)[s]
           after(s) == QuestionIndex(new)[s]
           change == SchemaDiff(old, new)
<1>1. DOMAIN QuestionIndex(old) = B /\ DOMAIN QuestionIndex(new) = A
  BY DEF QuestionIndex
<1>2. /\ change.added = {<<s, LabelOf(after(s))>> : s \in A \ B}
      /\ change.removed = {<<s, LabelOf(before(s))>> : s \in B \ A}
      /\ change.renamed = {<<s, LabelOf(after(s)), LabelOf(before(s))>> :
                              s \in {t \in B \cap A : LabelOf(before(t)) # LabelOf(after(t))}}
      /\ change.retyped = {<<s, after(s).kind>> :
                              s \in {t \in B \cap A : before(t).kind # after(t).kind}}
      /\ change.required = {<<s, after(s).mandatory>> :
                              s \in {t \in B \cap A : before(t).mandatory # after(t).mandatory}}
      /\ DOMAIN change = {"added", "removed", "renamed", "retyped", "required"}
  BY <1>1 DEF SchemaDiff
<1> HIDE DEF change
<1>3. /\ change.added = {} /\ change.removed = {} /\ change.renamed = {}
      /\ change.retyped = {} /\ change.required = {}
  <2>1. \A part \in DOMAIN change : change[part] = {}
    BY DEF NothingChanged, change
  <2> QED BY <1>2, <2>1
<1> HIDE DEF before, after, A, B
<1>4. A \ B = {} /\ B \ A = {}
  BY <1>2, <1>3
<1>5. \A s \in A \cap B : /\ LabelOf(before(s)) = LabelOf(after(s))
                        /\ before(s).kind = after(s).kind
                        /\ before(s).mandatory = after(s).mandatory
  BY <1>2, <1>3
<1> QED BY <1>4, <1>5 DEF before, after, A, B

LEMMA SameOutline ==
    ASSUME NEW old \in Seq(Field), SlugsDistinct(old), NEW new \in Seq(Field),
           SlugsDistinct(new), NothingChanged(SchemaDiff(old, new))
    PROVE  Outline(old) = Outline(new)
<1>1. \A s \in QuestionSlugs(new) :
         Outlined(QuestionIndex(old)[s], s) = Outlined(QuestionIndex(new)[s], s)
  BY NothingReported DEF Outlined
<1>2. QuestionSlugs(old) = QuestionSlugs(new)
  BY NothingReported
<1>3. {Outlined(QuestionIndex(old)[s], s) : s \in QuestionSlugs(old)}
         = {Outlined(QuestionIndex(new)[s], s) : s \in QuestionSlugs(new)}
  BY <1>1, <1>2
<1> QED BY <1>3, OutlineOfQuestions

LEMMA NothingIsDifferent ==
    ASSUME NEW old \in Seq(Field), SlugsDistinct(old), NEW new \in Seq(Field),
           SlugsDistinct(new), NothingChanged(SchemaDiff(old, new)),
           ConfigsOf(old) = ConfigsOf(new)
    PROVE  AskedBy(old) = AskedBy(new) /\ AcceptedBy(old) = AcceptedBy(new)
<1>0. \A s \in QuestionSlugs(new) : QuestionIndex(old)[s].config = QuestionIndex(new)[s].config
  <2> SUFFICES ASSUME NEW s \in QuestionSlugs(new)
               PROVE  QuestionIndex(old)[s].config = QuestionIndex(new)[s].config
    OBVIOUS
  <2>1. <<s, QuestionIndex(new)[s].config>> \in ConfigsOf(old)
    BY DEF ConfigsOf
  <2> QED BY <2>1 DEF ConfigsOf
<1>1. AskedBy(old) = AskedBy(new)
  <2>1. \A s \in QuestionSlugs(new) :
           Asked(QuestionIndex(old)[s], s) = Asked(QuestionIndex(new)[s], s)
    BY <1>0, NothingReported DEF Asked
  <2>2. QuestionSlugs(old) = QuestionSlugs(new)
    BY NothingReported
  <2>3. {Asked(QuestionIndex(old)[s], s) : s \in QuestionSlugs(old)}
           = {Asked(QuestionIndex(new)[s], s) : s \in QuestionSlugs(new)}
    BY <2>1, <2>2
  <2> QED BY <2>3, AskedByQuestions
<1>2. ASSUME NEW answers
      PROVE  AnswersAccepted(old, answers) <=> AnswersAccepted(new, answers)
  BY <1>0, NothingReported DEF AnswersAccepted
<1>3. QuestionSlugs(old) = QuestionSlugs(new)
  BY NothingReported
<1> DEFINE all == UNION {[asked -> Answer] : asked \in SUBSET QuestionSlugs(new)}
<1>4. /\ AcceptedBy(old) = {answers \in all : AnswersAccepted(old, answers)}
      /\ AcceptedBy(new) = {answers \in all : AnswersAccepted(new, answers)}
  BY <1>3, AcceptedByQuestions
<1> HIDE DEF all
<1>5. AcceptedBy(old) = AcceptedBy(new)
  BY <1>2, <1>4
<1> QED BY <1>1, <1>5

(* "version_history": an author can retrace the labels of every version    *)
(* from the reported changes; of a version reported to change nothing only *)
(* the configs can have changed, and if they have not, it asks the same    *)
(* questions and accepts the same answers.                                 *)
THEOREM HistoryAlwaysTells == Spec => []HistoryTells
<1>1. SchemasOK => HistoryTells
  <2> SUFFICES ASSUME SchemasOK, NEW n \in DOMAIN versions
               PROVE  LET old == Predecessor(n)
                          new == versions[n]
                          change == VersionHistory[n].change
                      IN
                      /\ Retraced(Labels(old), change) = Labels(new)
                      /\ NothingChanged(change) =>
                            /\ Outline(old) = Outline(new)
                            /\ ConfigsOf(old) = ConfigsOf(new) =>
                                  AskedBy(old) = AskedBy(new) /\ AcceptedBy(old) = AcceptedBy(new)
    BY DEF HistoryTells
  <2>1. VersionHistory[n].change = SchemaDiff(Predecessor(n), versions[n])
    BY DEF VersionHistory
  <2>2. versions[n] \in Seq(Field) /\ SlugsDistinct(versions[n])
    BY DEF SchemasOK, ValidSchema
  <2>3. Predecessor(n) \in Seq(Field) /\ SlugsDistinct(Predecessor(n))
    <3>1. CASE n = 1
      BY <3>1 DEF Predecessor, SlugsDistinct, SlugsOf
    <3>2. CASE n # 1
      <4>1. n - 1 \in DOMAIN versions
        BY <3>2 DEF SchemasOK
      <4> QED BY <3>2, <4>1 DEF Predecessor, SchemasOK, ValidSchema
    <3> QED BY <3>1, <3>2
  <2> QED BY <2>1, <2>2, <2>3, LabelsRetrace, SameOutline, NothingIsDifferent
<1>2. ResponsesInv => SchemasOK
  BY DEF ResponsesInv
<1> QED BY <1>1, <1>2, ResponsesInit, ResponsesNext, PTL DEF Spec
-----------------------------------------------------------------------------
(***************************************************************************)
(* The columns of a table                                                  *)
(***************************************************************************)
LEMMA ColumnsAreQuestions ==
    ASSUME NEW schema \in Seq(Field), SlugsDistinct(schema)
    PROVE  ColumnSlugs(schema) = QuestionSlugs(schema)
<1> DEFINE questions == {i \in DOMAIN schema : ~IsHeader(schema[i])}
<1>1. DOMAIN AnswerColumns(schema) = questions
  BY DEF AnswerColumns
<1>2. \A i \in questions : AnswerColumns(schema)[i].slug = schema[i].slug
  BY DEF AnswerColumns
<1>3. ColumnSlugs(schema) = {schema[i].slug : i \in questions}
  BY <1>1, <1>2 DEF ColumnSlugs
<1>4. \A i \in questions : schema[i].slug # None
  BY DEF SlugsDistinct, SlugsOf
<1> QED BY <1>3, <1>4 DEF QuestionSlugs

(* Each question of a version that is shown has a column: of the places    *)
(* where its slug is met, one comes first.                                 *)
LEMMA ColumnForSlug ==
    ASSUME SchemasOK, NEW shown \in SUBSET DOMAIN versions, NEW active,
           NEW n \in shown, NEW s \in ColumnSlugs(versions[n])
    PROVE  \E p \in DOMAIN UnionOfColumns(shown, active) : UnionOfColumns(shown, active)[p].slug = s
<1> DEFINE met == UNION {{k} \X DOMAIN AnswerColumns(versions[k]) : k \in shown}
           column(p) == AnswerColumns(versions[p[1]])[p[2]]
           seen(p) == \E q \in met : MetBefore(q, p, active) /\ column(q).slug = column(p).slug
           At(k) == {i \in DOMAIN AnswerColumns(versions[k]) : AnswerColumns(versions[k])[i].slug = s}
           holders == {k \in shown : At(k) # {}}
<1>1. shown \subseteq 1..Active /\ Active \in Nat
  BY DEF SchemasOK, Active
<1>2. \A k \in shown : DOMAIN AnswerColumns(versions[k]) \subseteq Nat
  BY DEF AnswerColumns, SchemasOK
<1>3. n \in holders
  BY DEF ColumnSlugs
<1>5. PICK top \in holders : \A k \in holders : k <= top
  <2>1. holders \in SUBSET (0..Active) /\ holders # {}
    BY <1>1, <1>3
  <2> HIDE DEF holders
  <2> QED BY <1>1, <2>1, GreatestNumber
<1>6. PICK v \in holders : IF active \in holders THEN v = active ELSE \A k \in holders : k <= v
  BY <1>5
<1>7. PICK i \in At(v) : \A j \in At(v) : i <= j
  <2>1. At(v) \in SUBSET Nat /\ At(v) # {}
    BY <1>2, <1>6
  <2> HIDE DEF At
  <2> QED BY <2>1, LeastNumber
<1> DEFINE p == <<v, i>>
<1>8. p \in met /\ column(p).slug = s
  BY <1>6, <1>7
<1>9. ASSUME NEW q \in met, MetBefore(q, p, active), column(q).slug = s PROVE FALSE
  <2>1. PICK k \in shown : q \in {k} \X DOMAIN AnswerColumns(versions[k])
    OBVIOUS
  <2>2. q[1] = k /\ q[2] \in At(k) /\ k \in holders /\ k \in Nat /\ v \in Nat /\ i \in Nat
        /\ q[2] \in Nat
    BY <1>1, <1>2, <1>9, <2>1
  <2>3. p[1] = v /\ p[2] = i
    OBVIOUS
  <2>4. CASE q[1] = p[1] /\ q[2] < p[2]
    BY <1>7, <2>2, <2>3, <2>4
  <2>5. CASE q[1] # p[1] /\ (q[1] = active \/ (p[1] # active /\ q[1] > p[1]))
    BY <1>6, <2>2, <2>3, <2>5
  <2> HIDE DEF p
  <2> QED BY <1>9, <2>4, <2>5 DEF MetBefore
<1>10. ~seen(p)
  BY <1>8, <1>9
<1>11. UnionOfColumns(shown, active) = [q \in {r \in met : ~seen(r)} |-> column(q)]
  BY DEF UnionOfColumns
<1> HIDE DEF p, met, seen, column
<1> QED BY <1>8, <1>10, <1>11

-----------------------------------------------------------------------------
(***************************************************************************)
(* A page, while it is built                                               *)
(*                                                                         *)
(* The slugs a search may look at are those of the versions there were     *)
(* when the form was read, and so are the rows it is complete about; what  *)
(* the query found says the needle under one of them, and is a row of a    *)
(* version that is shown, since versions are never taken away.             *)
(***************************************************************************)
SlugsUpTo(all, n) == UNION {ColumnSlugs(all[k]) : k \in 1..n}

PageInv ==
    /\ page # NoPage /\ page.step = "scoped" =>
          /\ page.active \in 0..Active /\ page.upto \in 0..Len(submission)
          /\ \A i \in Stored \cap 1..page.upto : submission[i].version <= page.active
    /\ Rendering =>
          /\ page.active \in 0..Active
          /\ \A i \in DOMAIN page.rows :
                /\ Tells(page.rows[i], versions)
                /\ page.pinned # 0 => page.rows[i].version = page.pinned
                /\ page.needle # None =>
                      \E slug \in SlugsUpTo(versions, page.active) :
                         Says(page.rows[i], slug, page.needle)

LEMMA SlugsStay ==
    ASSUME SchemasOK, Grown
    PROVE  \A n \in 0..Active : SlugsUpTo(versions', n) = SlugsUpTo(versions, n)
<1> SUFFICES ASSUME NEW n \in 0..Active PROVE SlugsUpTo(versions', n) = SlugsUpTo(versions, n)
  OBVIOUS
<1>1. \A k \in 1..n : k \in DOMAIN versions
  BY DEF SchemasOK, Active
<1>2. \A k \in 1..n : ColumnSlugs(versions'[k]) = ColumnSlugs(versions[k])
  BY <1>1 DEF Grown
<1> HIDE DEF Active
<1> QED BY <1>2 DEF SlugsUpTo

LEMMA FoundRows ==
    ASSUME RowsOK, NEW pinned, NEW needle, NEW slugs, NEW i \in Found(pinned, needle, slugs)
    PROVE  /\ Tells(submission[i], versions)
           /\ pinned # 0 => submission[i].version = pinned
           /\ needle # None => \E slug \in slugs : Says(submission[i], slug, needle)
BY DEF Found, RowsOK

LEMMA PageInit == Init => PageInv
BY DEF Init, PageInv, Rendering

LEMMA QueryKeeps ==
    ASSUME SchemasOK, RowsOK, PageInv, QueryRows
    PROVE  PageInv'
<1>1. page # NoPage /\ page.step = "scoped" /\ page.active \in 0..Active
      /\ UNCHANGED <<versions, submission>>
  BY DEF QueryRows, PageInv
<1>2. PICK pinned \in 0..MaxVersion, needle \in Texts \cup {None} :
      \E slugs \in {AnswerSlugs(page.active)} \cup {{field} : field \in AnswerSlugs(page.active)} :
         page' = [step |-> "queried", active |-> page.active, pinned |-> pinned, needle |-> needle,
                  rows |-> [i \in Found(pinned, needle, slugs) |-> submission[i]]]
  BY DEF QueryRows
<1>3. PICK slugs \in {AnswerSlugs(page.active)} \cup {{field} : field \in AnswerSlugs(page.active)} :
         page' = [step |-> "queried", active |-> page.active, pinned |-> pinned, needle |-> needle,
                  rows |-> [i \in Found(pinned, needle, slugs) |-> submission[i]]]
  BY <1>2
<1>4. slugs \subseteq SlugsUpTo(versions, page.active)
  BY DEF AnswerSlugs, SlugsUpTo
<1>5. /\ page'.step = "queried" /\ page'.active = page.active /\ page'.pinned = pinned
      /\ page'.needle = needle /\ DOMAIN page'.rows = Found(pinned, needle, slugs)
      /\ \A i \in Found(pinned, needle, slugs) : page'.rows[i] = submission[i]
  BY <1>3
<1>6. ASSUME NEW i \in DOMAIN page'.rows
      PROVE  /\ Tells(page'.rows[i], versions')
             /\ page'.pinned # 0 => page'.rows[i].version = page'.pinned
             /\ page'.needle # None =>
                   \E slug \in SlugsUpTo(versions', page'.active) :
                      Says(page'.rows[i], slug, page'.needle)
  <2>1. page'.rows[i] = submission[i] /\ i \in Found(pinned, needle, slugs)
    BY <1>5
  <2>2. /\ Tells(submission[i], versions)
        /\ pinned # 0 => submission[i].version = pinned
        /\ needle # None => \E slug \in slugs : Says(submission[i], slug, needle)
    BY <2>1, FoundRows
  <2> QED BY <1>1, <1>4, <1>5, <2>1, <2>2
<1>7. Active' = Active
  BY <1>1 DEF Active
<1> QED BY <1>1, <1>5, <1>6, <1>7 DEF PageInv, Rendering

LEMMA PageNext == ResponsesInv /\ PageInv /\ [Next]_vars => PageInv'
<1> SUFFICES ASSUME SchemasOK, RowsOK, SlugsCollideOnlyByHand, PageInv, [Next]_vars
             PROVE  PageInv'
  BY DEF ResponsesInv
<1>1. Len(submission) \in Nat /\ Active \in Nat /\ DOMAIN versions = 1..Active
      /\ DOMAIN submission = 1..Len(submission)
  BY DEF SchemasOK, RowsOK, Active
<1>2. ASSUME Author, submission' = submission, page' = page PROVE PageInv'
  <2>1. Grown /\ Stored' = Stored
    BY <1>2, AuthorKeeps DEF Stored
  <2>2. Active' \in Nat /\ Active <= Active'
    <3>1. SchemasOK'
      BY <1>2, AuthorKeeps
    <3> QED BY <2>1, <3>1 DEF SchemasOK, Active, Grown
  <2>3. \A n \in 0..Active : n \in 0..Active' /\ SlugsUpTo(versions', n) = SlugsUpTo(versions, n)
    BY <1>1, <2>1, <2>2, SlugsStay
  <2>4. \A row : Tells(row, versions) => Tells(row, versions')
    BY <2>1, RowsStayTrue
  <2> QED BY <1>2, <2>1, <2>3, <2>4 DEF PageInv, Rendering
(* Steps of the rows: no row changes its version, and new ones come last.  *)
<1>3. ASSUME versions' = versions, page' = page, Len(submission') \in Nat,
             Len(submission) <= Len(submission'),
             \A i \in Stored' \cap 1..Len(submission) :
                i \in Stored /\ submission'[i].version = submission[i].version
      PROVE  PageInv'
  <2>1. Active' = Active
    BY <1>3 DEF Active
  <2>2. page # NoPage /\ page.step = "scoped" =>
           /\ page.upto \in 0..Len(submission')
           /\ \A i \in Stored' \cap 1..page.upto : submission'[i].version <= page.active
    BY <1>1, <1>3 DEF PageInv
  <2> QED BY <1>3, <2>1, <2>2 DEF PageInv, Rendering
<1>4. ASSUME NEW n \in DOMAIN versions, Submit(n) PROVE PageInv'
  <2>1. PICK row : submission' = Append(submission, row)
    BY <1>4 DEF Submit
  <2>2. submission' \in Seq(Row)
    BY <1>4, SubmitKeeps DEF RowsOK
  <2>3. /\ Len(submission') = Len(submission) + 1
        /\ \A i \in 1..Len(submission) : submission'[i] = submission[i]
    BY <2>1 DEF RowsOK
  <2>4. versions' = versions /\ page' = page
    BY <1>4 DEF Submit
  <2> QED BY <1>1, <1>3, <2>3, <2>4 DEF Stored
<1>5. ASSUME NEW i \in Stored, Erase(i) \/ DeleteSubmission(i) PROVE PageInv'
  <2>1. versions' = versions /\ page' = page /\ Len(submission') = Len(submission)
        /\ DOMAIN submission' = DOMAIN submission
    BY <1>5 DEF Erase, DeleteSubmission, RowsOK
  <2>2. \A j \in Stored' : j \in Stored /\ submission'[j].version = submission[j].version
    <3>1. CASE Erase(i)
      <4>1. submission[i] \in Row
        BY DEF RowsOK, Stored
      <4>2. submission'[i].version = submission[i].version
        BY <3>1, <4>1 DEF Erase, Row, Stored
      <4> QED BY <3>1, <4>2 DEF Erase, Stored
    <3>2. CASE DeleteSubmission(i)
      BY <3>2 DEF DeleteSubmission, Stored
    <3> QED BY <1>5, <3>1, <3>2
  <2> QED BY <1>1, <1>3, <2>1, <2>2
<1>6. ASSUME OpenPage PROVE PageInv'
  <2>1. /\ page' = [step |-> "scoped", active |-> Active, upto |-> Len(submission)]
        /\ UNCHANGED <<versions, submission>>
    BY <1>6 DEF OpenPage
  <2>2. page'.step = "scoped" /\ page'.active = Active /\ page'.upto = Len(submission)
    BY <2>1
  <2>3. \A i \in Stored : submission[i].version <= Active
    BY <1>1 DEF RowsOK, Tells
  <2>4. Active' = Active /\ Stored' = Stored
    BY <2>1 DEF Active, Stored
  <2> QED BY <1>1, <2>1, <2>2, <2>3, <2>4 DEF PageInv, Rendering
<1>7. ASSUME RenderPage PROVE PageInv'
  BY <1>7 DEF RenderPage, PageInv, Rendering
<1>8. CASE UNCHANGED vars
  BY <1>1, <1>3, <1>8 DEF vars, Stored
<1> QED BY <1>2, <1>4, <1>5, <1>6, <1>7, <1>8, QueryKeeps DEF Next

LEMMA PageAlways == Spec => [](ResponsesInv /\ PageInv)
BY ResponsesInit, ResponsesNext, PageInit, PageNext, PTL DEF Spec
-----------------------------------------------------------------------------
(***************************************************************************)
(* What the table shows                                                    *)
(***************************************************************************)
LEMMA RowsAreShown ==
    ASSUME PageInv, Rendering
    PROVE  /\ ShownVersions \subseteq DOMAIN versions
           /\ \A r \in DOMAIN page.rows : page.rows[r].version \in ShownVersions
           /\ 0 \notin DOMAIN versions /\ page.pinned = 0 => ShownVersions = DOMAIN versions
BY DEF PageInv, ShownVersions, Tells

LEMMA TableCells ==
    ASSUME PageInv, Rendering, NEW r \in DOMAIN page.rows, NEW p \in DOMAIN Table.columns
    PROVE  LET row == page.rows[r]
               slug == Table.columns[p].slug
           IN  /\ Table.cells[r][p].display = Display(row.answers, slug)
               /\ Table.cells[r][p].in_schema <=> slug \in ColumnSlugs(versions[row.version])
<1>1. page.rows[r].version \in ShownVersions
  BY RowsAreShown
<1> DEFINE columns == UnionOfColumns(ShownVersions, page.active)
<1>2. Table.columns = columns
  BY DEF Table, ResponseTable
<1>3. Table.cells[r][p] =
         [display |-> Display(page.rows[r].answers, columns[p].slug),
          in_schema |-> columns[p].slug \in ColumnSlugs(versions[page.rows[r].version])]
  BY <1>1, <1>2 DEF Table, ResponseTable
<1>4. /\ Table.cells[r][p].display = Display(page.rows[r].answers, columns[p].slug)
      /\ Table.cells[r][p].in_schema =
            (columns[p].slug \in ColumnSlugs(versions[page.rows[r].version]))
  <2> HIDE DEF columns
  <2> QED BY <1>3
<1>5. Table.columns[p].slug = columns[p].slug
  BY <1>2
<1> HIDE DEF columns
<1> QED BY <1>4, <1>5

LEMMA TableHasColumn ==
    ASSUME SchemasOK, PageInv, Rendering, NEW n \in ShownVersions,
           NEW s \in ColumnSlugs(versions[n])
    PROVE  \E p \in DOMAIN Table.columns : Table.columns[p].slug = s
<1>1. Table.columns = UnionOfColumns(ShownVersions, page.active)
  BY DEF Table, ResponseTable
<1>2. ShownVersions \in SUBSET DOMAIN versions
  BY RowsAreShown
<1> QED BY <1>1, <1>2, ColumnForSlug

LEMMA AnswerIsOfAQuestion ==
    ASSUME SchemasOK, NEW row, Tells(row, versions)
    PROVE  /\ row.version \in DOMAIN versions
           /\ ColumnSlugs(versions[row.version]) = QuestionSlugs(versions[row.version])
           /\ \A answer \in PresentAnswers(row) :
                 /\ answer[1] \in ColumnSlugs(versions[row.version])
                 /\ answer[1] \in DOMAIN row.answers
                 /\ answer[2] = row.answers[answer[1]].value /\ answer[2] \in Texts
<1>1. row.version \in DOMAIN versions
  BY DEF Tells
<1>2. versions[row.version] \in Seq(Field) /\ SlugsDistinct(versions[row.version])
  BY <1>1 DEF SchemasOK, ValidSchema
<1>3. ColumnSlugs(versions[row.version]) = QuestionSlugs(versions[row.version])
  BY <1>2, ColumnsAreQuestions
<1>4. ASSUME NEW slug \in DOMAIN row.answers, row.answers[slug].kind # "header"
      PROVE  slug \in ColumnSlugs(versions[row.version]) /\ row.answers[slug].value \in Texts
  BY <1>3, <1>4 DEF Tells
<1> QED BY <1>1, <1>3, <1>4 DEF PresentAnswers

(* No answer of any version disappears from review, whatever is published  *)
(* between the reads of the page.                                          *)
THEOREM NoAnswerEverHidden == Spec => []NoAnswerHidden
<1>1. ResponsesInv /\ PageInv => NoAnswerHidden
  <2> SUFFICES ASSUME SchemasOK, PageInv, Rendering, NEW r \in DOMAIN page.rows,
                      NEW answer \in PresentAnswers(page.rows[r])
               PROVE  \E p \in DOMAIN Table.columns :
                         /\ Table.columns[p].slug = answer[1]
                         /\ Table.cells[r][p].display # None
    BY DEF ResponsesInv, NoAnswerHidden
  <2> DEFINE row == page.rows[r]
  <2>1. Tells(row, versions)
    BY DEF PageInv
  <2>2. /\ answer[1] \in ColumnSlugs(versions[row.version]) /\ answer[1] \in DOMAIN row.answers
        /\ row.answers[answer[1]].value \in Texts
    BY <2>1, AnswerIsOfAQuestion
  <2>3. row.version \in ShownVersions
    BY RowsAreShown
  <2> HIDE DEF row
  <2>4. PICK p \in DOMAIN Table.columns : Table.columns[p].slug = answer[1]
    BY <2>2, <2>3, TableHasColumn
  <2>5. Display(row.answers, answer[1]) # None
    BY <2>2, SchemaAssumption DEF Display
  <2> QED BY <2>4, <2>5, TableCells DEF row
<1> QED BY <1>1, PageAlways, PTL

(* A search over all questions finds every answer that was there under a   *)
(* plain slug, and the table has a column for what made it find a row.     *)
THEOREM SearchAlwaysComplete == Spec => []SearchIsComplete
<1>1. ASSUME SchemasOK, RowsOK, PageInv, page # NoPage, page.step = "scoped",
             NEW i \in Stored \cap 1..page.upto, NEW answer \in PresentAnswers(submission[i]),
             answer[1] \in Plain
      PROVE  Findable(i, answer)
  <2> DEFINE row == submission[i]
  <2>1. Tells(row, versions) /\ row.version <= page.active /\ page.active \in 0..Active
    BY <1>1 DEF RowsOK, PageInv
  <2>2. /\ answer[1] \in ColumnSlugs(versions[row.version]) /\ answer[1] \in DOMAIN row.answers
        /\ answer[2] = row.answers[answer[1]].value /\ row.version \in DOMAIN versions
    BY <1>1, <2>1, AnswerIsOfAQuestion
  <2>3. row.version \in 1..page.active
    BY <1>1, <2>1, <2>2 DEF SchemasOK, Active
  <2> HIDE DEF row
  <2>4. answer[1] \in AnswerSlugs(page.active)
    BY <2>2, <2>3 DEF AnswerSlugs
  <2> QED BY <1>1, <2>2, <2>4 DEF Findable, Found, Says, row
<1>2. ASSUME SchemasOK, PageInv, Rendering, page.needle # None, page.pinned = 0,
             NEW r \in DOMAIN page.rows
      PROVE  \E p \in DOMAIN Table.columns : Says(page.rows[r], Table.columns[p].slug, page.needle)
  <2>1. PICK slug \in SlugsUpTo(versions, page.active) : Says(page.rows[r], slug, page.needle)
    BY <1>2 DEF PageInv
  <2>2. PICK n \in 1..page.active : slug \in ColumnSlugs(versions[n])
    BY DEF SlugsUpTo
  <2>3. n \in DOMAIN versions /\ 0 \notin DOMAIN versions
    BY <1>2 DEF PageInv, SchemasOK, Active
  <2>4. n \in ShownVersions
    BY <1>2, <2>3, RowsAreShown
  <2>5. PICK p \in DOMAIN Table.columns : Table.columns[p].slug = slug
    BY <1>2, <2>2, <2>4, TableHasColumn
  <2> QED BY <2>1, <2>5
<1>3. ResponsesInv /\ PageInv => SearchIsComplete
  BY <1>1, <1>2 DEF ResponsesInv, SearchIsComplete
<1> QED BY <1>3, PageAlways, PTL

(* A cell tells whether its respondent was asked, and the table, the page  *)
(* of one submission and its API rendering agree.                          *)
THEOREM CellsAlwaysTrue == Spec => []CellsTellTheTruth
<1>1. ASSUME SchemasOK, PageInv, Rendering, NEW r \in DOMAIN page.rows
      PROVE  LET row == page.rows[r]
                 single == AnswerRows(row)
             IN
             /\ {<<single[j].slug, row.answers[single[j].slug].value>> :
                    j \in {k \in DOMAIN single : single[k].answered}} = PresentAnswers(row)
             /\ \A p \in DOMAIN Table.columns :
                   LET slug == Table.columns[p].slug
                       cell == Table.cells[r][p]
                       asked == {j \in DOMAIN single : single[j].slug = slug}
                   IN
                   /\ cell.in_schema <=> asked # {}
                   /\ \A j \in asked : single[j].display = cell.display
  <2> DEFINE row == page.rows[r]
             columns == AnswerColumns(versions[row.version])
             single == AnswerRows(row)
  <2>1. Tells(row, versions)
    BY <1>1 DEF PageInv
  <2>2. ColumnSlugs(versions[row.version]) = QuestionSlugs(versions[row.version])
    BY <1>1, <2>1, AnswerIsOfAQuestion
  <2>3. /\ DOMAIN single = DOMAIN columns
        /\ \A j \in DOMAIN single :
              /\ single[j].slug = columns[j].slug
              /\ single[j].display = Display(row.answers, columns[j].slug)
              /\ single[j].answered <=> columns[j].slug \in DOMAIN row.answers
    BY DEF AnswerRows
  <2>4. ColumnSlugs(versions[row.version]) = {single[j].slug : j \in DOMAIN single}
    BY <2>3 DEF ColumnSlugs
  <2> HIDE DEF single, columns
  <2>5. ASSUME NEW slug \in DOMAIN row.answers
        PROVE  row.answers[slug].kind # "header" <=> \E j \in DOMAIN single : single[j].slug = slug
    BY <2>1, <2>2, <2>4 DEF Tells
  <2>6. {<<single[j].slug, row.answers[single[j].slug].value>> :
            j \in {k \in DOMAIN single : single[k].answered}} = PresentAnswers(row)
    <3>1. ASSUME NEW j \in DOMAIN single, single[j].answered
          PROVE  single[j].slug \in DOMAIN row.answers /\ row.answers[single[j].slug].kind # "header"
      BY <2>3, <2>5, <3>1
    <3>2. ASSUME NEW slug \in DOMAIN row.answers, row.answers[slug].kind # "header"
          PROVE  \E j \in DOMAIN single : single[j].answered /\ single[j].slug = slug
      BY <2>3, <2>5, <3>2
    <3> HIDE DEF row
    <3> QED BY <3>1, <3>2 DEF PresentAnswers
  <2>7. ASSUME NEW p \in DOMAIN Table.columns
        PROVE  LET slug == Table.columns[p].slug
                   cell == Table.cells[r][p]
                   asked == {j \in DOMAIN single : single[j].slug = slug}
               IN
               /\ cell.in_schema <=> asked # {}
               /\ \A j \in asked : single[j].display = cell.display
    <3> DEFINE slug == Table.columns[p].slug
               cell == Table.cells[r][p]
    <3>1. /\ cell.display = Display(row.answers, slug)
          /\ cell.in_schema <=> slug \in ColumnSlugs(versions[row.version])
      BY <1>1, TableCells
    <3> HIDE DEF slug, cell, row
    <3>2. cell.in_schema <=> \E j \in DOMAIN single : single[j].slug = slug
      BY <2>4, <3>1
    <3>3. \A j \in DOMAIN single : single[j].slug = slug => single[j].display = cell.display
      BY <2>3, <3>1
    <3> QED BY <3>2, <3>3 DEF slug, cell
  <2> QED BY <2>6, <2>7 DEF single
<1>2. ResponsesInv /\ PageInv => CellsTellTheTruth
  BY <1>1 DEF ResponsesInv, CellsTellTheTruth
<1> QED BY <1>2, PageAlways, PTL
=============================================================================
