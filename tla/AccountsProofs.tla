---------------------------- MODULE AccountsProofs ----------------------------
(***************************************************************************)
(* Who owns the rows of forms while accounts are closed and merged, for    *)
(* any users, rows and requests, and for any number of events delivered    *)
(* late, again or out of order.                                            *)
(***************************************************************************)
EXTENDS Accounts, TLAPS

(***************************************************************************)
(* The inductive invariant                                                 *)
(*                                                                         *)
(* No property of the owners is inductive alone.  A handler moves rows on  *)
(* the word of an event, so the invariant says what an event in the log    *)
(* still means however late it is read; and a request stores a row on      *)
(* behalf of a user it read before, so it says what is known of that row.  *)
(***************************************************************************)

(* A row that a request is about to store has no author yet, and no other  *)
(* request stores it.                                                      *)
NewRows ==
    /\ \A q \in Requests : request[q] # None =>
          /\ author[request[q].row] = None
          /\ \A p \in Requests : request[p] # None /\ request[p].row = request[q].row => p = q
    /\ \A r \in Rows : author[r] = None => owner[r] = None

ErasedIsOwnerless == \A r \in erased : author[r] # None /\ owner[r] = None

(* What a merge said when it was emitted, it says for ever: whoever was    *)
(* folded into the one account was folded into the other.                  *)
MergesAreInherited ==
    /\ \A u \in Users : u \in heirs[u]
    /\ \A i \in DOMAIN log : log[i].type = "merged" =>
          /\ log[i].into \in Users
          /\ \A u \in Users : log[i].from \in heirs[u] => log[i].into \in heirs[u]

(* An account ends once, and only an active one is merged into: its own    *)
(* end comes later in the log.                                             *)
EndsAreLogged ==
    \A i \in DOMAIN log :
       /\ account[log[i].from] # "active"
       /\ log[i].type = "merged" /\ account[log[i].into] # "active" =>
             \E j \in DOMAIN log : j > i /\ log[j].from = log[i].into

(* While events arrive in order, whoever owns an answer and has ended is   *)
(* the subject of an event that is still to be handled.                    *)
StrandedIsDue ==
    orderly =>
       /\ \A q \in Requests : request[q] # None => account[request[q].user] = "active"
       /\ \A r \in Responses : Stranded(r) =>
             \E j \in DOMAIN log : j \notin done /\ log[j].from = owner[r]

AInv ==
    /\ AccountsTypeOK
    /\ NewRows
    /\ ErasedIsOwnerless
    /\ MergesAreInherited
    /\ EndsAreLogged
    /\ OwnedByAnHeir
    /\ StrandedIsDue
-----------------------------------------------------------------------------
(***************************************************************************)
(* The log                                                                 *)
(***************************************************************************)

(* An event is put behind those that are there, which stay as they were.   *)
LEMMA Logged ==
    ASSUME log \in Seq(Event), NEW e \in Event, log' = Append(log, e)
    PROVE  /\ log' \in Seq(Event)
           /\ DOMAIN log' = DOMAIN log \cup {Len(log) + 1}
           /\ log'[Len(log) + 1] = e
           /\ \A i \in DOMAIN log : log'[i] = log[i] /\ i < Len(log) + 1
OBVIOUS

LEMMA EventType ==
    ASSUME AccountsTypeOK, NEW i \in DOMAIN log
    PROVE  log[i] \in Event /\ log[i].from \in Users /\ i \in Nat
<1>1. log \in Seq(Event)
  BY DEF AccountsTypeOK
<1>2. log[i] \in Event /\ i \in Nat
  BY <1>1
<1> QED BY <1>2 DEF Event

(* A step that emits no event and lets nobody's rows change hands.         *)
LEMMA Unlogged ==
    ASSUME AInv, UNCHANGED <<account, log, heirs>>
    PROVE  MergesAreInherited' /\ EndsAreLogged'
BY DEF AInv, MergesAreInherited, EndsAreLogged
-----------------------------------------------------------------------------
(***************************************************************************)
(* The requests                                                            *)
(***************************************************************************)
LEMMA BeginStep ==
    ASSUME AInv, NEW q \in Requests, NEW u \in Users, NEW r \in Rows, Begin(q, u, r)
    PROVE  AInv'
<1> DEFINE p == [user |-> u, row |-> r]
<1>1. \A o \in Requests : request'[o] = IF o = q THEN p ELSE request[o]
  BY DEF Begin, AInv, AccountsTypeOK
<1>2. p \in [user : Users, row : Rows] /\ p.user = u /\ p.row = r
  OBVIOUS
<1>3. AccountsTypeOK'
  BY <1>2 DEF Begin, AInv, AccountsTypeOK
<1> HIDE DEF p
<1>4. NewRows'
  BY <1>1, <1>2 DEF Begin, AInv, NewRows
<1>5. MergesAreInherited' /\ EndsAreLogged'
  BY Unlogged DEF Begin
<1>6. OwnedByAnHeir' /\ ErasedIsOwnerless'
  BY DEF Begin, AInv, OwnedByAnHeir, ErasedIsOwnerless
<1>7. StrandedIsDue'
  BY <1>1, <1>2 DEF Begin, AInv, StrandedIsDue, Stranded
<1> QED BY <1>3, <1>4, <1>5, <1>6, <1>7 DEF AInv

(* The row is new, so nobody's attribution is overwritten, and its author  *)
(* is the first of the author's heirs.                                     *)
LEMMA StoreRowStep ==
    ASSUME AInv, NEW q \in Requests, StoreRow(q)
    PROVE  AInv'
<1> DEFINE p == request[q]
<1>1. p # None /\ p.user \in Users /\ p.row \in Rows /\ author[p.row] = None
  BY DEF StoreRow, AInv, AccountsTypeOK, NewRows
<1>2. \A o \in Requests : request'[o] = IF o = q THEN None ELSE request[o]
  BY DEF StoreRow, AInv, AccountsTypeOK
<1>3. \A r \in Rows : /\ author'[r] = IF r = p.row THEN p.user ELSE author[r]
                      /\ owner'[r] = IF r = p.row THEN p.user ELSE owner[r]
  BY <1>1 DEF StoreRow, AInv, AccountsTypeOK
<1>4. p.user # None
  BY <1>1, AccountsAssumption
<1>5. AccountsTypeOK'
  BY <1>1 DEF StoreRow, AInv, AccountsTypeOK
<1>6. NewRows'
  <2>1. \A o \in Requests : request[o] # None => request[o].row \in Rows
    BY DEF AInv, AccountsTypeOK
  <2> QED BY <1>1, <1>2, <1>3, <1>4, <2>1 DEF AInv, NewRows
<1>7. ErasedIsOwnerless'
  <2>1. erased' = erased /\ erased \subseteq Rows /\ p.row \notin erased
    BY <1>1 DEF StoreRow, AInv, AccountsTypeOK, ErasedIsOwnerless, Rows
  <2> QED BY <1>3, <2>1 DEF AInv, ErasedIsOwnerless
<1>8. MergesAreInherited' /\ EndsAreLogged'
  BY Unlogged DEF StoreRow
<1>9. OwnedByAnHeir'
  BY <1>1, <1>3 DEF StoreRow, AInv, OwnedByAnHeir, MergesAreInherited
<1>10. StrandedIsDue'
  <2>1. orderly => account[p.user] = "active"
    BY <1>1 DEF AInv, StrandedIsDue
  <2>2. \A r \in Responses : r \in Rows
    BY DEF Rows
  <2> QED BY <1>2, <1>3, <2>1, <2>2 DEF StoreRow, AInv, StrandedIsDue, Stranded
<1> QED BY <1>5, <1>6, <1>7, <1>8, <1>9, <1>10 DEF AInv

LEMMA AbandonStep ==
    ASSUME AInv, NEW q \in Requests, Abandon(q)
    PROVE  AInv'
<1>1. \A o \in Requests : request'[o] = IF o = q THEN None ELSE request[o]
  BY DEF Abandon, AInv, AccountsTypeOK
<1>2. AccountsTypeOK'
  BY DEF Abandon, AInv, AccountsTypeOK
<1>3. NewRows'
  BY <1>1 DEF Abandon, AInv, NewRows
<1>4. MergesAreInherited' /\ EndsAreLogged'
  BY Unlogged DEF Abandon
<1>5. OwnedByAnHeir' /\ ErasedIsOwnerless'
  BY DEF Abandon, AInv, OwnedByAnHeir, ErasedIsOwnerless
<1>6. StrandedIsDue'
  BY <1>1 DEF Abandon, AInv, StrandedIsDue, Stranded
<1> QED BY <1>2, <1>3, <1>4, <1>5, <1>6 DEF AInv
-----------------------------------------------------------------------------
(***************************************************************************)
(* The accounts service                                                    *)
(***************************************************************************)
LEMMA ProjectStep ==
    ASSUME AInv, NEW u \in Users, Project(u)
    PROVE  AInv'
<1>1. AccountsTypeOK' /\ NewRows' /\ OwnedByAnHeir' /\ ErasedIsOwnerless'
  BY DEF Project, AInv, AccountsTypeOK, NewRows, OwnedByAnHeir, ErasedIsOwnerless
<1>2. MergesAreInherited' /\ EndsAreLogged'
  BY Unlogged DEF Project
<1>3. StrandedIsDue'
  BY DEF Project, AInv, StrandedIsDue, Stranded
<1> QED BY <1>1, <1>2, <1>3 DEF AInv

(* Only forms and versions lose their author with the user row.            *)
LEMMA ForgetStep ==
    ASSUME AInv, NEW u \in Users, Forget(u)
    PROVE  AInv'
<1>1. /\ \A r \in Rows : owner'[r] = owner[r] \/ owner'[r] = None
      /\ \A r \in Responses : owner'[r] = owner[r]
  BY AccountsAssumption DEF Forget, Rows
<1>2. AccountsTypeOK'
  <2>1. owner' \in [Rows -> Users \cup {None}]
    BY DEF Forget, AInv, AccountsTypeOK
  <2> QED BY <2>1 DEF Forget, AInv, AccountsTypeOK
<1>3. NewRows' /\ OwnedByAnHeir'
  BY <1>1 DEF Forget, AInv, NewRows, OwnedByAnHeir
<1>4. ErasedIsOwnerless'
  BY <1>1 DEF Forget, AInv, ErasedIsOwnerless, AccountsTypeOK
<1>5. MergesAreInherited' /\ EndsAreLogged'
  BY Unlogged DEF Forget
<1>6. StrandedIsDue'
  BY <1>1 DEF Forget, AInv, StrandedIsDue, Stranded
<1> QED BY <1>2, <1>3, <1>4, <1>5, <1>6 DEF AInv

(* The end of an account makes the rows of that account, and of no other,  *)
(* wait for the event that is emitted with it.                             *)
LEMMA EndIsDue ==
    ASSUME AInv, NEW u \in Users, Ends(u), NEW e \in Event, e.from = u,
           log' = Append(log, e), \A w \in Users \ {u} : account'[w] = account[w],
           UNCHANGED <<orderly, done, request, author, owner>>
    PROVE  StrandedIsDue'
<1> SUFFICES ASSUME orderly
             PROVE  /\ \A q \in Requests : request'[q] # None => account'[request'[q].user] = "active"
                    /\ \A r \in Responses : Stranded(r)' =>
                          \E j \in DOMAIN log' : j \notin done' /\ log'[j].from = owner'[r]
  BY DEF StrandedIsDue
<1>1. log \in Seq(Event) /\ done \subseteq DOMAIN log
  BY DEF AInv, AccountsTypeOK
<1>2. \A q \in Requests : request[q] # None =>
         request[q].user \in Users \ {u} /\ account[request[q].user] = "active"
  BY DEF Ends, AInv, AccountsTypeOK, StrandedIsDue
<1>3. ASSUME NEW r \in Responses, Stranded(r)'
      PROVE  \E j \in DOMAIN log' : j \notin done' /\ log'[j].from = owner'[r]
  <2>1. owner[r] \in Users /\ owner[r] # None /\ account'[owner[r]] # "active"
    BY <1>3 DEF Stranded, Rows, AInv, AccountsTypeOK
  <2>2. CASE owner[r] = u
    BY <1>1, <2>2, Logged
  <2>3. CASE owner[r] # u
    <3>1. PICK j \in DOMAIN log : j \notin done /\ log[j].from = owner[r]
      BY <2>1, <2>3 DEF AInv, StrandedIsDue, Stranded
    <3> QED BY <1>1, <3>1, Logged
  <2> QED BY <2>2, <2>3
<1> QED BY <1>2, <1>3

LEMMA CloseStep ==
    ASSUME AInv, NEW u \in Users, CloseAccount(u)
    PROVE  AInv'
<1> DEFINE e == [type |-> "deleted", from |-> u, into |-> None]
<1>1. e \in Event /\ e.from = u /\ e.type = "deleted"
  BY DEF Event
<1>2. log \in Seq(Event) /\ log' = Append(log, e) /\ done \subseteq DOMAIN log
  BY DEF CloseAccount, AInv, AccountsTypeOK
<1> HIDE DEF e
<1>3. /\ log' \in Seq(Event)
      /\ DOMAIN log' = DOMAIN log \cup {Len(log) + 1}
      /\ log'[Len(log) + 1] = e
      /\ \A i \in DOMAIN log : log'[i] = log[i] /\ i < Len(log) + 1
  BY <1>1, <1>2, Logged
<1>4. \A w \in Users : account'[w] = IF w = u THEN "deleted" ELSE account[w]
  BY DEF CloseAccount, AInv, AccountsTypeOK
<1>5. AccountsTypeOK'
  BY <1>2, <1>3 DEF CloseAccount, AInv, AccountsTypeOK
<1>6. NewRows' /\ ErasedIsOwnerless' /\ OwnedByAnHeir'
  BY DEF CloseAccount, AInv, NewRows, ErasedIsOwnerless, OwnedByAnHeir
<1>7. MergesAreInherited'
  BY <1>1, <1>3 DEF CloseAccount, AInv, MergesAreInherited
<1>8. EndsAreLogged'
  <2> SUFFICES ASSUME NEW i \in DOMAIN log'
               PROVE  /\ account'[log'[i].from] # "active"
                      /\ log'[i].type = "merged" /\ account'[log'[i].into] # "active" =>
                            \E j \in DOMAIN log' : j > i /\ log'[j].from = log'[i].into
    BY DEF EndsAreLogged
  <2>1. CASE i = Len(log) + 1
    BY <1>1, <1>3, <1>4, <2>1
  <2>2. CASE i \in DOMAIN log
    <3>1. log'[i] = log[i] /\ log[i].from \in Users /\ i < Len(log) + 1 /\ i \in Nat
      BY <1>3, <2>2, EventType DEF AInv
    <3>2. log[i].type = "merged" => log[i].into \in Users
      BY <2>2 DEF AInv, MergesAreInherited
    <3>3. account[log[i].from] # "active"
      BY <2>2 DEF AInv, EndsAreLogged
    <3>4. CASE log[i].type = "merged" /\ log[i].into = u
      <4>1. Len(log) + 1 > i
        BY <1>2, <3>1
      <4> QED BY <1>1, <1>3, <1>4, <3>1, <3>3, <3>4, <4>1
    <3>5. CASE log[i].type = "merged" /\ log[i].into # u /\ account'[log[i].into] # "active"
      <4>1. PICK j \in DOMAIN log : j > i /\ log[j].from = log[i].into
        BY <1>4, <2>2, <3>2, <3>5 DEF AInv, EndsAreLogged
      <4> QED BY <1>3, <1>4, <3>1, <3>3, <4>1
    <3>6. CASE log[i].type # "merged" \/ account'[log[i].into] = "active"
      BY <1>4, <3>1, <3>3, <3>6
    <3> QED BY <3>4, <3>5, <3>6
  <2> QED BY <1>3, <2>1, <2>2
<1>9. StrandedIsDue'
  BY <1>1, <1>2, <1>4, EndIsDue DEF CloseAccount
<1> QED BY <1>5, <1>6, <1>7, <1>8, <1>9 DEF AInv

(* The survivor of a merge is active, so whoever had been folded into the  *)
(* other account had not been cut off from it by an earlier end.           *)
LEMMA MergeStep ==
    ASSUME AInv, NEW u \in Users, NEW v \in Users, MergeAccounts(u, v)
    PROVE  AInv'
<1> DEFINE e == [type |-> "merged", from |-> u, into |-> v]
<1>1. e \in Event /\ e.from = u /\ e.into = v
  BY DEF Event
<1>2. log \in Seq(Event) /\ log' = Append(log, e) /\ done \subseteq DOMAIN log
  BY DEF MergeAccounts, AInv, AccountsTypeOK
<1> HIDE DEF e
<1>3. /\ log' \in Seq(Event)
      /\ DOMAIN log' = DOMAIN log \cup {Len(log) + 1}
      /\ log'[Len(log) + 1] = e
      /\ \A i \in DOMAIN log : log'[i] = log[i] /\ i < Len(log) + 1
  BY <1>1, <1>2, Logged
<1>4. /\ \A w \in Users : account'[w] = IF w = u THEN "merged" ELSE account[w]
      /\ account[v] = "active" /\ account[u] = "active" /\ u # v
  BY DEF MergeAccounts, Ends, AInv, AccountsTypeOK
<1>5. \A w \in Users : heirs'[w] = IF u \in heirs[w] THEN heirs[w] \cup {v} ELSE heirs[w]
  BY DEF MergeAccounts
<1>6. AccountsTypeOK'
  <2>1. heirs' \in [Users -> SUBSET Users]
    BY DEF MergeAccounts, AInv, AccountsTypeOK
  <2> QED BY <1>2, <1>3, <2>1 DEF MergeAccounts, AInv, AccountsTypeOK
<1>7. NewRows' /\ ErasedIsOwnerless'
  BY DEF MergeAccounts, AInv, NewRows, ErasedIsOwnerless
<1>8. OwnedByAnHeir'
  <2>1. \A r \in Rows : owner[r] # None => author[r] \in Users
    BY DEF AInv, NewRows, AccountsTypeOK
  <2> QED BY <1>5, <2>1 DEF MergeAccounts, AInv, OwnedByAnHeir
<1>9. MergesAreInherited'
  <2>1. \A w \in Users : w \in heirs'[w]
    BY <1>5 DEF AInv, MergesAreInherited
  <2>2. ASSUME NEW i \in DOMAIN log', log'[i].type = "merged"
        PROVE  /\ log'[i].into \in Users
               /\ \A w \in Users : log'[i].from \in heirs'[w] => log'[i].into \in heirs'[w]
    <3>1. CASE i = Len(log) + 1
      BY <1>1, <1>3, <1>4, <1>5, <3>1
    <3>2. CASE i \in DOMAIN log
      <4>1. log'[i] = log[i] /\ account[log[i].from] # "active"
        BY <1>3, <3>2 DEF AInv, EndsAreLogged
      <4>2. log[i].from # v
        BY <1>4, <4>1
      <4> QED BY <1>5, <2>2, <3>2, <4>1, <4>2 DEF AInv, MergesAreInherited
    <3> QED BY <1>3, <3>1, <3>2
  <2> QED BY <2>1, <2>2 DEF MergesAreInherited
<1>10. EndsAreLogged'
  <2> SUFFICES ASSUME NEW i \in DOMAIN log'
               PROVE  /\ account'[log'[i].from] # "active"
                      /\ log'[i].type = "merged" /\ account'[log'[i].into] # "active" =>
                            \E j \in DOMAIN log' : j > i /\ log'[j].from = log'[i].into
    BY DEF EndsAreLogged
  <2>1. CASE i = Len(log) + 1
    BY <1>1, <1>3, <1>4, <2>1
  <2>2. CASE i \in DOMAIN log
    <3>1. log'[i] = log[i] /\ log[i].from \in Users /\ i < Len(log) + 1 /\ i \in Nat
      BY <1>3, <2>2, EventType DEF AInv
    <3>2. log[i].type = "merged" => log[i].into \in Users
      BY <2>2 DEF AInv, MergesAreInherited
    <3>3. account[log[i].from] # "active"
      BY <2>2 DEF AInv, EndsAreLogged
    <3>4. CASE log[i].type = "merged" /\ log[i].into = u
      <4>1. Len(log) + 1 > i
        BY <1>2, <3>1
      <4> QED BY <1>1, <1>3, <1>4, <3>1, <3>3, <3>4, <4>1
    <3>5. CASE log[i].type = "merged" /\ log[i].into # u /\ account'[log[i].into] # "active"
      <4>1. PICK j \in DOMAIN log : j > i /\ log[j].from = log[i].into
        BY <1>4, <2>2, <3>2, <3>5 DEF AInv, EndsAreLogged
      <4> QED BY <1>3, <1>4, <3>1, <3>3, <4>1
    <3>6. CASE log[i].type # "merged" \/ account'[log[i].into] = "active"
      BY <1>4, <3>1, <3>3, <3>6
    <3> QED BY <3>4, <3>5, <3>6
  <2> QED BY <1>3, <2>1, <2>2
<1>11. StrandedIsDue'
  BY <1>1, <1>2, <1>4, EndIsDue DEF MergeAccounts
<1> QED BY <1>6, <1>7, <1>8, <1>9, <1>10, <1>11 DEF AInv
-----------------------------------------------------------------------------
(***************************************************************************)
(* The handlers                                                            *)
(***************************************************************************)

(* What a step of a handler leaves alone, and what it may add to `done'.   *)
LEMMA HandlerLeaves ==
    ASSUME AInv, NEW i \in DOMAIN log, HandleDeleted(i) \/ HandleMerged(i)
    PROVE  /\ UNCHANGED <<orderly, account, projected, log, heirs, request, author>>
           /\ done' \subseteq done \cup {i} /\ done' \subseteq DOMAIN log
BY DEF HandleDeleted, HandleMerged, Acknowledge, AInv, AccountsTypeOK

(* The rows whose event is still to come keep waiting for it.              *)
LEMMA StillDue ==
    ASSUME AInv, orderly, NEW i \in DOMAIN log, done' \subseteq done \cup {i},
           NEW r \in Responses, Stranded(r), owner[r] # log[i].from
    PROVE  \E j \in DOMAIN log : j \notin done' /\ log[j].from = owner[r]
BY DEF AInv, StrandedIsDue

LEMMA DeletedStep ==
    ASSUME AInv, NEW i \in DOMAIN log, HandleDeleted(i)
    PROVE  AInv'
<1> DEFINE gone == {r \in Responses : owner[r] = log[i].from}
<1>1. /\ UNCHANGED <<orderly, account, projected, log, heirs, request, author>>
      /\ done' \subseteq done \cup {i} /\ done' \subseteq DOMAIN log
  BY HandlerLeaves
<1>2. log[i].from \in Users /\ log[i].from # None
  BY EventType, AccountsAssumption DEF AInv
<1>3. /\ \A r \in Rows : owner'[r] = IF r \in gone THEN None ELSE owner[r]
      /\ erased' = erased \cup gone
  BY DEF HandleDeleted
<1>4. AccountsTypeOK'
  <2>1. owner' \in [Rows -> Users \cup {None}]
    BY DEF HandleDeleted, AInv, AccountsTypeOK
  <2> QED BY <1>1, <1>3, <2>1 DEF AInv, AccountsTypeOK
<1>5. NewRows'
  BY <1>1, <1>3 DEF AInv, NewRows
<1>6. ErasedIsOwnerless'
  <2>1. erased' \subseteq Rows
    BY <1>3 DEF AInv, AccountsTypeOK, Rows
  <2> QED BY <1>1, <1>2, <1>3, <2>1 DEF AInv, ErasedIsOwnerless, NewRows
<1>7. MergesAreInherited' /\ EndsAreLogged'
  BY <1>1, Unlogged
<1>8. OwnedByAnHeir'
  BY <1>1, <1>3 DEF AInv, OwnedByAnHeir
<1>9. StrandedIsDue'
  <2> SUFFICES ASSUME orderly, NEW r \in Responses, Stranded(r)'
               PROVE  \E j \in DOMAIN log : j \notin done' /\ log[j].from = owner'[r]
    BY <1>1 DEF AInv, StrandedIsDue
  <2>1. owner'[r] = owner[r] /\ r \notin gone
    BY <1>3 DEF Stranded, Rows
  <2>2. Stranded(r) /\ owner[r] # log[i].from
    BY <1>1, <2>1 DEF Stranded
  <2> QED BY <1>1, <2>1, <2>2, StillDue
<1> QED BY <1>4, <1>5, <1>6, <1>7, <1>8, <1>9 DEF AInv

(* The survivor may have ended since: its own event is later in the log,   *)
(* so in an orderly delivery it has not been handled before this one, and  *)
(* takes along the rows that come to it now.                               *)
LEMMA MergedStep ==
    ASSUME AInv, NEW i \in DOMAIN log, HandleMerged(i)
    PROVE  AInv'
<1> DEFINE from == log[i].from
           into == log[i].into
<1>1. /\ UNCHANGED <<orderly, account, projected, log, heirs, request, author, erased>>
      /\ done' \subseteq done \cup {i} /\ done' \subseteq DOMAIN log
  BY HandlerLeaves DEF HandleMerged
<1>2. from \in Users /\ from # None /\ into \in Users /\ into # None
  BY EventType, AccountsAssumption DEF AInv, HandleMerged, MergesAreInherited
<1>3. \A r \in Rows : owner'[r] = IF owner[r] = from THEN into ELSE owner[r]
  BY DEF HandleMerged
<1>4. AccountsTypeOK'
  <2>1. owner' \in [Rows -> Users \cup {None}]
    BY <1>2 DEF HandleMerged, AInv, AccountsTypeOK
  <2> QED BY <1>1, <2>1 DEF AInv, AccountsTypeOK
<1>5. NewRows'
  BY <1>1, <1>2, <1>3 DEF AInv, NewRows
<1>6. ErasedIsOwnerless'
  <2>1. erased \subseteq Rows
    BY DEF AInv, AccountsTypeOK, Rows
  <2> QED BY <1>1, <1>2, <1>3, <2>1 DEF AInv, ErasedIsOwnerless
<1>7. MergesAreInherited' /\ EndsAreLogged'
  BY <1>1, Unlogged
<1>8. OwnedByAnHeir'
  <2> SUFFICES ASSUME NEW r \in Rows, owner'[r] # None
               PROVE  owner'[r] \in heirs[author[r]]
    BY <1>1 DEF OwnedByAnHeir
  <2>1. owner[r] # None
    BY <1>2, <1>3
  <2>2. owner[r] \in heirs[author[r]] /\ author[r] \in Users
    BY <2>1 DEF AInv, OwnedByAnHeir, NewRows, AccountsTypeOK
  <2>3. from \in heirs[author[r]] => into \in heirs[author[r]]
    BY <2>2 DEF AInv, MergesAreInherited, HandleMerged
  <2> QED BY <1>3, <2>2, <2>3
<1>9. StrandedIsDue'
  <2> SUFFICES ASSUME orderly, NEW r \in Responses, Stranded(r)'
               PROVE  \E j \in DOMAIN log : j \notin done' /\ log[j].from = owner'[r]
    BY <1>1 DEF AInv, StrandedIsDue
  <2>1. r \in Rows
    BY DEF Rows
  <2>2. CASE owner[r] # from
    <3>1. owner'[r] = owner[r] /\ Stranded(r)
      BY <1>1, <1>3, <2>1, <2>2 DEF Stranded
    <3> QED BY <1>1, <2>2, <3>1, StillDue
  <2>3. CASE owner[r] = from
    <3>1. owner'[r] = into /\ account[into] # "active"
      BY <1>1, <1>3, <2>1, <2>3 DEF Stranded
    <3>2. PICK j \in DOMAIN log : j > i /\ log[j].from = into
      BY <3>1 DEF AInv, EndsAreLogged, HandleMerged
    <3>3. \A k \in done : k <= i
      BY DEF HandleMerged, Deliverable
    <3>4. i \in Nat /\ j \in Nat
      BY EventType DEF AInv
    <3>5. j \notin done /\ j # i
      BY <3>2, <3>3, <3>4
    <3> QED BY <1>1, <3>1, <3>2, <3>5
  <2> QED BY <2>2, <2>3
<1> QED BY <1>4, <1>5, <1>6, <1>7, <1>8, <1>9 DEF AInv
-----------------------------------------------------------------------------
(***************************************************************************)
(* The theorems                                                            *)
(***************************************************************************)
LEMMA AInvInit == Init => AInv
<1> SUFFICES ASSUME Init PROVE AInv
  OBVIOUS
<1>1. log \in Seq(Event) /\ DOMAIN log = {}
  BY DEF Init
<1>2. AccountsTypeOK
  BY <1>1 DEF Init, AccountsTypeOK
<1>3. NewRows /\ ErasedIsOwnerless /\ OwnedByAnHeir
  BY DEF Init, NewRows, ErasedIsOwnerless, OwnedByAnHeir
<1>4. MergesAreInherited /\ EndsAreLogged
  BY <1>1 DEF Init, MergesAreInherited, EndsAreLogged
<1>5. StrandedIsDue
  BY DEF Init, StrandedIsDue, Stranded, Rows
<1> QED BY <1>2, <1>3, <1>4, <1>5 DEF AInv

LEMMA AInvNext == AInv /\ [Next]_vars => AInv'
<1> SUFFICES ASSUME AInv, [Next]_vars PROVE AInv'
  OBVIOUS
<1>1. CASE UNCHANGED vars
  BY <1>1 DEF vars, AInv, AccountsTypeOK, NewRows, ErasedIsOwnerless, MergesAreInherited,
              EndsAreLogged, OwnedByAnHeir, StrandedIsDue, Stranded
<1>2. ASSUME NEW q \in Requests, NEW u \in Users, NEW r \in Rows, Begin(q, u, r) PROVE AInv'
  BY <1>2, BeginStep
<1>3. ASSUME NEW q \in Requests, StoreRow(q) \/ Abandon(q) PROVE AInv'
  BY <1>3, StoreRowStep, AbandonStep
<1>4. ASSUME NEW u \in Users, CloseAccount(u) \/ Project(u) \/ Forget(u) PROVE AInv'
  BY <1>4, CloseStep, ProjectStep, ForgetStep
<1>5. ASSUME NEW u \in Users, NEW v \in Users, MergeAccounts(u, v) PROVE AInv'
  BY <1>5, MergeStep
<1>6. ASSUME NEW i \in 1..MaxEvents, Handle(i) PROVE AInv'
  BY <1>6, DeletedStep, MergedStep DEF Handle
<1> QED BY <1>1, <1>2, <1>3, <1>4, <1>5, <1>6 DEF Next

LEMMA AInvInvariant == Spec => []AInv
BY AInvInit, AInvNext, PTL DEF Spec

THEOREM AccountsTypeCorrect == Spec => []AccountsTypeOK
<1>1. AInv => AccountsTypeOK
  BY DEF AInv
<1> QED BY <1>1, AInvInvariant, PTL

(* Whatever is delivered twice, late or ahead of its turn, no row is ever  *)
(* given to anybody but its author and the accounts the author became.     *)
THEOREM RowsStayInTheFamily == Spec => []OwnedByAnHeir
<1>1. AInv => OwnedByAnHeir
  BY DEF AInv
<1> QED BY <1>1, AInvInvariant, PTL

(* Orderly delivery leaves no answer behind with an account that ended:    *)
(* the event such an answer waits for would still be unhandled.            *)
THEOREM OrderlyDeliveryStrandsNothing == Spec => []OrderlyStrandsNothing
<1>1. AInv => OrderlyStrandsNothing
  BY DEF AInv, StrandedIsDue, OrderlyStrandsNothing, Settled
<1> QED BY <1>1, AInvInvariant, PTL

(* No event that comes later gives an erased answer an owner again.        *)
THEOREM NoResurrection == Spec => ErasedForGood
<1>1. AInv /\ AInv' /\ [Next]_vars
         => [\A r \in erased : r \in erased' /\ owner'[r] = None]_vars
  <2> SUFFICES ASSUME AInv, AInv', Next, NEW r \in erased
               PROVE  r \in erased'
    BY DEF AInv, ErasedIsOwnerless
  <2> QED BY DEF Next, Begin, StoreRow, Abandon, CloseAccount, Project, Forget, MergeAccounts,
                 Handle, HandleDeleted, HandleMerged
<1> QED BY <1>1, AInvInvariant, PTL DEF Spec, ErasedForGood
=============================================================================
