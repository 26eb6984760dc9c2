------------------------------- MODULE Accounts -------------------------------
(***************************************************************************)
(* The account life cycle as stapel-forms follows it: who owns the rows    *)
(* that name a user while actions.handle_user_deleted and actions.handle_  *)
(* user_merged answer the events of the accounts service.                  *)
(*                                                                         *)
(* The accounts service, the table of users it projects into this          *)
(* database, and the bus are not under src/: they are modelled from what   *)
(* the handlers read of them.  Delivery is at least once: an event may be  *)
(* delivered again, and late, and (unless `orderly') before an earlier one.*)
(***************************************************************************)
EXTENDS Naturals, Sequences, FiniteSets

CONSTANTS
    Users,
    Authored,     \* rows of Form and FormVersion, keyed by created_by
    Responses,    \* rows of Submission, keyed by submitted_by
    Requests,     \* requests of signed-in users in progress at the same time
    Regimes,      \* the values `orderly' may have
    None,         \* SQL NULL
    MaxEvents     \* bound: accounts that are deleted or merged away

Rows == Authored \cup Responses

ASSUME AccountsAssumption ==
    /\ Authored \cap Responses = {} /\ None \notin Users
    /\ Regimes \subseteq BOOLEAN /\ MaxEvents \in Nat

VARIABLES
    orderly,    \* events arrive in order, none of them while its user is writing
    account,    \* accounts service: what became of each account
    projected,  \* users with a row in this database
    log,        \* the events the accounts service emitted, in order
    heirs,      \* u, and the accounts it was folded into, one after another (history)
    done,       \* the events acknowledged, by position in the log
    request,    \* what each request is about to store
    author,     \* who made each row (history)
    owner,      \* created_by or submitted_by of each row
    erased      \* the responses with erased_at set

vars == <<orderly, account, projected, log, heirs, done, request, author, owner, erased>>

Event == [type : {"deleted", "merged"}, from : Users, into : Users \cup {None}]

AccountsTypeOK ==
    /\ orderly \in Regimes
    /\ account \in [Users -> {"active", "deleted", "merged"}]
    /\ projected \subseteq Users
    /\ log \in Seq(Event)
    /\ heirs \in [Users -> SUBSET Users]
    /\ done \subseteq DOMAIN log
    /\ request \in [Requests -> [user : Users, row : Rows] \cup {None}]
    /\ author \in [Rows -> Users \cup {None}]
    /\ owner \in [Rows -> Users \cup {None}]
    /\ erased \subseteq Responses

Init ==
    /\ orderly \in Regimes
    /\ account = [u \in Users |-> "active"]
    /\ projected \in SUBSET Users
    /\ log = << >>
    /\ heirs = [u \in Users |-> {u}]
    /\ done = {}
    /\ request = [q \in Requests |-> None]
    /\ author = [r \in Rows |-> None]
    /\ owner = [r \in Rows |-> None]
    /\ erased = {}
-----------------------------------------------------------------------------
(* A signed-in user answers a form, or makes one: the view takes the user  *)
(* from the request, and the service stores the row later.                 *)
Begin(q, u, r) ==
    /\ request[q] = None /\ account[u] = "active"
    /\ author[r] = None /\ \A p \in Requests : request[p] # None => request[p].row # r
    /\ request' = [request EXCEPT ![q] = [user |-> u, row |-> r]]
    /\ UNCHANGED <<orderly, account, projected, log, heirs, done, author, owner, erased>>

(* created_by is a foreign key: without a user row there is nothing to     *)
(* point at.  submitted_by is a bare UUID.                                 *)
StoreRow(q) ==
    LET p == request[q] IN
    /\ p # None
    /\ p.row \in Authored => p.user \in projected
    /\ author' = [author EXCEPT ![p.row] = p.user]
    /\ owner' = [owner EXCEPT ![p.row] = p.user]
    /\ request' = [request EXCEPT ![q] = None]
    /\ UNCHANGED <<orderly, account, projected, log, heirs, done, erased>>

Abandon(q) ==
    /\ request[q] # None
    /\ request' = [request EXCEPT ![q] = None]
    /\ UNCHANGED <<orderly, account, projected, log, heirs, done, author, owner, erased>>
-----------------------------------------------------------------------------
(* The accounts service closes an account, or folds one into another.      *)
Ends(u) ==
    /\ account[u] = "active" /\ Len(log) < MaxEvents
    /\ orderly => \A q \in Requests : request[q] # None => request[q].user # u

CloseAccount(u) ==
    /\ Ends(u)
    /\ account' = [account EXCEPT ![u] = "deleted"]
    /\ log' = Append(log, [type |-> "deleted", from |-> u, into |-> None])
    /\ UNCHANGED <<orderly, projected, heirs, done, request, author, owner, erased>>

MergeAccounts(u, v) ==
    /\ Ends(u) /\ u # v /\ account[v] = "active"
    /\ account' = [account EXCEPT ![u] = "merged"]
    /\ log' = Append(log, [type |-> "merged", from |-> u, into |-> v])
    /\ heirs' = [w \in Users |-> IF u \in heirs[w] THEN heirs[w] \cup {v} ELSE heirs[w]]
    /\ UNCHANGED <<orderly, projected, done, request, author, owner, erased>>

(* The projection of a user lands, possibly long after the account exists. *)
Project(u) ==
    /\ u \notin projected
    /\ projected' = projected \cup {u}
    /\ UNCHANGED <<orderly, account, log, heirs, done, request, author, owner, erased>>

(* The host removes the user row of an account that has ended: created_by  *)
(* is SET_NULL, submitted_by is no foreign key and stays.                  *)
Forget(u) ==
    /\ u \in projected /\ account[u] # "active"
    /\ projected' = projected \ {u}
    /\ owner' = [r \in Rows |-> IF r \in Authored /\ owner[r] = u THEN None ELSE owner[r]]
    /\ UNCHANGED <<orderly, account, log, heirs, done, request, author, erased>>
-----------------------------------------------------------------------------
(* An event may be delivered when it is due, and again afterwards.         *)
Deliverable(i) ==
    orderly => (1..(i - 1) \subseteq done /\ \A j \in done : j <= i)

(* Either the acknowledgement arrives, or the event will come again.       *)
Acknowledge(i) == done' = done \cup {i} \/ done' = done

(* Mutant of HandleDeleted: the forms the user built are erased too.       *)
EraseEverything(i) ==
    LET gone == {r \in Rows : owner[r] = log[i].from} IN
    /\ log[i].type = "deleted" /\ Deliverable(i)
    /\ owner' = [r \in Rows |-> IF r \in gone THEN None ELSE owner[r]]
    /\ erased' = erased \cup gone
    /\ Acknowledge(i)
    /\ UNCHANGED <<orderly, account, projected, log, heirs, request, author>>

(* Mutant of HandleDeleted: the tombstone keeps submitted_by.              *)
EraseKeepingOwner(i) ==
    LET gone == {r \in Responses : owner[r] = log[i].from} IN
    /\ log[i].type = "deleted" /\ Deliverable(i)
    /\ erased' = erased \cup gone
    /\ Acknowledge(i)
    /\ UNCHANGED <<orderly, account, projected, log, heirs, request, author, owner>>

(* Mutant of HandleDeleted: a user with nothing to erase is an error.      *)
EraseOrRaise(i) ==
    LET gone == {r \in Responses : owner[r] = log[i].from} IN
    /\ log[i].type = "deleted" /\ Deliverable(i)
    /\ gone # {}
    /\ owner' = [r \in Rows |-> IF r \in gone THEN None ELSE owner[r]]
    /\ erased' = erased \cup gone
    /\ Acknowledge(i)
    /\ UNCHANGED <<orderly, account, projected, log, heirs, request, author>>

(* erase_user_submissions: one UPDATE of the rows the user owns now.       *)
HandleDeleted(i) ==
    LET gone == {r \in Responses : owner[r] = log[i].from} IN
    /\ log[i].type = "deleted" /\ Deliverable(i)
    /\ owner' = [r \in Rows |-> IF r \in gone THEN None ELSE owner[r]]
    /\ erased' = erased \cup gone
    /\ Acknowledge(i)
    /\ UNCHANGED <<orderly, account, projected, log, heirs, request, author>>

OwnsSomething(u) == \E r \in Rows : owner[r] = u

(* Mutant of HandleMerged: from and into swapped.                          *)
MergeBackwards(i) ==
    LET from == log[i].from
        into == log[i].into
    IN
    /\ log[i].type = "merged" /\ Deliverable(i)
    /\ OwnsSomething(into) => from \in projected
    /\ owner' = [r \in Rows |-> IF owner[r] = into THEN from ELSE owner[r]]
    /\ Acknowledge(i)
    /\ UNCHANGED <<orderly, account, projected, log, heirs, request, author, erased>>

(* Mutant of HandleMerged: a survivor unknown here is a quiet no-op.       *)
MergeOrReturn(i) ==
    LET from == log[i].from
        into == log[i].into
    IN
    /\ log[i].type = "merged" /\ Deliverable(i)
    /\ owner' = [r \in Rows |-> IF owner[r] = from /\ into \in projected THEN into ELSE owner[r]]
    /\ Acknowledge(i)
    /\ UNCHANGED <<orderly, account, projected, log, heirs, request, author, erased>>

(* handle_user_merged moves all three columns in one transaction.  While   *)
(* the survivor has no user row it raises MergeTargetNotReady, writes      *)
(* nothing and is delivered again.                                         *)
HandleMerged(i) ==
    LET from == log[i].from
        into == log[i].into
    IN
    /\ log[i].type = "merged" /\ Deliverable(i)
    /\ OwnsSomething(from) => into \in projected
    /\ owner' = [r \in Rows |-> IF owner[r] = from THEN into ELSE owner[r]]
    /\ Acknowledge(i)
    /\ UNCHANGED <<orderly, account, projected, log, heirs, request, author, erased>>

Handle(i) == i \in DOMAIN log /\ (HandleDeleted(i) \/ HandleMerged(i))

Next ==
    \/ \E q \in Requests, u \in Users, r \in Rows : Begin(q, u, r)
    \/ \E q \in Requests : StoreRow(q) \/ Abandon(q)
    \/ \E u \in Users : CloseAccount(u) \/ Project(u) \/ Forget(u)
    \/ \E u, v \in Users : MergeAccounts(u, v)
    \/ \E i \in 1..MaxEvents : Handle(i)

Spec == Init /\ [][Next]_vars

(* The bus keeps trying until a delivery is acknowledged; the projection   *)
(* of a user who can sign in lands some day.  Nobody has to project an     *)
(* account that has ended.                                                 *)
Fairness ==
    /\ \A i \in 1..MaxEvents : SF_vars(Handle(i) /\ i \notin done /\ i \in done')
    /\ \A u \in Users : WF_vars(account[u] = "active" /\ Project(u))

FairSpec == Spec /\ Fairness
-----------------------------------------------------------------------------
(***************************************************************************)
(* Properties                                                              *)
(***************************************************************************)

(* A row is never given to a stranger: it names its author or an account   *)
(* the author was merged into, whatever was delivered twice or early.      *)
OwnedByAnHeir == \A r \in Rows : owner[r] # None => owner[r] \in heirs[author[r]]

(* "a merge does not resurrect an attribution its owner asked to have      *)
(* removed": what is erased stays erased and ownerless.                    *)
ErasedForGood == [][\A r \in erased : r \in erased' /\ owner'[r] = None]_vars

(* Every event was handled and nobody who is gone is still writing.        *)
Settled ==
    /\ done = DOMAIN log
    /\ \A q \in Requests : request[q] # None => account[request[q].user] = "active"

Stranded(r) == owner[r] # None /\ account[owner[r]] # "active"

(* When events arrive in order and nobody writes into an account that      *)
(* ends, then no answer is left with an account that cannot sign in:       *)
(* erased with the account, or carried over to its survivor.               *)
OrderlyStrandsNothing ==
    orderly /\ Settled => \A r \in Responses : ~Stranded(r)

(* A merge that no delivery completes: there are rows to move, the         *)
(* survivor has no user row, and has ended, so that none need ever come.   *)
Hopeless(i) ==
    /\ log[i].type = "merged" /\ OwnsSomething(log[i].from)
    /\ log[i].into \notin projected /\ account[log[i].into] # "active"

(* Where the bus keeps the order an event waits for those before it.       *)
Blocked(i) ==
    \E j \in DOMAIN log \ done : Hopeless(j) /\ (j = i \/ (orderly /\ j < i))

(* "the transfer completes once the survivor's user projection lands":     *)
(* every event is handled in the end, whatever the order and however often *)
(* it is delivered before its time.  The one exception: a merge into an    *)
(* account that ended without a user row here, and what queues behind it.  *)
EventuallyHandled ==
    \A i \in 1..MaxEvents : []<>Blocked(i) \/ (i \in DOMAIN log ~> i \in done)
=============================================================================
