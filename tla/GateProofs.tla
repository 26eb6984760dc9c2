------------------------------ MODULE GateProofs ------------------------------
(***************************************************************************)
(* The answers of the gated API are true for any callers, workspaces,      *)
(* forms and numbers of requests in progress, and however often            *)
(* memberships and rows change.                                            *)
(***************************************************************************)
EXTENDS Gate, TLAPS

Requests ==
    [step : {"arrived", "allowed", "loaded", "answered"}, user : Users \cup {Anonymous},
     workspace : Workspaces, form : Forms, handler : Handlers,
     body : {"good", "unreadable", "refused", "malformed", "scoped"}, rows : SUBSET Forms,
     status : Nat]

(* A request that goes on, and one that is answered.                       *)
Advanced(r, s, n) == [r EXCEPT !.step = s, !.status = n]

Granted(r, moments) == \E m \in moments : m.up /\ Asked(r) \in m.grant

Present(r, moments) == \E m \in moments : Within(r, m)

Continues(q, r, s, n) ==
    /\ q \in Requests
    /\ q.step = s /\ q.status = n /\ q.body = r.body /\ q.user = r.user
    /\ q.form = r.form /\ q.workspace = r.workspace /\ q.handler = r.handler
    /\ Asked(q) = Asked(r)
    /\ \A m : Within(q, m) <=> Within(r, m)

(* What AnswersAreTrue says of one request.                                *)
Honest(r, moments) ==
    /\ r.user = Anonymous => r.status = 403
    /\ r.status \in {200, 500} \/ (r.status = 400 /\ r.body # "unreadable")
          => Granted(r, moments) /\ Present(r, moments)
    /\ r.status = 403 => r.user = Anonymous \/ \E m \in moments : m.up /\ Asked(r) \notin m.grant
    /\ r.status = 503 => \E m \in moments : ~m.up
    /\ r.status = 404 => Granted(r, moments) /\ \E m \in moments : ~Within(r, m)
    /\ (r.status = 500 /\ r.body = "good") \/ (r.status = 400 /\ r.body = "scoped")
          => Destroyed(r, moments)

(* A form of the workspace that was there at one of these moments.         *)
Seen(r, f, moments) ==
    HomeOf[f] = r.workspace /\ \E m \in moments : <<"form", f>> \in m.there

(* What is known of a request, step by step: of the rows that the handler  *)
(* goes on with, that they were seen, and of a search or a write, that its *)
(* form was.                                                               *)
Known(r, moments) ==
    /\ r.step \in {"allowed", "loaded"} =>
          r.user # Anonymous /\ Granted(r, moments) /\ r.body # "unreadable"
    /\ r.step = "loaded" => /\ Present(r, moments)
                            /\ \A f \in r.rows : f \in Forms /\ Seen(r, f, moments)
                            /\ r.handler \in OfForm => r.form \in r.rows
    /\ r.body = "scoped" => r.handler = "submissions"
    /\ r.step = "answered" => Honest(r, moments)

(* A request in progress has witnessed the present moment.                 *)
GateInv ==
    /\ request \in [Workers -> Requests \cup {Idle}]
    /\ \A w \in Workers : request[w] # Idle =>
          Moment \in during[w] /\ Known(request[w], during[w])
-----------------------------------------------------------------------------
(* What was true once was true once, however much happens later.           *)
LEMMA MoreMoments ==
    ASSUME NEW r, NEW moments, NEW later, moments \subseteq later, Known(r, moments)
    PROVE  Known(r, later)
<1>1. Granted(r, moments) => Granted(r, later)
  BY DEF Granted
<1>2. Present(r, moments) => Present(r, later)
  BY DEF Present
<1>3. Destroyed(r, moments) => Destroyed(r, later)
  BY DEF Destroyed
<1>4. \A f : Seen(r, f, moments) => Seen(r, f, later)
  BY DEF Seen
<1>5. Honest(r, moments) => Honest(r, later)
  BY <1>1, <1>2, <1>3 DEF Honest
<1> QED BY <1>1, <1>2, <1>4, <1>5 DEF Known

(* The steps of a request change nothing of what it asked for.             *)
LEMMA SameQuestion ==
    ASSUME NEW r \in Requests, NEW s \in {"arrived", "allowed", "loaded", "answered"},
           NEW n \in Nat
    PROVE  Continues(Advanced(r, s, n), r, s, n)
<1> DEFINE q == Advanced(r, s, n)
<1>1. /\ q \in Requests
      /\ q.step = s /\ q.status = n /\ q.body = r.body /\ q.user = r.user
      /\ q.workspace = r.workspace /\ q.form = r.form /\ q.handler = r.handler
  BY DEF Requests, Advanced
<1> HIDE DEF q
<1>2. Asked(q) = Asked(r)
  BY <1>1 DEF Asked
<1>3. \A m : Within(q, m) <=> Within(r, m)
  BY <1>1 DEF Within
<1>4. Continues(q, r, s, n)
  BY <1>1, <1>2, <1>3 DEF Continues
<1> QED BY <1>4 DEF q

LEMMA SameGround ==
    ASSUME NEW q, NEW r, NEW s, NEW n, Continues(q, r, s, n), NEW moments
    PROVE  /\ Granted(q, moments) <=> Granted(r, moments)
           /\ Present(q, moments) <=> Present(r, moments)
           /\ Destroyed(q, moments) <=> Destroyed(r, moments)
           /\ \A f : Seen(q, f, moments) <=> Seen(r, f, moments)
BY DEF Continues, Granted, Present, Destroyed, Seen

LEMMA NeverIdle == \A r \in Requests : r # Idle
BY DEF Requests, Idle

(* Whoever is in progress after a step has witnessed what is now true, and *)
(* has forgotten nothing.                                                  *)
LEMMA Remembers ==
    ASSUME Witnessed, NEW w \in Workers, request'[w] # Idle
    PROVE  /\ Moment' \in during'[w]
           /\ request[w] # Idle => during[w] \subseteq during'[w]
BY DEF Witnessed

(* A step preserves the invariant if it does so for the one request it     *)
(* takes further.                                                          *)
LEMMA OneRequest ==
    ASSUME GateInv, Witnessed, NEW w \in Workers, NEW q \in Requests,
           request' = [request EXCEPT ![w] = q], Known(q, during'[w])
    PROVE  GateInv'
<1>1. request' \in [Workers -> Requests \cup {Idle}]
  BY DEF GateInv
<1>2. ASSUME NEW v \in Workers, request'[v] # Idle
      PROVE  Moment' \in during'[v] /\ Known(request'[v], during'[v])
  <2>1. Moment' \in during'[v]
    BY <1>2, Remembers
  <2>2. CASE v = w
    BY <2>1, <2>2 DEF GateInv
  <2>3. CASE v # w
    <3>1. request'[v] = request[v] /\ request[v] # Idle
      BY <1>2, <2>3 DEF GateInv
    <3>2. Known(request[v], during[v]) /\ during[v] \subseteq during'[v]
      BY <1>2, <3>1, Remembers DEF GateInv
    <3> QED BY <2>1, <3>1, <3>2, MoreMoments
  <2> QED BY <2>2, <2>3
<1> QED BY <1>1, <1>2 DEF GateInv

(* What a request in progress knows before its step, it knows after it.    *)
LEMMA StillKnown ==
    ASSUME GateInv, Witnessed, NEW w \in Workers, request[w] # Idle, request'[w] # Idle
    PROVE  /\ request[w] \in Requests
           /\ Moment' \in during'[w]
           /\ Moment \in during'[w]
           /\ Known(request[w], during'[w])
<1>1. during[w] \subseteq during'[w] /\ Moment' \in during'[w]
  BY Remembers
<1>2. Moment \in during[w] /\ Known(request[w], during[w]) /\ request[w] \in Requests
  BY DEF GateInv
<1> QED BY <1>1, <1>2, MoreMoments
-----------------------------------------------------------------------------
LEMMA ArriveKeeps ==
    ASSUME GateInv, Witnessed, NEW w \in Workers, Arrive(w)
    PROVE  GateInv'
<1>1. PICK user \in Users \cup {Anonymous}, ws \in Workspaces, f \in Forms, handler \in Handlers :
         \E body \in Bodies(handler) :
            request' = [request EXCEPT ![w] =
               [step |-> "arrived", user |-> user, workspace |-> ws, form |-> f,
                handler |-> handler, body |-> body, rows |-> {}, status |-> 0]]
  BY DEF Arrive
<1>0. PICK body \in Bodies(handler) :
         request' = [request EXCEPT ![w] =
            [step |-> "arrived", user |-> user, workspace |-> ws, form |-> f,
             handler |-> handler, body |-> body, rows |-> {}, status |-> 0]]
  BY <1>1
<1> DEFINE q == [step |-> "arrived", user |-> user, workspace |-> ws, form |-> f,
                 handler |-> handler, body |-> body, rows |-> {}, status |-> 0]
<1>2. /\ body \in {"good", "unreadable", "refused", "malformed", "scoped"}
      /\ body = "scoped" => handler = "submissions"
  BY DEF Bodies
<1>3. q \in Requests
  BY <1>2 DEF Requests
<1>4. Known(q, during'[w])
  BY <1>2 DEF Known
<1> QED BY <1>0, <1>3, <1>4, OneRequest

LEMMA TurnAwayKeeps ==
    ASSUME GateInv, Witnessed, NEW w \in Workers, TurnAway(w)
    PROVE  GateInv'
<1> DEFINE r == request[w]
           answer == Advanced(r, "answered", 403)
<1>1. r.step = "arrived" /\ r.user = Anonymous /\ r # Idle
  BY DEF TurnAway, Idle
<1>2. r \in Requests /\ Known(r, during[w])
  BY <1>1 DEF GateInv
<1>3. request \in [Workers -> Requests \cup {Idle}]
  BY DEF GateInv
<1>4. request' = [request EXCEPT ![w] = answer]
  BY <1>2, <1>3 DEF TurnAway, Answered, Advanced, Requests
<1>5. Continues(answer, r, "answered", 403)
  BY <1>2, SameQuestion
<1>6. answer \in Requests /\ Known(answer, during'[w])
  BY <1>1, <1>2, <1>5 DEF Continues, Known, Honest
<1> QED BY <1>4, <1>6, OneRequest

LEMMA AuthorizeKeeps ==
    ASSUME GateInv, Witnessed, NEW w \in Workers, Authorize(w)
    PROVE  GateInv'
<1> DEFINE r == request[w]
           answer(n) == Advanced(r, "answered", n)
           further == Advanced(r, "allowed", r.status)
<1>1. r.step = "arrived" /\ r # Idle /\ r.user # Anonymous
  BY DEF Authorize, Idle
<1>2. /\ r \in Requests /\ r.status \in Nat
      /\ r.body = "scoped" => r.handler = "submissions"
  BY <1>1 DEF GateInv, Requests, Known
<1>3. request \in [Workers -> Requests \cup {Idle}]
  BY DEF GateInv
<1>4. ASSUME NEW q \in Requests, request' = [request EXCEPT ![w] = q],
             Moment \in during'[w] => Known(q, during'[w])
      PROVE  GateInv'
  <2>1. request'[w] = q
    BY <1>3, <1>4
  <2>2. Moment \in during'[w]
    BY <1>1, <2>1, NeverIdle, StillKnown
  <2> QED BY <1>4, <2>2, OneRequest
<1>5. CASE r.body = "unreadable"
  <2>1. request' = [request EXCEPT ![w] = answer(400)]
    BY <1>2, <1>3, <1>5 DEF Authorize, Answered, Advanced, Requests
  <2>2. Continues(answer(400), r, "answered", 400)
    BY <1>2, SameQuestion
  <2>3. answer(400) \in Requests /\ Known(answer(400), during'[w])
    BY <1>1, <1>2, <1>5, <2>2 DEF Continues, Known, Honest
  <2> QED BY <1>4, <2>1, <2>3
<1>6. CASE r.body # "unreadable" /\ Verdict(r) = "deny"
  <2>1. request' = [request EXCEPT ![w] = answer(403)]
    BY <1>2, <1>3, <1>6 DEF Authorize, Answered, Advanced, Requests
  <2>2. Moment.up /\ Asked(r) \notin Moment.grant
    BY <1>6 DEF Verdict, Moment
  <2>3. Continues(answer(403), r, "answered", 403)
    BY <1>2, SameQuestion
  <2>4. answer(403) \in Requests /\ (Moment \in during'[w] => Known(answer(403), during'[w]))
    BY <1>1, <1>2, <2>2, <2>3 DEF Continues, Known, Honest
  <2> QED BY <1>4, <2>1, <2>4
<1>7. CASE r.body # "unreadable" /\ Verdict(r) = "unavailable"
  <2>1. request' = [request EXCEPT ![w] = answer(503)]
    BY <1>2, <1>3, <1>7 DEF Authorize, Answered, Advanced, Requests
  <2>2. ~Moment.up
    BY <1>7 DEF Verdict, Moment
  <2>3. Continues(answer(503), r, "answered", 503)
    BY <1>2, SameQuestion
  <2>4. answer(503) \in Requests /\ (Moment \in during'[w] => Known(answer(503), during'[w]))
    BY <1>1, <1>2, <2>2, <2>3 DEF Continues, Known, Honest
  <2> QED BY <1>4, <2>1, <2>4
<1>8. CASE r.body # "unreadable" /\ Verdict(r) = "allow"
  <2>1. request' = [request EXCEPT ![w] = further]
    BY <1>2, <1>3, <1>8 DEF Authorize, Advanced, Requests
  <2>2. Moment.up /\ Asked(r) \in Moment.grant
    BY <1>8 DEF Verdict, Moment
  <2>3. Continues(further, r, "allowed", r.status)
    BY <1>2, SameQuestion
  <2>4. further \in Requests /\ (Moment \in during'[w] => Known(further, during'[w]))
    BY <1>1, <1>2, <1>8, <2>2, <2>3 DEF Continues, Known, Granted
  <2> QED BY <1>4, <2>1, <2>4
<1>9. Verdict(r) \in {"deny", "unavailable", "allow"}
  BY DEF Verdict
<1> QED BY <1>5, <1>6, <1>7, <1>8, <1>9

(* The row is found exactly if, now, it is there within the workspace.     *)
LEMMA FindsWithin == \A r : Finds(r) <=> Within(r, Moment)
BY DEF Finds, Within, Moment

(* The rows a handler goes on with were there, now, in its workspace.      *)
LEMMA RowsSeen ==
    ASSUME NEW r, r.form \in Forms, Finds(r), NEW moments, Moment \in moments
    PROVE  /\ \A f \in RowsFor(r) : f \in Forms /\ Seen(r, f, moments)
           /\ r.handler \in OfForm => r.form \in RowsFor(r)
<1>1. r.handler \in OfForm => HomeOf[r.form] = r.workspace /\ <<"form", r.form>> \in there
  BY DEF Finds, OfForm, WorkspaceWide
<1>2. Moment.there = there
  BY DEF Moment
<1>3. r.handler \in OfForm => r.handler # "list"
  BY DEF OfForm
<1> QED BY <1>1, <1>2, <1>3 DEF RowsFor, Seen

LEMMA LoadKeeps ==
    ASSUME GateInv, Witnessed, NEW w \in Workers, LoadRow(w)
    PROVE  GateInv'
<1> DEFINE r == request[w]
           missing == Advanced(r, "answered", 404)
           further == Advanced(r, "loaded", r.status)
           found == [further EXCEPT !.rows = RowsFor(r)]
<1>1. r.step = "allowed" /\ r # Idle
  BY DEF LoadRow, Idle
<1>2. /\ r \in Requests /\ r.status \in Nat /\ r.form \in Forms
      /\ r.body = "scoped" => r.handler = "submissions"
  BY <1>1 DEF GateInv, Requests, Known
<1>3. request \in [Workers -> Requests \cup {Idle}]
  BY DEF GateInv
<1>4. ASSUME NEW q \in Requests, request' = [request EXCEPT ![w] = q],
             /\ Moment \in during'[w] /\ r.user # Anonymous
             /\ Granted(r, during'[w]) /\ r.body # "unreadable"
             => Known(q, during'[w])
      PROVE  GateInv'
  <2>1. request'[w] = q
    BY <1>3, <1>4
  <2>2. Moment \in during'[w] /\ Known(r, during'[w])
    BY <1>1, <2>1, NeverIdle, StillKnown
  <2>3. r.user # Anonymous /\ Granted(r, during'[w]) /\ r.body # "unreadable"
    BY <1>1, <2>2 DEF Known
  <2> QED BY <1>4, <2>2, <2>3, OneRequest
<1>5. CASE Finds(r)
  <2>1. request' = [request EXCEPT ![w] = found]
    BY <1>2, <1>3, <1>5 DEF LoadRow, Advanced, Requests
  <2>2. Within(r, Moment)
    BY <1>5, FindsWithin
  <2>3. Continues(further, r, "loaded", r.status)
    BY <1>2, SameQuestion
  <2>4. RowsFor(r) \in SUBSET Forms
    BY <1>2 DEF RowsFor
  <2>5. Continues(found, r, "loaded", r.status) /\ found.rows = RowsFor(r)
    <3>1. /\ further \in Requests
          /\ \A rows \in SUBSET Forms : LET q == [further EXCEPT !.rows = rows] IN
                /\ q \in Requests /\ q.rows = rows /\ q.step = further.step
                /\ q.status = further.status /\ q.body = further.body /\ q.user = further.user
                /\ q.form = further.form /\ q.workspace = further.workspace
                /\ q.handler = further.handler
      BY <2>3 DEF Continues, Requests
    <3> HIDE DEF further
    <3> QED BY <2>3, <2>4, <3>1 DEF Continues, Asked, Within
  <2>6. /\ found \in Requests
        /\ /\ Moment \in during'[w] /\ r.user # Anonymous
           /\ Granted(r, during'[w]) /\ r.body # "unreadable"
           => Known(found, during'[w])
    <3> HIDE DEF found
    <3>1. Moment \in during'[w] => Present(found, during'[w])
      BY <2>2, <2>5, SameGround DEF Present
    <3>2. Moment \in during'[w] =>
             /\ \A f \in found.rows : f \in Forms /\ Seen(found, f, during'[w])
             /\ found.handler \in OfForm => found.form \in found.rows
      BY <1>2, <1>5, <2>5, RowsSeen DEF Continues, Seen
    <3> QED BY <1>2, <2>5, <3>1, <3>2, SameGround DEF Continues, Known
  <2> QED BY <1>4, <2>1, <2>6
<1>6. CASE ~Finds(r)
  <2>1. request' = [request EXCEPT ![w] = missing]
    BY <1>2, <1>3, <1>6 DEF LoadRow, Answered, Advanced, Requests
  <2>2. ~Within(r, Moment)
    BY <1>6, FindsWithin
  <2>3. Continues(missing, r, "answered", 404)
    BY <1>2, SameQuestion
  <2>4. /\ missing \in Requests
        /\ /\ Moment \in during'[w] /\ r.user # Anonymous
           /\ Granted(r, during'[w]) /\ r.body # "unreadable"
           => Known(missing, during'[w])
    BY <1>2, <2>2, <2>3, SameGround DEF Continues, Known, Honest
  <2> QED BY <1>4, <2>1, <2>4
<1> QED BY <1>5, <1>6

(* A row that a request loaded, and that is gone now, was destroyed.       *)
LEMMA GoneSince ==
    ASSUME NEW r, NEW moments, Known(r, moments), r.step = "loaded", Moment \in moments,
           NEW f \in r.rows, <<"versions", f>> \notin kept
    PROVE  Destroyed(r, moments)
<1>1. <<"versions", f>> \notin Moment.kept
  BY DEF Moment
<1>2. f \in Forms /\ Seen(r, f, moments)
  BY DEF Known
<1> QED BY <1>1, <1>2 DEF Destroyed, Seen

(* The versions of a form go before its row.                               *)
VersionsFirst == \A f \in Forms : <<"row", f>> \notin kept => <<"versions", f>> \notin kept

LEMMA ActKeeps ==
    ASSUME GateInv, VersionsFirst, Witnessed, NEW w \in Workers, Act(w)
    PROVE  GateInv'
<1> DEFINE r == request[w]
           answer(n) == Advanced(r, "answered", n)
<1>1. r.step = "loaded" /\ r # Idle
  BY DEF Act, Idle
<1>2. r \in Requests /\ Known(r, during[w])
  BY <1>1 DEF GateInv
<1>3. request \in [Workers -> Requests \cup {Idle}]
  BY DEF GateInv
<1>4. r.user # Anonymous /\ r.body # "unreadable"
  BY <1>1, <1>2 DEF Known
<1>5. PICK n \in {200, 400, 500} :
         /\ Answered(w, n)
         /\ n = 500 /\ r.body = "good" => WriteFails(r) \/ ShowMayFail(r)
         /\ n = 400 /\ r.body = "scoped" => QuestionGone(r)
  BY DEF Act
<1>6. n \in Nat /\ request' = [request EXCEPT ![w] = answer(n)]
  <2>1. n \in Nat /\ r \in Requests /\ Answered(w, n)
    BY <1>2, <1>5
  <2> QED BY <1>3, <2>1 DEF Answered, Advanced, Requests
<1>7. Continues(answer(n), r, "answered", n)
  BY <1>2, <1>6, SameQuestion
<1>8. request'[w] # Idle
  BY <1>3, <1>6, <1>7, NeverIdle DEF Continues
<1>9. Known(r, during'[w]) /\ Moment \in during'[w]
  BY <1>1, <1>8, StillKnown
<1>10. /\ Granted(r, during'[w]) /\ Present(r, during'[w])
       /\ r.handler \in OfForm => r.form \in r.rows
       /\ r.body = "scoped" => r.handler = "submissions"
  BY <1>1, <1>9 DEF Known
<1>11. ASSUME WriteFails(r) \/ ShowMayFail(r) \/ QuestionGone(r)
       PROVE  Destroyed(r, during'[w])
  <2>1. r.form \in Forms
    BY <1>2 DEF Requests
  <2>2. \E f \in r.rows : <<"versions", f>> \notin kept
    BY <1>10, <1>11, <2>1
       DEF WriteFails, ShowMayFail, QuestionGone, VersionsFirst, Writers, OfForm
  <2> QED BY <1>1, <1>9, <2>2, GoneSince
<1>12. Known(answer(n), during'[w])
  <2> DEFINE q == answer(n)
  <2> HIDE DEF q
  <2>0. Continues(q, r, "answered", n)
    BY <1>7 DEF q
  <2>1. /\ Granted(q, during'[w]) /\ Present(q, during'[w])
        /\ Destroyed(q, during'[w]) <=> Destroyed(r, during'[w])
    BY <1>10, <2>0, SameGround
  <2>2. /\ q.step = "answered" /\ q.status = n /\ q.body = r.body /\ q.user = r.user
        /\ q.handler = r.handler
    BY <2>0 DEF Continues
  <2>3. (n = 500 /\ q.body = "good") \/ (n = 400 /\ q.body = "scoped") => Destroyed(q, during'[w])
    BY <1>5, <1>11, <2>1, <2>2
  <2>4. Honest(q, during'[w])
    BY <1>4, <2>1, <2>2, <2>3 DEF Honest
  <2> QED BY <1>10, <2>2, <2>4 DEF Known, q
<1> QED BY <1>6, <1>7, <1>12, OneRequest DEF Continues

LEMMA LeaveKeeps ==
    ASSUME GateInv, Witnessed, NEW w \in Workers, Leave(w)
    PROVE  GateInv'
<1>1. request' = [request EXCEPT ![w] = Idle]
  BY DEF Leave
<1>2. request' \in [Workers -> Requests \cup {Idle}]
  BY <1>1 DEF GateInv
<1>3. ASSUME NEW v \in Workers, request'[v] # Idle
      PROVE  Moment' \in during'[v] /\ Known(request'[v], during'[v])
  <2>1. request'[v] = request[v] /\ request[v] # Idle
    BY <1>1, <1>3 DEF GateInv
  <2> QED BY <1>3, <2>1, StillKnown
<1> QED BY <1>2, <1>3 DEF GateInv

LEMMA ElsewhereKeeps ==
    ASSUME GateInv, Witnessed, Elsewhere
    PROVE  GateInv'
<1>1. request' = request
  BY DEF Elsewhere
<1>2. ASSUME NEW v \in Workers, request'[v] # Idle
      PROVE  Moment' \in during'[v] /\ Known(request'[v], during'[v])
  BY <1>1, <1>2, StillKnown
<1> QED BY <1>1, <1>2 DEF GateInv
-----------------------------------------------------------------------------
LEMMA VersionsGoFirst == Spec => []VersionsFirst
<1>1. Init => VersionsFirst
  BY DEF Init, VersionsFirst
<1>2. VersionsFirst /\ [Next]_vars => VersionsFirst'
  <2> SUFFICES ASSUME VersionsFirst, [Next]_vars PROVE VersionsFirst'
    OBVIOUS
  <2>1. CASE kept' = kept
    BY <2>1 DEF VersionsFirst
  <2>2. CASE \E f \in Forms, lost \in {{"versions"}, {"versions", "row"}} : kept' = kept \ (lost \X {f})
    <3>1. PICK f \in Forms, lost \in {{"versions"}, {"versions", "row"}} :
             kept' = kept \ (lost \X {f})
      BY <2>2
    <3>2. \A g \in Forms : <<"row", g>> \notin kept' => <<"versions", g>> \notin kept'
      BY <3>1 DEF VersionsFirst
    <3> QED BY <3>2 DEF VersionsFirst
  <2>3. \/ kept' = kept
        \/ \E f \in Forms, lost \in {{"versions"}, {"versions", "row"}} : kept' = kept \ (lost \X {f})
    BY DEF Next, Arrive, TurnAway, Authorize, LoadRow, Act, Leave, Elsewhere, vars
  <2> QED BY <2>1, <2>2, <2>3
<1> QED BY <1>1, <1>2, PTL DEF Spec

LEMMA GateInvHolds == Spec => []GateInv
<1>1. Init => GateInv
  BY DEF Init, GateInv
<1>2. GateInv /\ VersionsFirst /\ [Next]_vars => GateInv'
  <2> SUFFICES ASSUME GateInv, VersionsFirst, [Next]_vars PROVE GateInv'
    OBVIOUS
  <2>1. CASE Next
    <3>1. Witnessed
      BY <2>1 DEF Next
    <3>2. CASE Elsewhere
      BY <3>1, <3>2, ElsewhereKeeps
    <3>3. ASSUME NEW w \in Workers,
                 \/ Arrive(w) \/ TurnAway(w) \/ Authorize(w)
                 \/ LoadRow(w) \/ Act(w) \/ Leave(w)
          PROVE  GateInv'
      BY <3>1, <3>3, ArriveKeeps, TurnAwayKeeps, AuthorizeKeeps, LoadKeeps, ActKeeps, LeaveKeeps
    <3> QED BY <2>1, <3>2, <3>3 DEF Next
  <2>2. CASE UNCHANGED vars
    BY <2>2 DEF vars, GateInv, Moment
  <2> QED BY <2>1, <2>2
<1> QED BY <1>1, <1>2, VersionsGoFirst, PTL DEF Spec

(* Every answer of the gated API was true at some moment of its request:   *)
(* authz.py and the handlers of views.py, for any number of requests.      *)
THEOREM AnswersAlwaysTrue == Spec => []AnswersAreTrue
<1>1. GateInv => AnswersAreTrue
  <2> SUFFICES ASSUME GateInv, NEW w \in Workers, request[w].step = "answered"
               PROVE  Honest(request[w], during[w])
    BY DEF AnswersAreTrue, Honest, Granted, Present
  <2>1. request[w] # Idle
    BY DEF Idle
  <2> QED BY <2>1 DEF GateInv, Known
<1> QED BY <1>1, GateInvHolds, PTL
=============================================================================
