------------------------------- MODULE AdminSite -------------------------------
(***************************************************************************)
(* The change page of FormAdmin next to the requests of FormLifecycle.     *)
(*                                                                         *)
(* The page shows title, state and settings.  Its POST loads the row, puts *)
(* what was posted on the instance and saves the instance: every column is *)
(* written, those of the page from the POST, the others (the active        *)
(* version, the draft, the public handle, deleted_at) as they were when    *)
(* the POST loaded them.  services.py has no part in it: no check that a   *)
(* version is published, no cap, no form.closed.                           *)
(*                                                                         *)
(* The site filters on nothing, so a soft-deleted form has a change page.  *)
(* Adding a form and deleting a row from the site are not modelled.        *)
(***************************************************************************)
EXTENDS FormLifecycle

VARIABLE staff  \* the change page of the one member of staff

adminVars == <<form, version, lock, req, published, closed, staff>>
-----------------------------------------------------------------------------
(* `got' is the row the page was rendered from, `seen' the one the POST    *)
(* loaded.  `alone' is a history variable: nobody else has written the row *)
(* since.                                                                  *)
NoPage == [step |-> "none"]

AdminInit == Init /\ staff = NoPage

ShowChangePage(f) ==
    /\ staff = NoPage
    /\ form[f].life # "absent"
    /\ staff' = [step |-> "shown", form |-> f, got |-> form[f], seen |-> Blank,
                 state |-> form[f].state, settings |-> form[f].settings, alone |-> TRUE]
    /\ UNCHANGED vars

(* What a member of staff may post: what the page showed, or another       *)
(* choice of the select or blob.                                           *)
Chosen == States \X (Settings \cup {None})

(* Mutant of PostChangePage: the instance of the GET kept for the POST.    *)
PostKeepingInstance ==
    /\ staff.step = "shown"
    /\ \E c \in Chosen :
          staff' = [staff EXCEPT !.step = "posted", !.got = Blank, !.seen = staff.got,
                                 !.state = c[1], !.settings = c[2]]
    /\ UNCHANGED vars

PostChangePage ==
    /\ staff.step = "shown"
    /\ \E c \in Chosen :
          staff' = [staff EXCEPT !.step = "posted", !.got = Blank, !.seen = form[staff.form],
                                 !.state = c[1], !.settings = c[2]]
    /\ UNCHANGED vars

(* save_model: an UPDATE of the whole row, which waits for a row lock.     *)
SaveModel ==
    /\ staff.step = "posted"
    /\ Unlocked(staff.form)
    /\ form' = [form EXCEPT ![staff.form] =
                   [staff.seen EXCEPT !.state = staff.state, !.settings = staff.settings]]
    /\ staff' = NoPage
    /\ UNCHANGED <<version, lock, req, published, closed>>

LeavePage ==
    /\ staff # NoPage
    /\ staff' = NoPage
    /\ UNCHANGED vars

(* A request of FormLifecycle, noted if it writes the row under the POST.  *)
Elsewhere ==
    /\ Next
    /\ staff' = IF staff.step = "posted" /\ form'[staff.form] # form[staff.form]
                THEN [staff EXCEPT !.alone = FALSE] ELSE staff

AdminNext ==
    \/ Elsewhere
    \/ \E f \in Forms : ShowChangePage(f)
    \/ PostChangePage
    \/ SaveModel
    \/ LeavePage

AdminSpec == AdminInit /\ [][AdminNext]_adminVars
-----------------------------------------------------------------------------
(* resolve_public: what a stranger with the current handle is told.        *)
PublicAnswer(f) ==
    CASE form[f].life # "live" \/ form[f].state = "draft" -> 404
      [] Live(f) /\ form[f].state = "closed" -> 410
      [] Live(f) /\ form[f].state = "open" -> IF form[f].active = 0 THEN 404 ELSE 200
-----------------------------------------------------------------------------
(***************************************************************************)
(* Properties                                                              *)
(***************************************************************************)

(* A stranger is only ever shown a published version, and one that passed  *)
(* validation, although staff can open a form that has none and put back   *)
(* an active version that is no longer the newest.                         *)
PublicShowsPublished ==
    \A f \in Forms : PublicAnswer(f) = 200 =>
       /\ form[f].active \in Ordinals(f)
       /\ SchemaOf(f, form[f].active) \in Publishable

(* Whatever a staff save put back, the next publish repairs, and nothing   *)
(* it put back wedges one: under the lock a publish knows the newest       *)
(* ordinal, though the active version may be older, so its INSERT meets no *)
(* unique constraint; what it adds is then active, and the draft is gone.  *)
PublishHeals ==
    [][/\ (\A w \in Workers : req[w] # Idle /\ req[w].step = "locked" =>
                req[w].head = HeadVersion(req[w].form))'
       /\ \A v \in version' \ version :
             /\ form'[v.form].active = v.version
             /\ form'[v.form].draft = None]_adminVars

(* The lost update of a staff save is as wide as its POST and no wider:    *)
(* when nobody wrote the row after the POST loaded it, the save changes    *)
(* nothing but what the page shows, however long the page was open.        *)
SaveTouchesItsPage ==
    [][staff.step = "posted" /\ staff.alone /\ staff' = NoPage =>
          LET f == staff.form IN
          form' = [form EXCEPT ![f].state = form'[f].state,
                               ![f].settings = form'[f].settings]]_adminVars
=============================================================================
