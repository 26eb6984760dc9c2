\* Three accounts, two of which end; one form and two answers; deliveries in
\* order and out of order, repeated, before the projection of the survivor.
SPECIFICATION FairSpec
CONSTANTS
    None = None
    u1 = u1
    u2 = u2
    u3 = u3
    form = form
    a1 = a1
    a2 = a2
    q1 = q1
    q2 = q2
    Users = {u1, u2, u3}
    Authored = {form}
    Responses = {a1, a2}
    Requests = {q1}
    Regimes = {TRUE, FALSE}
    MaxEvents = 2
INVARIANTS AccountsTypeOK OwnedByAnHeir OrderlyStrandsNothing
PROPERTIES ErasedForGood EventuallyHandled
CHECK_DEADLOCK FALSE
