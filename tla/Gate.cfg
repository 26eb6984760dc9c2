\* One user and an anonymous caller, two workspaces with one form each, one
\* request at a time in an environment that changes twice under it.
SPECIFICATION Spec
CONSTANTS
    u = u
    f1 = f1
    f2 = f2
    a = a
    b = b
    w1 = w1
    Users = {u}
    Anonymous = Anonymous
    Workspaces = {a, b}
    Forms = {f1, f2}
    HomeOf <- MCHomeOf
    Workers = {w1}
    MaxChanges = 2
INVARIANTS AnswersAreTrue
CHECK_DEADLOCK FALSE
