\* RETENTION_DAYS lowered below the override of a form, and switched off while
\* a form is in the trash; the property is violated.
SPECIFICATION PromiseSpec
CONSTANTS
    f1 = f1
    v1 = v1
    Forms = {f1}
    Visitors = {v1}
    Ceilings = {0, 1, 3}
    Overrides = {2}
    Patience = 1
    MaxRows = 2
    MaxDeaths = 0
    MaxTime = 4
INVARIANTS APromiseIsKept
CHECK_DEADLOCK FALSE
