\* Two forms, one submit at a time, RETENTION_DAYS switched between None and 2,
\* overrides below and above it.
SPECIFICATION FairSpec
CONSTANTS
    f1 = f1
    f2 = f2
    v1 = v1
    Forms = {f1, f2}
    Visitors = {v1}
    Ceilings = {0, 2}
    Overrides = {1, 3}
    Patience = 1
    MaxRows = 2
    MaxDeaths = 1
    MaxTime = 3
INVARIANTS RetentionTypeOK HorizonEnforced AnswersHaveTheirVersion
PROPERTIES NeverEarly TrashEmptied
CHECK_DEADLOCK FALSE
