\* Three responses, two deliveries at a time, each event delivered up to
\* twice, to a form that has notify targets or has none any more.
SPECIFICATION FairSpec
CONSTANTS
    r1 = r1
    r2 = r2
    r3 = r3
    h1 = h1
    h2 = h2
    Submissions = {r1, r2, r3}
    Handlers = {h1, h2}
    Cooldown = 2
    FormRows = {TRUE, FALSE}
    Prompt = TRUE
    MaxDeliveries = 2
    MaxTime = 2
INVARIANTS NotifyTypeOK LettersSpaced NoOvercount
PROPERTIES EventuallyAcknowledged
CHECK_DEADLOCK FALSE
