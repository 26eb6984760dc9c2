\* Two deliveries inside the window miss the held count and both set it to
\* one; the property is violated.
SPECIFICATION Spec
CONSTANTS
    r1 = r1
    r2 = r2
    r3 = r3
    h1 = h1
    h2 = h2
    Submissions = {r1, r2, r3}
    Handlers = {h1, h2}
    Cooldown = 1
    FormRows = {TRUE}
    Prompt = TRUE
    MaxDeliveries = 1
    MaxTime = 2
INVARIANTS NothingLost
CHECK_DEADLOCK FALSE
