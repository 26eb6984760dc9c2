\* The three scenes of MCLifecycle: racing publishes, racing openings under a
\* cap of one, and visitors next to an author.  The grace window is open, and
\* may always turn out to be over, which is what a shut one does.
SPECIFICATION SceneSpec
CONSTANTS
    None = None
    f1 = f1
    f2 = f2
    f3 = f3
    ws = ws
    w1 = w1
    w2 = w2
    s1 = s1
    s2 = s2
    bad = bad
    b1 = b1
    v1 = v1
    v2 = v2
    a1 = a1
    Forms = {f1, f2, f3}
    Workspaces = {ws}
    WorkspaceOf <- MCWorkspaceOf
    Workers = {w1, w2}
    Schemas = {s1, s2, bad}
    Publishable = {s1, s2}
    Settings = {b1}
    Requested = {"update", "draft", "publish_view", "publish", "state", "rotate", "delete"}
    OpenCap = 1
    MaxVersion = 3
    MaxHandles = 2
    MaxClosed = 2
    Visitors = {v1, v2}
    Answers = {a1}
    Fits <- MCFits
    SubmissionCap = 1
    Grace = TRUE
    SubmissionIds = {1, 2, 3}
SYMMETRY MCSymmetry
INVARIANTS
    TypeOK ActiveIsHead OrdinalsDense OpenHasVersion AnnouncedBeforeClosed OpenCapOvershoot
    IntakeTypeOK StoredWithinGrace AnswersFitTheirVersion SubmissionCapOvershoot
PROPERTIES PublishesToLog OneAuthorAnnouncesClosing
CHECK_DEADLOCK FALSE
