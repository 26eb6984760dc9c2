\* One form, one request and one staff change page at a time.
SPECIFICATION AdminSpec
CONSTANTS
    None = None
    f1 = f1
    ws = ws
    w1 = w1
    s1 = s1
    bad = bad
    b1 = b1
    Forms = {f1}
    Workspaces = {ws}
    WorkspaceOf <- MCWorkspaceOf
    Workers = {w1}
    Schemas = {s1, bad}
    Publishable = {s1}
    Settings = {b1}
    Requested = {"update", "draft", "publish_view", "publish", "state", "rotate", "delete"}
    OpenCap = 0
    MaxVersion = 3
    MaxHandles = 2
    MaxClosed = 1
INVARIANTS PublicShowsPublished
PROPERTIES PublishHeals SaveTouchesItsPage
CHECK_DEADLOCK FALSE
