\* Two waiters of two sessions after the same workspace, full access in one.
CONSTANTS
    s1 = s1  s2 = s2  r1 = r1  r2 = r2  w1 = w1
    profile = profile  service = service  server = server
    edit = edit  job = job  mcp = mcp  web = web
    Sessions = {s1, s2}
    Runs = {r1, r2}
    DynamicRuns = {}
    SessionOf <- RivalSessionOf
    Ops = {edit, job}
    Trusted = {job}
    RunOf <- RivalRunOf
    WorkspaceOf <- RivalWorkspaceOf
    ToolOf <- RivalToolOf
    ResourcesOf <- RivalResourcesOf
    Workspaces = {w1}
    Resources = {profile, service, server}
    MaxRevision = 1
SPECIFICATION RivalSpec
INVARIANTS WaiterTypeOK WaiterAgreesWithJournal
PROPERTIES WaitEnds
CHECK_DEADLOCK FALSE
