\* A restart that leaves a service executing: a service and an edit of one run.
CONSTANTS
    s1 = s1  s2 = s2  r1 = r1  r2 = r2  w1 = w1
    profile = profile  service = service  server = server
    edit = edit  job = job  mcp = mcp  web = web
    Sessions = {s1}
    Runs = {r1}
    DynamicRuns = {}
    SessionOf <- ServiceSessionOf
    Ops = {edit, web}
    Trusted = {web}
    RunOf <- ServiceRunOf
    WorkspaceOf <- ServiceWorkspaceOf
    ToolOf <- ServiceToolOf
    ResourcesOf <- ServiceResourcesOf
    Workspaces = {w1}
    Resources = {profile, service, server}
    MaxRevision = 0
SPECIFICATION WaiterSpec
INVARIANTS NoOrphanedEffect
CHECK_DEADLOCK FALSE
