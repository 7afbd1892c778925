CONSTANTS
    s1 = s1  s2 = s2  s3 = s3  r1 = r1  d1 = d1  q1 = q1  q2 = q2  w1 = w1  w2 = w2
    profile = profile  server = server  service = service
    edit = edit   job = job  web = web  tune = tune  mcp = mcp
    Sessions = {s1, s2, s3}
    Runs = {r1, d1, q1, q2}
    DynamicRuns = {d1}
    SessionOf <- TheSessionOf
    Ops = {edit, web, job, tune, mcp}
    RunOf <- TheRunOf
    WorkspaceOf <- TheWorkspaceOf
    ToolOf <- TheToolOf
    ResourcesOf <- TheResourcesOf
    Workspaces = {w1, w2}
    Resources = {profile, server, service}
    MaxRevision = 3
    b1 = b1 f1 = f1 f2 = f2 k1 = k1
    Jobs = {b1}
    Refreshes = {f1, f2}
    Controllers = {k1}
    QueueLimit = 2
    MaxGenerations = 2
    MaxOwnerRev = 5
    MaxCred = 2
    MaxLeases = 2
    MaxCalls = 2
SPECIFICATION MCSpec
INVARIANTS WorldsTypeOK EffectExclusion EndedRunIsSettled DynamicPauseIsQuiescent
INVARIANTS RevokedApprovalNeverDispatches FullAccessLeavesNoPrompt
INVARIANTS OwnersExclude SpentTokenIsFenced
INVARIANTS NothingIsReplayed EndedRootIsSettled
PROPERTIES RetiredGainsOnlyFacts ImplementsEffectLedger
CHECK_DEADLOCK FALSE
