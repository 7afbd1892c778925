\* A dynamic run and a plain one with one worker between them, a person who answers the
\* dynamic one, one restart; a session's inbox with two prompts, one with files, and a
\* restart.
CONSTANTS
    r1 = r1  r2 = r2  ca = ca  cb = cb
    Runs = {r1, r2}
    DynamicRuns = {r1}
    Callers = {ca}
    Continuations = {}
    AnswerTo <- OneAnswers
    Capacity = 2
    Workers = 1
    MaxRestarts = 1
    sa = sa sb = sb ia = ia ib = ib
    Inboxes = {sa}
    Inputs = {ia, ib}
    Home <- OneHome
    Attached = {ia}
    Clients = {u}
    Nothing = Nothing
    QueueLimit = 2
    Window = 2
    InboxLives = 1
SPECIFICATION ServicesSpec
INVARIANTS ServicesTypeOK UnfinishedRunIsOwned AnswerFollowsPause
INVARIANTS NoInputIsLostOrRepeated
PROPERTIES OnlyUsersCancelPauses QueuedRunLeavesQueue CancellationEnds InputIsDispatched
CHECK_DEADLOCK FALSE
