\* An answer that waits while its run is cancelled.
CONSTANTS
    r1 = r1  r2 = r2  ca = ca  cb = cb
    Runs = {r1}
    DynamicRuns = {r1}
    Callers = {ca}
    Continuations = {}
    AnswerTo <- OneAnswers
    Capacity = 1
    Workers = 1
    MaxRestarts = 0
SPECIFICATION Spec
PROPERTIES InputReturns
CHECK_DEADLOCK FALSE
