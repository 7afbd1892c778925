\* A service that closes after an answer it could not observe.
CONSTANTS
    r1 = r1  r2 = r2  ca = ca  cb = cb
    Runs = {r1}
    DynamicRuns = {r1}
    Callers = {ca}
    Continuations = {}
    AnswerTo <- OneAnswers
    Capacity = 1
    Workers = 1
    MaxRestarts = 0
SPECIFICATION Spec
PROPERTIES CloseReturns
CHECK_DEADLOCK FALSE
