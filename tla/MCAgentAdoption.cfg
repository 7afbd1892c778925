\* As many pauses as the service admits, and a restart.
CONSTANTS
    r1 = r1  r2 = r2  ca = ca  cb = cb
    Runs = {r1, r2}
    DynamicRuns = {r1, r2}
    Callers = {ca}
    Continuations = {}
    AnswerTo <- OneAnswers
    Capacity = 1
    Workers = 1
    MaxRestarts = 1
SPECIFICATION Spec
INVARIANTS PausesAreAdopted
CHECK_DEADLOCK FALSE
