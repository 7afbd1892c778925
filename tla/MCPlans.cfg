CONSTANTS
    Root = Root A = A B = B L = L hA = hA hB = hB
    Leaves = {L}
    Planners = {A, B}
    Humans = {hA, hB}
    Nobody = Nobody
    Trees <- AllTrees
    MaxParallel = 2
    g1 = g1 g2 = g2 ask = ask maybe = maybe work = work
    Graphs = {g1, g2}
    ContextGraphs = {g2}
    GraphNodes = {ask, maybe, work}
    HumanNodes = {ask, maybe}
    NestedNodes = {}
    Needs <- AskThenWork
    Optional = {maybe}
    GraphCapacity = 2
    GraphWorkers = 1
    LeafLimit = 2
    GraphRestarts = 1
SPECIFICATION PlansSpec
INVARIANTS PlansTypeOK PauseIsDrained ClaimsAreTracked ChildrenEndFirst
INVARIANTS OneOwnerEach PausesCanBeAdopted AnsweredGraphIsWoken
PROPERTIES RunComesToRest OnlyUsersCancelGraphPauses GraphsComeToRest
CHECK_DEADLOCK FALSE
