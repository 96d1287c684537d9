SPECIFICATION FairSpec
CONSTANTS
    c1 = c1
    c2 = c2
    k1 = k1
    w1 = w1
    w2 = w2
    a1 = a1
    a2 = a2
    s1 = s1
    s2 = s2
    NoStroke = NoStroke
    Clients = {c1}
    Workers = {w1, w2}
    NumThreads = 2
    Strokes = {s1}
    Areas = {a1}
    Spontaneous = {}
    accessRect <- OwnCell
    changeRect <- OwnCell
    Strategies <- ShortStrategies
    Operations = {"lock", "barrierLock", "tryBarrierLock", "fullRefresh", "blockUpdates", "waitForDone", "updateProjection"}
    LockedOperations = {"startStroke", "endStroke", "cancelStroke", "updateProjection", "fullRefresh"}
    BalancingRatio = 100
    MaxDebt = 2
    MaxCalls = 3
INVARIANT LockedMeansQuiet
PROPERTIES UpdatesAreServed StrokesAreRetired BlockUpdatesReturns CallsReturn
