SPECIFICATION FairSpec
CONSTANTS
    c1 = c1
    c2 = c2
    k1 = k1
    w1 = w1
    w2 = w2
    a1 = a1
    a2 = a2
    s1 = s1
    s2 = s2
    NoStroke = NoStroke
    Clients = {c1, c2}
    Workers = {w1, w2}
    NumThreads = 2
    Strokes = {}
    Areas = {a1, a2}
    Spontaneous = {}
    accessRect <- OwnCell
    changeRect <- OwnCell
    Strategies = {}
    Operations = {"tryBarrierLock", "updateProjection"}
    LockedOperations = {"updateProjection", "startStroke", "addJob", "endStroke", "cancelStroke"}
    BalancingRatio = 100
    MaxDebt = 2
    MaxCalls = 2
PROPERTY UpdatesAreServed

