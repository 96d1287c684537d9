SPECIFICATION Spec
CONSTANTS
    c1 = c1
    c2 = c2
    k1 = k1
    w1 = w1
    w2 = w2
    a1 = a1
    a2 = a2
    s1 = s1
    s2 = s2
    NoStroke = NoStroke
    Clients = {c1}
    Workers = {w1, w2}
    NumThreads = 2
    Strokes = {s1, s2}
    Areas = {a1}
    Spontaneous = {}
    accessRect <- OwnCell
    changeRect <- OwnCell
    Strategies <- BlockingStrategies
    Operations = {"lock", "addJob", "cancelStroke"}
    LockedOperations = {"updateProjection", "startStroke", "addJob", "endStroke"}
    BalancingRatio = 100
    MaxDebt = 2
    MaxCalls = 4
INVARIANTS TypeOK UpdatesStayBlocked LockedMeansQuiet
SYMMETRY Symmetry
