SPECIFICATION Spec
CONSTANTS
    d1 = d1
    d2 = d2
    p1 = p1
    p2 = p2
    x = x
    y = y
    a = a
    b = b
    NoTile = NoTile
    Devices = {d1, d2}
    Positions = {p1}
    Pixels = {x}
    DefaultPixels = {a, b}
    MaxTransactions = 3
    MaxChanges = 1
    UndoLimit = 2
    Liberties = {"revertAfterUndo"}
INVARIANT ImageFollowsHistory
SYMMETRY Symmetry
