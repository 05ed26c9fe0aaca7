SPECIFICATION Spec
CONSTANTS
    Terminals = {t1, t2}
    Named = {api}
    Scratches = {}
    Gestures = {g1, g2}
    MaxGestures = 2
    MaxMoves = 1
    MaxFails = 0
    None = None
INVARIANT KilledLeavesEveryFile
