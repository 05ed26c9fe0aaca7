SPECIFICATION Spec
CONSTANTS
    Panes = {p1, p2, p3, p4}
    NoPane = NoPane
    Steps = 4
    Margin = 1
SYMMETRY Symmetry
INVARIANTS PageFollowsTree KeysGoWhereSeen
PROPERTY DropMovesOnePane
CHECK_DEADLOCK FALSE
CONSTRAINT FewRatios
