SPECIFICATION Spec
CONSTANTS
    Panes = {p1, p2}
    Sessions = {s0, s1}
    Elsewhere = s0
    None = None
    MaxJobs = 2
    MaxCommands = 3
SYMMETRY Symmetry
INVARIANT ArmedIsFocused
PROPERTIES KillsWhatItNamed NoTerminalIsDisplaced
CHECK_DEADLOCK FALSE
