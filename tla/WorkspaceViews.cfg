SPECIFICATION Spec
CONSTANTS
    Views = {v1, v2}
    Names = {dev, ops}
    NoName = NoName
    Absent = Absent
    Stored = {dev}
    MaxEdits = 1
    MaxRenames = 1
    MaxFaults = 1
INVARIANT WriterOwns
PROPERTY SavedIsKept
CHECK_DEADLOCK FALSE
SYMMETRY AlikeViews
CONSTRAINT TwoOfThree
