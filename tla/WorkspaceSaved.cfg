SPECIFICATION FairSpec
CONSTANTS
    Views = {v1, v2}
    Names = {dev}
    NoName = NoName
    Absent = Absent
    Stored = {dev}
    MaxEdits = 1
    MaxRenames = 0
    MaxFaults = 1
PROPERTIES QuarrelEnds EditIsSaved
CHECK_DEADLOCK FALSE
