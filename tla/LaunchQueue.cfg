SPECIFICATION QueueFairSpec
CONSTANTS
    Polls = {p1, p2}
    Pages = {w1, w2}
    NoLaunch = NoLaunch
    NoPoll = NoPoll
    MaxItems = 1
    MaxLaunches = 4
    MaxLeaves = 2
INVARIANTS InOnePlace NoneSleepsOnALaunch
PROPERTY LaunchIsServed
CHECK_DEADLOCK FALSE
