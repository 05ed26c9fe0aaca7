SPECIFICATION FairSpec
CONSTANTS
    RingCap = 4
    QueueMax = 2
    BufferMax = 3
    FrameMax = 2
    ClientMax = 3
    PendingMax = 2
    WireMax = 2
    MaxBytes = 7
    MaxDrops = 2
INVARIANTS MemoryIsBounded ExitShowsAll ReplayIsQuiet
PROPERTIES RefinesStream FinalOutputArrives
CHECK_DEADLOCK FALSE
