SPECIFICATION FairSpec
CONSTANTS
    i1 = i1
    i2 = i2
    Incidents = {i1, i2}
    Cameras = {c1}
    Grades <- MCGrades
    MaxFrames = 3
    MaxFaults = 1
INVARIANTS
    TypeOK
    FramesTakenOnce
    RowsHaveFiles
    NoOrphans
PROPERTIES
    ClipsInCustody
    EventuallyPurged
    EventuallyReady
CHECK_DEADLOCK FALSE
