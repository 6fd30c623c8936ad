SPECIFICATION Spec
CONSTANTS
    i1 = i1
    i2 = i2
    Incidents = {i1}
    Cameras = {c1}
    Grades <- MCGrades
    MaxFrames = 1
    MaxFaults = 0
PROPERTY
    LockedIncidentKeepsClip
CHECK_DEADLOCK FALSE
