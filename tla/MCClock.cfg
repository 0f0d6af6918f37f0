SPECIFICATION FairSpec
CONSTANTS
    LONG_MAX = 5
    User = {1, 2}
    EDF = {1}
    Period = 2
    DL_HZ = 3
    Alarms <- MCAlarms
    Deadlines = {0, 1}
    MaxLost = 1
    MaxTime = 3
INVARIANTS
    TypeOK
    TimersOrdered
    AlarmCovers
PROPERTIES
    AlarmNotEarly
    AlarmGoesOff
    DeadlineGoesOff
