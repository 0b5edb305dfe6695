SPECIFICATION RetryingSpec
CONSTANTS
    m1 = m1
    m2 = m2
    m3 = m3
    m4 = m4
    Msgs = {m1, m2, m3}
    QueueMax = 2
    MaxPolls = 2
    MaxFails = 1
    SyncModes = {FALSE}
    RecordModes = {FALSE}
PROPERTIES
    RefusedIsTaken
