SPECIFICATION FairSpec
CONSTANTS
    t1 = t1
    t2 = t2
    t3 = t3
    m1 = m1
    None = None
    Tabs <- ThreeTabs
    Members <- OneMember
    Configs <- ChangedConfigs
    Scores = {1, 2}
    MaxVersion = 2
    MaxClock = 0
    MaxLag = 0
INVARIANTS RowOfOneSubmission
PROPERTIES CommitsCurrentVersion SubmissionsEnd ImplementsSerial
CHECK_DEADLOCK FALSE
