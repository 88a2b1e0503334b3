SPECIFICATION Spec
CONSTANTS
    t1 = t1
    t2 = t2
    t3 = t3
    m1 = m1
    None = None
    Tabs <- ThreeTabs
    Members <- OneMember
    Configs <- FixedConfigs
    Scores = {1, 2}
    MaxVersion = 1
    MaxClock = 3
    MaxLag = 1
SYMMETRY TabSymmetry
INVARIANTS TypeOK OneRowPerMember AttemptsWithinMax PolicyKept PassLocks CooldownKept
PROPERTIES PageKept
CHECK_DEADLOCK FALSE
