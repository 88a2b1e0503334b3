SPECIFICATION Spec
CONSTANTS
    t1 = t1
    t2 = t2
    t3 = t3
    e1 = e1
    e2 = e2
    e3 = e3
    r1 = r1
    r2 = r2
    NoTab = NoTab
    Tabs <- ThreeTabs
    Edits <- ThreeEdits
    Requests <- OneRequest
    MaxVersion = 5
SYMMETRY TabsAndEdits
INVARIANTS TypeOK TabCurrent
PROPERTIES NoClobber
CHECK_DEADLOCK FALSE
