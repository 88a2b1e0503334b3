SPECIFICATION Spec
CONSTANTS
    w1 = w1
    w2 = w2
    g1 = g1
    g2 = g2
    yes = yes
    no = no
    NoGuild = NoGuild
    Answers <- MCAnswers
    Workers <- OneWorker
    Guilds <- OneGuild
    Members = {1}
    Residents <- Everyone
    OptedOut <- Nobody
    Broken = {}
    Rules <- OneRule
    Limits <- Cap2
    Changes <- GoneKinds
    MaxChanges = 2
    Troubles = {}
    MaxTroubles = 0
INVARIANTS FormGoneDrained
CHECK_DEADLOCK FALSE
