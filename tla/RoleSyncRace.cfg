SPECIFICATION Spec
CONSTANTS
    w1 = w1
    w2 = w2
    g1 = g1
    g2 = g2
    yes = yes
    no = no
    NoGuild = NoGuild
    Answers <- MCAnswers
    Workers <- TwoWorkers
    Guilds <- OneGuild
    Members = {1, 2}
    Residents <- Everyone
    OptedOut <- Nobody
    Broken = {}
    Rules <- TwoRules
    Limits <- Cap2
    Changes <- RaceKinds
    MaxChanges = 3
    Troubles = {}
    MaxTroubles = 0
INVARIANTS QuietConverged
CHECK_DEADLOCK FALSE
