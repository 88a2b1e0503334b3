SPECIFICATION Spec
CONSTANTS
    w1 = w1
    w2 = w2
    g1 = g1
    g2 = g2
    yes = yes
    no = no
    NoGuild = NoGuild
    Answers <- MCAnswers
    Workers <- TwoWorkers
    Guilds <- TwoGuilds
    Members = {1, 2}
    Residents <- Everyone
    OptedOut <- No2
    Broken = {g2}
    Rules <- OneRule
    Limits <- Cap1
    Changes <- Anything
    MaxChanges = 3
    Troubles <- AllFail
    MaxTroubles = 1
INVARIANTS TypeOK OptOutHonoured
PROPERTIES LateGoodbye
CHECK_DEADLOCK FALSE
