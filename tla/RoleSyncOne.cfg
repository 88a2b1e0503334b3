SPECIFICATION FairSpec
CONSTANTS
    w1 = w1
    w2 = w2
    g1 = g1
    g2 = g2
    yes = yes
    no = no
    NoGuild = NoGuild
    Answers <- MCAnswers
    Workers <- OneWorker
    Guilds <- TwoGuilds
    Members = {1, 2, 3}
    Residents <- Everyone
    OptedOut <- No1
    Broken = {g2}
    Rules <- RuleOfG1
    Limits <- Cap1Or3
    Changes <- Calm
    MaxChanges = 4
    Troubles = {"lookup"}
    MaxTroubles = 1
INVARIANTS QuietConverged QuietSound MirrorTruthful
PROPERTIES Converges
CHECK_DEADLOCK FALSE
