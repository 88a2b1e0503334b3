SPECIFICATION Spec
CONSTANTS
    None = None
    NaN = NaN
    Inf = 100
    MinWhole <- MCMinWhole
    MaxWhole = 4
    Empty = ""
    Yes = "true"
    Texts <- MCTexts
    Trim <- MCTrim
    Lower <- MCLower
    Parse <- MCParse
    ParseInt <- MCParseInt
    Show <- MCShow
    Day <- MCDay
    Substrings <- MCSubstrings
    Matching <- MCMatching
    Long = {"ab"}
    Emails = {"x@y.io"}
    Agreed = {"true", "yes", "1"}
    Questions <- MCQuestions
    Inputs <- MCInputs
    Raws <- MCRaws
INVARIANTS TypeOK Complements PicksExact NumbersAgree PointsExact KeyReachable
