SPECIFICATION Spec
CONSTANTS
    SymType <- MCTypes
    ConstSyms <- MCConst
    Number <- MCNumber
    NoNumber = NoNumber
    Rank <- MCRank
    Conditions <- MCConditions
    MaxCalls = 60
    ChoiceSyms = {"C"}
    OptionalChoices = {}
    modules_sym = "n"
    Deps <- MCDeps
    Bases <- MCBases
    Files <- MCFiles
    Valuations <- MCValuations
INVARIANTS RewritingsAreSound SubmenuIsImplied PrintedReadsBack TreeIsRight LoopsReported
CHECK_DEADLOCK FALSE
