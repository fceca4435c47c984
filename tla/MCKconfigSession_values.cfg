SPECIFICATION Spec
CONSTANTS
    SymType <- MCTypes
    ConstSyms <- MCConst
    Number <- MCNumber
    NoNumber = NoNumber
    Rank <- MCRank
    Conditions <- MCConditions
    MaxCalls = 60
    ChoiceSyms = {"C"}
    OptionalChoices = {}
    modules_sym = "M"
    AutoSyms = {}
    HashOrder <- MCHashOrder
    Decimal <- MCDecimal
    Prefixed <- MCPrefixed
    AllNoConfigY = {}
    Trees <- MCTrees
    Configs <- MCConfigs
    Rolls <- MCRolls
    Strings <- MCStrings
    MaxSteps = 2
INVARIANTS NothingStale OneOfChoice WithinLimits AcceptedTakesEffect FilesReproduce
CHECK_DEADLOCK FALSE
