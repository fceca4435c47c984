SPECIFICATION Spec
CONSTANTS
    SymType <- MCTypes
    ConstSyms <- MCConst
    Number <- MCNumber
    NoNumber = NoNumber
    Rank <- MCRank
    Conditions <- MCConditions
    MaxCalls = 60
    ChoiceSyms = {"C"}
    OptionalChoices = {}
    modules_sym = "M"
    AutoSyms = {}
    HashOrder <- MCHashOrder
    Decimal <- MCDecimal
    Prefixed <- MCPrefixed
    AllNoConfigY = {}
    Tree <- MCTree
    Disks <- MCDisks
    NoFile = NoFile
    Unwritable = {"nodir"}
    Configname = "config"
    Searches <- MCSearches
    Typed = {"1", "7"}
    MaxSteps = 4
    MaxDepth = 4
INVARIANTS TrailIsPath ScreenIsCurrent NothingOutOfReach NothingLostUnasked
PROPERTY ImplementsScreens
CHECK_DEADLOCK FALSE
