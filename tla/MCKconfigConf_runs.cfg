SPECIFICATION FairSpec
CONSTANTS
    SymType <- MCTypes
    ConstSyms <- MCConst
    Number <- MCNumber
    NoNumber = NoNumber
    Rank <- MCRank
    Conditions <- MCConditions
    MaxCalls = 60
    ChoiceSyms = {"C"}
    OptionalChoices = {}
    modules_sym = "M"
    AutoSyms = {"E"}
    HashOrder <- MCHashOrder
    Decimal <- MCDecimal
    Prefixed <- MCPrefixed
    AllNoConfigY = {}
    Tree <- MCTree
    None = None
    Part = Part
    Configs <- MCConfigs
    Named <- MCNamed
    Rolls <- MCRolls
    Replies <- MCReplies
    Modes = {"oldaskconfig", "oldconfig", "syncconfig", "listnewconfig", "olddefconfig", "defconfig", "savedefconfig", "allnoconfig", "allyesconfig", "allmodconfig", "alldefconfig", "randconfig"}
    MaxRuns = 2
    MaxKills = 1
    MaxRefused = 1
INVARIANTS NothingLeftToDo BuildSeesChanges
PROPERTIES ImplementsSaving ImplementsFiles RunEnds
