CONSTANTS
    en = en
    pl = pl
    NoCulture = NoCulture
    at_en = at_en
    at_pl = at_pl
    at_none = at_none
    bare = bare
    one = one
    two = two
    key_one = key_one
    key_two = key_two
    NoKey = NoKey
    Langs = {en, pl, NoCulture}
    Paths = {at_en, at_pl, at_none, bare}
    Expand <- ExpandNames
    Lists <- SomeLists
    Texts <- SomeTexts
    Builtin <- BuiltinText
    Serial = 1
    UseAny = 0
    Rules <- BothRules
    NoLex = NoLex
    Ids = {one, two}
    Counts <- SomeCounts
    NoPath = NoPath
    Disks <- SomeDisks
    MaxCalls = 2
    MaxWrites = 1
    Handles = {h1, h2}
    NoHandle = NoHandle
    LitePaths = {"p"}
    LiteTexts <- SomeLiteTexts
    LiteIds = {1, 2, 3}
    LiteCounts = {1, 2}
    NoPointer = NoPointer
    ToolLangs = {"pl-PL", "pl", "en"}
    NoToolCulture = ""
    UserLangs <- Polish
    ToolTexts <- SomeToolTexts
    NoText = NoText
    ToolSerial = 2
    ToolBuiltin <- CompiledIn
    ToolResources <- PolishIsOlder
    MaxInstalls = 1
    Environments <- SomeEnvironments
    Categories <- SomeCategories
    SomeValues <- InstalledValues
    ValueC <- OnlyC
    Composite <- Mixed
    LastResort <- JustEn
    Ranges <- SomeRanges
SPECIFICATION LibrarySpec
INVARIANTS
    StorageKeepsItsWord
    RulesMeanWhatTheySay
    HandlesAndStringsAreKept
    ToolSpeaksOneLanguage
    LanguagesAreThoseAskedFor
PROPERTIES
    WalkStopsInTime
    ImplementsLocales
CHECK_DEADLOCK FALSE
