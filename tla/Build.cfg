CONSTANTS
    Length = 21
    coll <- OddNumbers
    Keys <- Numbers
    Names = {"enums", "enum_string"}
    Uses <- EnumsTwice
    BuildKinds = {"linked", "release", "debug"}
    MaxTime = 1
    MaxChanges = 2
    row_width = 3
    WordSize = 2
    Base = 16
    langtext_tag = 11
    hdrtext_tag = 12
    attrtext_tag = 13
    strstext_tag = 14
    keystext_tag = 15
    lasttext_tag = 10
    version = 9
    Inputs <- SomeStrings
    defs_serial = 4
    Alike <- LookAlikes
    PluralRule <- OtherThanOne
    Lists <- SomeLists
    Reserved <- KeywordNames
    Contents <- SomeContents
    MaxWrites = 1
    MaxRuns = 2
    Registries <- SomeRegistries
    LanguageTags <- SomeTags
SPECIFICATION BuildSpec
INVARIANTS
    FindsWhatIsThere
    NamesAreOfTheRegistry
    CompiledInIsWhatWasRead
PROPERTIES
    ImplementsLngFile
    TemplatesStayTheSame
    LoopsEnd
CHECK_DEADLOCK FALSE
