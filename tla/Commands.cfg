CONSTANTS
    Parts = {"pot", "po", "mo", "make", "idl", "generate", "tool"}
    IdlLayouts <- PlainLayouts
    Files <- PoFiles
    Before <- Alphabetic
    Years <- TwoYears
    NoYear = "none"
    Catalogues <- PoCatalogues
    Layouts <- PoLayouts
    Damaged = Damaged
    MoBase = 8
    MoInputs <- MoFiles
    Idls <- SomeIdls
    RunCatalogues <- SomeRunCatalogues
    RunLists <- GoodAndBad
    Templates = {"own"}
    NotThere = NotThere
    MaxEdits = 1
SPECIFICATION CommandsSpec
INVARIANTS
    GettextIsRead
    MadeOfTheCatalogue
    IdlIsKept
    GeneratedIsUnderstood
    OnlyGoodSourcesAreUsed
    MoStaysInFile
PROPERTIES
    RunsEndWell
CHECK_DEADLOCK FALSE
