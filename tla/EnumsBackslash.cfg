CONSTANTS
    Parts = {"generate"}
    IdlLayouts <- PlainLayouts
    Files <- PoFiles
    Before <- Alphabetic
    Years <- TwoYears
    NoYear = "none"
    Catalogues <- PoCatalogues
    Layouts <- PoLayouts
    Damaged = Damaged
    MoBase = 8
    MoInputs = {}
    Idls <- SomeIdls
    RunCatalogues <- SomeRunCatalogues
    RunLists <- GoodAndBad
    Templates = {"own"}
    NotThere = NotThere
    MaxEdits = 1
SPECIFICATION CommandsSpec
INVARIANT StringsAreDeclared
CHECK_DEADLOCK FALSE
