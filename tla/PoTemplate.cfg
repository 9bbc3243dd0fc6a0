CONSTANTS
    Parts = {"pot"}
    IdlLayouts <- PlainLayouts
    Files <- PoFiles
    Before <- Alphabetic
    Years <- TwoYears
    NoYear = "none"
    Catalogues <- QuotedPlurals
    Layouts <- PoLayouts
    Damaged = Damaged
    MoBase = 8
    MoInputs = {}
    Idls <- SomeIdls
    RunCatalogues <- SomeRunCatalogues
    RunLists <- GoodAndBad
    Templates = {"own"}
    NotThere = NotThere
    MaxEdits = 1
SPECIFICATION CommandsSpec
INVARIANT TemplateIsGettext
CHECK_DEADLOCK FALSE
