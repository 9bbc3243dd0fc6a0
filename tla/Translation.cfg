CONSTANTS
    Parts = {"writers", "listeners", "catalog"}
    en = en
    pl = pl
    en_lng = en_lng
    pl_lng = pl_lng
    r_default = r_default
    r_en = r_en
    r_pl = r_pl
    Langs = {en, pl}
    Paths = {en_lng, pl_lng}
    Expand <- ExpandNames
    Texts <- SomeTexts
    Serials <- SomeSerials
    UseAny = UseAny
    Rules = {r_en, r_pl}
    Default = r_default
    NoLex = NoLex
    TokenMod = 4
    FirstToken = 1
    MaxOpens = 3
    MaxClock = 3
    MaxAdds = 4
    MaxDepth = 3
    Keys = {k1, k2}
    LastBase = 1000
    MaxSerial = 3
    Damaged = Damaged
    Nothing = Nothing
SPECIFICATION RunSpec
INVARIANTS
    TypeOK
    ViewsAreLive
    ServedAsRequested
    FreshIsCurrent
    ListenersCaughtUp
    CatalogTypeOK
    OneMeaning
PROPERTIES
    ImplementsSource
    AddReplacesNone
    FreezeKeepsNumbers
