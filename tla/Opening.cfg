CONSTANTS
    WordSize = 2
    Base = 3
    langtext_tag = 101
    hdrtext_tag = 102
    attrtext_tag = 103
    strstext_tag = 104
    keystext_tag = 105
    lasttext_tag = 106
    version = 100
    Catalogs <- SomeCatalogs
    Subtags <- SomeSubtags
    Headers <- SomeHeaders
    Names <- SomeNames
    En <- JustEn
SPECIFICATION OpeningSpec
INVARIANTS
    TypeOK
    OnlyWholeFilesOpen
    ReadsBack
    ListIsComplete
    OrderIsKept
PROPERTIES
    WholeFilesOpen
    LoopsEnd
    EveryListenerIsTold
CHECK_DEADLOCK FALSE
