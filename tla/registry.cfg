SPECIFICATION FairSpec
CONSTANTS
    None = None
    Thread = {t1, t2}
    Loader = t1
    Types <- SomeTypes
    Kind <- KindOf
    TypesUsed <- SomePrograms
    HiddenParent = "Widget"
    MaxClasses = 3
PROPERTY LookupsEnd
INVARIANTS
    OneClass
    NamedAlive
    NamespaceAgrees
