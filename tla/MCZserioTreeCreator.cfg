SPECIFICATION MCSpec
CONSTANTS
    Types <- MCTypes
    MaxDepth = 4
    RootType = "Whole"
    Names <- MCNames
    Values <- MCValues
    Arguments <- MCArguments
    Results <- MCResults
CHECK_DEADLOCK FALSE
INVARIANTS
    LooksAgree
    StacksAligned
    TopIsOfTheType
    ObjectFits
PROPERTY
    ImplementsBuilder
