SPECIFICATION MCSpec
CHECK_DEADLOCK FALSE
CONSTANTS
    Texts <- MCTexts
    BufferSizes = {1, 2, 3}
    MaxInteger = 99
    Types <- MCTypes
    MaxDepth = 4
    RootType = "Whole"
    Names = {}
    Values = {}
    Wide = 12
    Size = 4
    Char <- MCChar
    Nul = "nul"
    Exceptions = {"thrown", "caught"}
    CStrings <- MCCStrings
    Views <- MCViews
    IntegerTexts <- MCIntegerTexts
    FloatTexts <- MCFloatTexts
    NoText <- MCNoText
    Dot <- MCDot
    VectorBegin <- MCVectorBegin
    VectorEnd <- MCVectorEnd
    MaxSaid = 4
    MaxReads = 3
INVARIANTS
    TokensAgree
    ReadsAgree
    FiltersAgree
    TextsAgree
    MessageHeld
