CONSTANTS
    g0 = g0
    a1 = a1
    b1 = b1
    c2 = c2
    d3 = d3
    Block <- MCBlock
    DaaScore <- MCDaaScore
    FinalityDepth = 2
    AddedLists <- MCAddedLists
    GapBounds <- MCGapBounds
SPECIFICATION Spec
INVARIANTS
    TypeOK
    OneBlockPerScore
    NothingFinalizedWaits
PROPERTIES
    TransitionTellsAll
    PromotionTakesPrefix
    CommitsOnlyFinal
