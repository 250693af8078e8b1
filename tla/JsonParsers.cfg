CONSTANTS
    Texts <- MCTexts
    Texts2 <- MCTexts2
    Afters <- MCAfters
SPECIFICATION EitherSpec
INVARIANTS EndIsTheFirstObjects ReadsBehindBeforeTheEnd BracketsAreJudged PositionIsKept
    ReturnsAtTheFirstUnknown
PROPERTY PositionsGrow
CHECK_DEADLOCK FALSE
