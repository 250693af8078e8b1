CONSTANTS
    Obj = {1, 2, 3, 4}
    Handle = {h1, h2, h3, h4, h5}
    Null = Null
    Wild = Wild
    Levels = 2
    AnyPlaces = 3
    AnyHandles = {h1, h2, h3}
SPECIFICATION ProgramSpec
INVARIANTS ProgramsKeepTheirOwn
PROPERTIES OnlyForgettingIsUnsound OnlyOverwritingLoses
CHECK_DEADLOCK FALSE
