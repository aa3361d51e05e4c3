SPECIFICATION Spec
CONSTANTS
    r1 = r1
    r2 = r2
    Known <- MCKnown
    Defaults <- MCDefaults
    Options <- AllFlags
    Request = {r1, r2}
INVARIANTS
    TypeOK
    ServesWhatWasAsked
    CleanExit
PROPERTIES
    StopsWhenAsked
