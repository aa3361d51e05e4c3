SPECIFICATION Spec
CONSTANTS
    r1 = r1
    r2 = r2
    Known <- MCKnown
    Defaults <- MCDefaults
    Options <- OtherFlags
    Request = {r1}
INVARIANTS
    TypoReportedFirst
