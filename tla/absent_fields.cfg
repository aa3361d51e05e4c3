SPECIFICATION Spec
CONSTANTS
    c1 = c1
    Caller = {c1}
    MaxStarts = 2
INVARIANTS
    PresentMeansAnswered
