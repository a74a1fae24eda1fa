SPECIFICATION Spec
CONSTANTS
    r1 = r1
    r2 = r2
    Request <- TwoRequests
    MaxVersion = 2
    MaxLogins = 2
SYMMETRY Symmetry
INVARIANT
    BlockedOnlyWhileDown
