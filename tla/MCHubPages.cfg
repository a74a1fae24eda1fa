SPECIFICATION MCSpec
CONSTANTS
    pod1 = pod1
    pod2 = pod2
    User <- FifteenUsers
    Admin <- TwoAdmins
    Stayer <- AllButThree
    Starter <- OneStarter
    DefaultPerPage = 2
    MaxPerPage = 9
    Request <- MCRequest
    Safe <- SafeOnes
    Hex <- Digits
    Name <- Names
    Container <- MCContainer
    PodId <- TwoPods
    Binary = 4
    Decimal = 3
SYMMETRY PodSymmetry
INVARIANTS
    AdminTypeOK
    WalkSeesEveryone
    LinksLeadToUsers
    PageSaysWhatItShows
    MemoryNeverLess
    UsageOfOwnPods
