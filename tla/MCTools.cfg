SPECIFICATION MCSpec
CONSTANTS
    ia = ia
    ib = ib
    ic = ic
    iz = iz
    ie = ie
    r1 = r1
    r2 = r2
    c1 = c1
    c2 = c2
    d1 = d1
    d2 = d2
    s1 = s1
    s2 = s2
    s3 = s3
    Image = {ia, ib, ic, iz, ie}
    Latest = {ie}
    Ported = {iz}
    List <- MCList
    Selected <- MCSelected
    Commit <- MCCommit
    Inside <- MCInside
    Release = {r1, r2}
    MaxFaults = 1
    Runner = {c1, c2}
    Counted = {"secret"}
    Named = {"group"}
    Kinds <- MCKinds
    Basic <- MCBasic
    Name = {"n1", "n2"}
    Answer <- MCAnswer
    MaxTroubles = 1
    MaxEdits = 1
    Pod = {d1, d2}
    MaxLosses = 2
    Student = {s1, s2, s3}
    Notebook <- MCNotebook
    MaxRounds <- MCRounds
SYMMETRY ToolsSymmetry
INVARIANTS
    TypeOK
    ReleaseWhole
    UsedIsReleased
    OkMeansAllWell
    NoIdleAlarm
    ServesWholeModel
    EndpointIsOwn
    LastCellLeavesNothing
