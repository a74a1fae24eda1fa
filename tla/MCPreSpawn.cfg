SPECIFICATION Spec
CONSTANTS
    User <- TwoUsers
    Group <- MCGroup
    Project <- MCProject
    Dataset <- GoodDatasets
    ProjectOf <- MCProjectOf
    Cr <- MCCr
    Groups <- MCGroups
    Roles <- MCRoles
    Everyone = "everyone"
    PhfsEnabled = TRUE
    StartNotebook = TRUE
    SshFeature = TRUE
INVARIANTS
    TypeOK
    LinksAreOwn
    ChownsCoverOwn
    ForeignChownsOnlyByOverlap
    AbortOnlyByOverlap
    PodIsAdmissible
    SshAsAskedUnlessOverwritten
