SPECIFICATION Spec
CONSTANTS
    User <- BadUsers
    Group <- BadGroupsToo
    Project <- MCProject
    Dataset <- BadDatasetToo
    ProjectOf <- MCProjectOf
    Cr <- MCCr
    Groups <- MCGroups
    Roles <- MCRoles
    Everyone = "everyone"
    PhfsEnabled = TRUE
    StartNotebook = TRUE
    SshFeature = FALSE
INVARIANTS
    LinksAreOwn
    ForeignChownsOnlyByOverlap
    PodIsAdmissible
PROPERTY
    SpawnsAreIsolated
