SPECIFICATION FairSpec
CONSTANTS
    InstanceTypes <- OneType
    Images <- OneImage
    MaxFaults = 2
INVARIANTS
    TypeOK
    SecretsUsable
    EveryoneUnlessInterrupted
    AdminUnlessInterrupted
PROPERTIES
    PasswordKept
    NeverWedged
