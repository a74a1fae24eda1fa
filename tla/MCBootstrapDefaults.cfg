SPECIFICATION Spec
CONSTANTS
    InstanceTypes <- OneType
    Images <- OneImage
    MaxFaults = 2
INVARIANT
    DefaultsOnlyWhenNoUser
