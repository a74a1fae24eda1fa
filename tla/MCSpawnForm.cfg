SPECIFICATION Spec
CONSTANTS
    lab = lab
    dev = dev
    cpu = cpu
    gpu = gpu
    base = base
    own = own
    r1 = r1
    r2 = r2
    Group <- Names
    Type <- TwoTypes
    Image <- TwoImages
    Context <- SmallContexts
    Gpu <- GpuType
    Selective <- GpuType
    Private <- PrivateImage
    Request <- TwoRequests
SYMMETRY Symmetry
INVARIANTS
    TypeOK
    PodIsAsAsked
    LeftoversOnlyFromForms
    PodIsOffered
    GpuImageWithGpu
