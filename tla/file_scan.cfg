\* Files whose headers are right, or wrong in one or two numbers.
SPECIFICATION Spec
CONSTANTS
    Containers <- MCContainers
    MaxFileSize = 60
    MaxInMemory = 40
    Word = 64
    MagicSize = 1
    MinHeader = 2
    LoadCommand = 1
    LinkeditData = 2
    FatHeader = 2
    SuperBlob = 1
    BlobIndex = 1
    BlobHeader = 1
    CDHeader = 2
    MaxArchs = 2
    MaxBlobs = 3
    HashSizes <- MCHashSizes
    PageSizes = {4, 8}
INVARIANTS
    TypeOK
    InBounds
    HealthyIsVerified
    UnverifiableHasCause
    CMSIsLeftAlone
