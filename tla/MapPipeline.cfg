SPECIFICATION PipelineSpec
CONSTANTS
    MinBytes = 3
    FreeThresh = 196
    OccupiedThresh = 650
    NoImage = NoImage
    Batches = {a, b}
    BagLength = 4
    Window = 2
    Timeout = 6
    MapPause = 1
    PipeCap = 5
    Jobs = 2
    NoBatch = NoBatch
    Names = {n}
    Images <- MCImages
    None = None
INVARIANTS
    VerifiedMapIsTheBag
    ComponentsAreExact
    ActiveIsVerified
