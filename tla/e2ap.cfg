SPECIFICATION Spec
CONSTANTS
    Types <- MCTypes
    LaterTypes <- MCLaterTypes
    Samples <- MCSamples
    Helpers <- MCHelpers
    BufferSizes = {24, 2000}
    MaxUses = 2
INVARIANTS
    TypeOK
    ArrivesAsSent
    CutIsRefused
    EncodedAreTheConforming
    LaterIsUnderstood
    SentIsOfThisUse
    SentFollowsTables
    ReadsAsGiven
    ReadAsGiven
    SubsequentActionsFreed
CHECK_DEADLOCK FALSE
