SPECIFICATION Spec
CONSTANTS
    Types <- MCTypes
    LaterTypes <- MCLaterTypes
    Samples <- MCSamples
    Helpers <- MCHelpers
    BufferSizes = {24, 2000}
    MaxUses = 2
INVARIANT
    OverflowExtensionsSkipped
CHECK_DEADLOCK FALSE
