SPECIFICATION BridgeSpec
CONSTANTS
    RingSlots = 4
    Modulus = 16
    StaleBlocks = 5
    MaxCrashes = 0
INVARIANT OneBlockLatency
