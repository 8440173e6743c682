SPECIFICATION MCSpec
CONSTANTS
    Values = {v1, v2}
    Nothing = Nothing
    TornCell = TornCell
    MinCapacity = 3
    QueueModulus = 8
    Readers = {ui}
    MaxVersion = 5
    LiveQueueCap = 2
    RingSlots = 2
    Modulus = 8
    StaleBlocks = 2
    MaxCrashes = 1
INVARIANTS ThreadsTypeOK NoSharedCell NoTear OneStalePull NoSharedSlot NothingSkipped
PROPERTIES ImplementsFifo NeverOlder EventuallySeen BypassEnds ChildKeepsPlaying
