SPECIFICATION MCSpec
CONSTANTS
    NoteOff = NoteOff
    MaxTriggers = 3
    Songs <- LoopSongs
    Channels = 2
    PoolSize = 2
    Masks <- MCMasks
    MaxOrders = 3
    Speeds = {1, 3}
    PreviewNotes = {2}
    MaxPending = 2
    RingSize = 2
    TickPeriod = 2
    MaxTime = 2
    NoName = NoName
    Unset = Unset
    BaseNote = 1
    TopNote = 2
    MinSlice = 0
    MaxVoices = 2
    MaxImpulse = 4
    MaxStageParams = 1
    MaxDepth = 1
    Platform = "linux"
    Archives <- MCArchives
    Velocities = {50, 100}
    Overrides <- MCOverrides
    KnobValues = {2}
    FadeBlocks = 2
    MaxNotes = 3
    MaxLoads = 1
    MaxMessages = 4
    MaxCommands = 2
PROPERTY LoopIsTaken
CHECK_DEADLOCK FALSE
