SPECIFICATION MCSpec
CONSTANTS
    HistoryLimit = 3
    SampleOpLimit = 1
    Ntp = {"synth"}
    External = {"clap"}
    Vst3 = {}
    Manifest <- MCManifest
    BusChannels = 1
    ForeignFiles <- MCFiles
    Wires <- MCWires
    NewUtilities = {"sum"}
    MaxEdits = 4
    MaxAdded = 2
    SongChannels = 2
    Songs <- MCSongs
    CellValues <- MCCells
    Shifts = {1}
    MaxNote = 2
    RowLimit = 3
    ModuleLimit = 1
    MaxPatterns = 3
    MaxOrderLen = 3
    MaxStrips = 2
    MaxSongEdits = 9
    MaxSoundEdits = 6
    MaxMixedEdits = 3
    MaxUserEdits = 5
    ApiClients = {c1}
    Batches <- MCBatches
    MaxQueued = 1
    BatchLimit = 4
    MaxRequests = 2
    NodeCount = 3
    MaxEdges = 4
    ModuleFiles <- MCModules
    PatternLength = 2
    SampleSlots = 2
    ChannelLimit = 2
    BoundChannels = {2}
    VisibleRows = 2
    NewRows = 2
    PageRows = 2
    EntrySteps = {2}
    FramesPerTick = 2
    Instruments = 4
    Bounds = 2
    Documents <- MCDocuments
    OldVersions = {1, 4, 5, 7, 8, 9, 11, 12, 13, 14}
    MaxSaves = 2
    RecordSpeed = 2
    MaxInputs = 4
    SongPaths = {"song"}
    ModulePaths = {"tune"}
    CommandLines <- MCLines
    Interval = 1
    RecentCap = 1
    MaxFrames = 6
    MaxLaunches = 2
    MaxMenu = 2
INVARIANT KeysInPattern
CHECK_DEADLOCK FALSE
