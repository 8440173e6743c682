SPECIFICATION Spec
CONSTANTS
    Slots = {s1}
    Buffers = {b1, b2}
    Bridges = {}
    Instances = {}
    None = None
    QueueCap = 1
    MaxEntries = 1
    MaxSampleOps = 1
    MaxSerial = 3
INVARIANTS TypeOK Fence NoUseAfterFree NoDanglingCommand
PROPERTY SwapKeepsSamples
SYMMETRY BufferSymmetry
