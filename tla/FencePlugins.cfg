SPECIFICATION FairSpec
CONSTANTS
    Slots = {s1}
    Buffers = {b1}
    Bridges = {x1}
    Instances = {n1}
    None = None
    QueueCap = 1
    MaxEntries = 1
    MaxSampleOps = 1
    MaxSerial = 2
INVARIANT NoUseAfterFree
PROPERTY EventuallyReclaimed
