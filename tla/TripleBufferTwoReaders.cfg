SPECIFICATION BufferSpec
CONSTANTS
    Readers = {ui, midi}
    MaxVersion = 3
INVARIANT NoTear
