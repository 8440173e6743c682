SPECIFICATION LiveSpec
CONSTANT LiveQueueCap = 4
INVARIANT StoppedWhileEditing
