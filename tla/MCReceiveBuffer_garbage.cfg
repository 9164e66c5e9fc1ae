\* What can be read after the buffer was shrunk.
SPECIFICATION Spec
CONSTANTS
    MaxSize = 1024
    InitialSize = 128
    GrowBy <- Tanh1024
    Received = {100}
    Left = {0, 50}
    MaxShrinks = 1
INVARIANTS
    SizeIsUnread
CHECK_DEADLOCK FALSE
