\* The receive buffer, which its user may shrink once.
SPECIFICATION Spec
CONSTANTS
    MaxSize = 1024
    InitialSize = 128
    GrowBy <- Tanh1024
    Received = {100}
    Left = {0, 100}
    MaxShrinks = 1
INVARIANTS
    PrepareSafe
    ReceiveWindow
    UnshrunkExact
    RoomUnlessFull
CHECK_DEADLOCK FALSE
