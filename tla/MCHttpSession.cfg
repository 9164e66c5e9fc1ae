\* Whatever a peer may send, cut into segments at any place.
SPECIFICATION Spec
CONSTANTS
    ByteBase = 32
    Xor <- XorByte
    Conversations <- Talks
    MaxUnread = 22
INVARIANTS
    WholeMessages
    OneMessageOneCall
    WsInOrder
    FramesAligned
    UpgradeOnce
CHECK_DEADLOCK FALSE
