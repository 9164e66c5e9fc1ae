\* When the session closes itself.
SPECIFICATION Spec
CONSTANTS
    ByteBase = 32
    Xor <- XorByte
    Conversations <- Talks
    MaxUnread = 22
INVARIANTS
    GivesUpOnErrors
CHECK_DEADLOCK FALSE
