\* Sending on an application thread and on the two threads of the io_context.
SPECIFICATION SendingSpec
CONSTANTS
    m1 = m1
    m2 = m2
    m3 = m3
    NoMsg = NoMsg
    Callers = {c1}
    IoThreads = {io1, io2}
    Msgs = {m1, m2, m3}
    Size <- SizeAll
    HighWater = 2
    Calls = {"close", "shutdown", "setHighWater", "withdraw"}
    MaxUnread = 2
    MaxInputs = 2
INVARIANTS
    OneWriteAtATime
    WriteOwnsBuffers
    NoLostFlush
    StuckOnlyWhenClosing
    SizeAccounting
    AlertedAboveMark
    
PROPERTIES
    StreamSpec
SYMMETRY Symmetry
CHECK_DEADLOCK FALSE
