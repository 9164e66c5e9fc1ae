\* Closing when two threads run the io_context.
SPECIFICATION Spec
CONSTANTS
    m1 = m1
    m2 = m2
    m3 = m3
    NoMsg = NoMsg
    Callers = {c1}
    IoThreads = {io1, io2}
    Msgs = {m1}
    Size <- SizeSame
    HighWater = 1
    Calls = {"startRecv", "close", "shutdown", "setHighWater", "functor"}
    MaxUnread = 2
    MaxInputs = 2
INVARIANTS
    ClosedOnce

CHECK_DEADLOCK FALSE
