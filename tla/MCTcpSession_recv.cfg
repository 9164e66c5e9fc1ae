\* Receiving and closing: one io thread, one application thread, and the
\* liveness of sending and closing.
SPECIFICATION FairSpec
CONSTANTS
    m1 = m1
    m2 = m2
    m3 = m3
    NoMsg = NoMsg
    Callers = {c1}
    IoThreads = {io1}
    Msgs = {m1, m2}
    Size <- SizeSame
    HighWater = 1
    Calls = {"startRecv", "close"}
    MaxUnread = 1
    MaxInputs = 3
INVARIANTS
    OneReceiveAtATime
    RecvFlagFresh
    ClosedOnce
PROPERTIES
    NoDataAfterClose
    StreamFairSpec
    CloseReported
CHECK_DEADLOCK FALSE
