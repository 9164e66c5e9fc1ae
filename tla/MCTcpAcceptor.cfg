\* Two accept loops, errors, and a close at any time.
SPECIFICATION FairSpec
CONSTANTS
    c1 = c1
    l1 = l1
    l2 = l2
    k1 = k1
    k2 = k2
    k3 = k3
    NoConn = NoConn
    Callers = {c1}
    Listeners = {l1, l2}
    Contexts = 2
    Connections = {k1, k2, k3}
    MaxErrors = 2
    MaxLoops = 2
INVARIANTS
    OneAcceptPerLoop
    DeliveredOnItsContext
PROPERTIES
    LoopsEnd
CHECK_DEADLOCK FALSE
