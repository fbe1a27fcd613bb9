CONSTANTS
    p1 = p1
    p2 = p2
    p3 = p3
    r1 = r1
    r2 = r2
    Pkts = {p1, p2}
    Irps = {r1, r2}
    NoPkt = NoPkt
    NoIrp = NoIrp
    PktSizes = {1, 2}
    ReadLens = {1, 2}
    PACKET_QUEUE_SIZE = 1
    IRP_QUEUE_SIZE = 1
    SMP = TRUE
    MaxSessions = 2
    MaxPowerChanges = 1
SPECIFICATION Spec
INVARIANT CancelSpinLockReleased
