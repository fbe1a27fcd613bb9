CONSTANTS
    c1 = c1
    c2 = c2
    Conns = {c1, c2}
    NoConn = NoConn
    RealAddr <- DistinctAddr
    Size = 1
    QueueLimit = 1
    SockBuf = 1
    MaxTunPkts = 2
    MaxReads = 1
    MaxGen = 2
    PostErrors = FALSE
SPECIFICATION Spec
INVARIANT NoMbufAbort
