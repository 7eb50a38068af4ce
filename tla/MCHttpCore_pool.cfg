SPECIFICATION Spec
CONSTANTS
    Pcbs = {p1, p2, p3}
    Addrs = {a1, a2}
    MaxConnections = 2
    MaxConnPerIp = 1
    MaxReqBuf = 4
    RcvWnd = 10
    SndBuf = 2
    HeaderLen = 1
    BodyLen = 1
    Timeout = 0
    Payloads <- PoolPayloads
    MaxDeliveries = 1
    MaxBlocks = 0
    MaxRestarts = 0
    NoPcb = NoPcb
    NoCtx = NoCtx
    NoFrame = NoFrame
SYMMETRY PoolSymmetry
INVARIANTS Ownership PerIpLimit
PROPERTIES ServesConnections
