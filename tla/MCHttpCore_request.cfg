SPECIFICATION Spec
CONSTANTS
    Pcbs = {p1, p2}
    Addrs = {a1}
    MaxConnections = 1
    MaxConnPerIp = 0
    MaxReqBuf = 4
    RcvWnd = 10
    SndBuf = 3
    HeaderLen = 2
    BodyLen = 2
    Timeout = 1
    Payloads <- RequestPayloads
    MaxDeliveries = 3
    MaxBlocks = 1
    MaxRestarts = 0
    NoPcb = NoPcb
    NoCtx = NoCtx
    NoFrame = NoFrame
SYMMETRY PcbSymmetry
INVARIANTS TypeOK Ownership FreeContextClean WindowConserved StreamOrder BufferBound StageHasHandler BetweenCallbacks InputExamined
PROPERTIES ServesConnections
