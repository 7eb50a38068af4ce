SPECIFICATION Spec
CONSTANTS
    Pcbs = {p1, p2}
    Addrs = {a1}
    MaxConnections = 1
    MaxConnPerIp = 0
    MaxReqBuf = 3
    RcvWnd = 6
    SndBuf = 1
    HeaderLen = 1
    BodyLen = 1
    Timeout = 0
    Payloads <- LivePayloads
    MaxDeliveries = 1
    MaxBlocks = 1
    MaxRestarts = 1
    NoPcb = NoPcb
    NoCtx = NoCtx
    NoFrame = NoFrame
INVARIANTS OwnershipAcrossRestart
