SPECIFICATION LiveSpec
CONSTANTS
    Pcbs = {p1}
    Addrs = {a1}
    MaxConnections = 1
    MaxConnPerIp = 0
    MaxReqBuf = 4
    RcvWnd = 10
    SndBuf = 1
    HeaderLen = 1
    BodyLen = 1
    Timeout = 1
    Payloads <- LivePayloads
    MaxDeliveries = 2
    MaxBlocks = 1
    MaxRestarts = 1
    NoPcb = NoPcb
    NoCtx = NoCtx
    NoFrame = NoFrame
INVARIANTS FreeContextClean
PROPERTIES CallbackReturns EveryConnectionEnds
