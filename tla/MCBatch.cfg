SPECIFICATION MCSpec
CONSTANTS
    ReqIDs = {r1, r2}
    TxnIDs = {t1, t2}
    None = None
    Requests <- MCRequests
    MaxSize = 2
    MaxEvents = 2
    MaxLines = 4
SYMMETRY Symmetry
INVARIANTS TypeOK BufferFraming AgeMatchesCount FiledUnderOwnID
PROPERTIES ProxySettlesItsInvocation SettledStaysSettled FullGrowsByProxiesOnly MetadataIsKept
