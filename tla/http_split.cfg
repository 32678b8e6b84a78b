CONSTANTS
    p1 = p1
    p2 = p2
    Ports = {p1, p2}
    Probed = {p1}
    PathOf <- MCPathOf
    c1 = c1
    c2 = c2
    Conns = {c1}
    Requests <- MCRequests
    MaxBody = 2
    MAX_HTTP_CLIENTS = 1
    MAX_REQUEST_SIZE = 6
    MaxPieces = 2
    Rets = {}
    HttpFaults = {}
SPECIFICATION Safe
INVARIANT PiecesAreAnswered
