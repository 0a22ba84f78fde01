SPECIFICATION PowerLossSpec
CONSTANTS
    None = None
    server = server
    cli = cli
    g1 = g1
    g2 = g2
    k = k
    r1 = r1
    r2 = r2
    p = p
    Refs = {r1}
    Payloads = {p}
    Callers = {g1, g2, k}
    Instances = {server, cli}
    InstanceOf <- MCInstanceOf
    Menu <- UseMenu
    TTL = 1
    MaxLosses = 1
    MaxNow = 0
INVARIANT NeverTorn
PROPERTIES CallsReturn ReusedOnlyByLoss
