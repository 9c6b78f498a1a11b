CONSTANTS
    u1 = u1
    u2 = u2
    k1 = k1
    k2 = k2
    p1 = p1
    None = None
    Tunnels = {u1, u2}
    Connections = {k1, k2}
    Ports = {p1}
SPECIFICATION FairSpec
INVARIANTS TypeOK NoHiddenTunnel ListedRuns SocksSound
PROPERTY TunnelsEnd
CHECK_DEADLOCK FALSE
