CONSTANTS
    u1 = u1
    u2 = u2
    k1 = k1
    k2 = k2
    p1 = p1
    None = None
    Tunnels = {u1}
    Connections = {k1}
    Ports = {p1}
SPECIFICATION FairSpec
PROPERTY StopClosesConnections
CHECK_DEADLOCK FALSE
