SPECIFICATION FairSpec
CONSTANTS
    c1 = c1
    c2 = c2
    dev = dev
    plc1 = plc1
    plc2 = plc2
    t1 = t1
    t2 = t2
    t3 = t3
    Callers <- MCOneCaller
    Addrs <- MCDevice
    PriorityAddrs <- MCPriority
    PriorityCap <- MCCap
    MaxConnections = 1
    Conns <- MCConns2
    NoConn = NoConn
    NoAddr = NoAddr
    Standing = TRUE
    PreConnect = FALSE
    Probed <- MCPriority
    IdleTimeout = 1
    MaxAge = 0
    MaxCount = 0
PROPERTIES
    ShutdownCompletes
    Replenished
