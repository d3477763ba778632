SPECIFICATION Spec
CONSTANTS
    c1 = c1
    c2 = c2
    dev = dev
    plc1 = plc1
    plc2 = plc2
    t1 = t1
    t2 = t2
    t3 = t3
    Callers <- MCCallers
    Addrs <- MCAddrs
    PriorityAddrs <- MCPriority
    PriorityCap <- MCCap
    MaxConnections = 1
    Conns <- MCConns
    NoConn = NoConn
    NoAddr = NoAddr
    Standing = FALSE
    PreConnect = FALSE
    Probed <- NoProbe
    IdleTimeout = 1
    MaxAge = 1
    MaxCount = 3
SYMMETRY Symmetry
INVARIANTS
    TypeOK
    BudgetRespected
    OneHome
    Conservation
    CleanReuse
    NoLostWakeup
PROPERTIES
    ExhaustedOnlyWhenFull
