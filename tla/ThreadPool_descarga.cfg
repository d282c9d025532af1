SPECIFICATION FairSpec
CONSTANTS
    CantThreads = 3
    Total = 3
    CantBlocksPorInv = 1
    CantRetries = 2
    Dns = {{}, {"ipv4"}, {"ipv4", "ipv6"}}
INVARIANTS
    TypeOK
    UnSoloLugar
PROPERTY Termina
CHECK_DEADLOCK FALSE
