SPECIFICATION Spec
CONSTANTS
    Base = 5
    LargoTarget = 6
    Recibidos <- RecibidosMC
    Buscadas <- BuscadasMC
INVARIANT SiCumpleSeAgrega
CHECK_DEADLOCK FALSE
