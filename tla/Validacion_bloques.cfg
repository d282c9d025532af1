SPECIFICATION Spec
CONSTANTS
    Base = 5
    LargoTarget = 6
    Recibidos <- RecibidosMC
    Buscadas <- BuscadasMC
INVARIANTS
    TypeOK
    AceptaLosValidos
    CaminoCorrecto
CHECK_DEADLOCK FALSE
