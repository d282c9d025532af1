SPECIFICATION FairSpec
CONSTANTS
    g = g  b1 = b1  b2 = b2  b3 = b3  b4 = b4  b5 = b5
    Red <- RedMC
    LargoInicial = 3
    Recientes = {b2, b3, b4, b5}
    MaxPagina = 2
    CantThreads = 2
    AlturaInicial = 1
    MaxCaidas = 3
    LineaPartida = FALSE
INVARIANTS
    TypeOK
    ArchivoRecupera
    SinHuecos
    BloquesDelProceso
PROPERTY Sincroniza
CHECK_DEADLOCK FALSE
