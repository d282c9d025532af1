SPECIFICATION Spec
CONSTANTS
    g = g  b1 = b1  b2 = b2  bx = bx  bi = bi  t1 = t1  t2 = t2  ti = ti  o1 = o1
    Bloques = {g, b1, b2, bx, bi}
    Txns = {t1, t2, ti}
    Otros = {o1}
    Validos = {g, b1, b2}
    Ilegibles = {bi, ti}
    Disponibles = {g, b1, b2, bx, bi, t1, t2, ti}
    Base <- BaseMC
    Inventarios <- InventariosLibres
    MaxAnuncios = 3
    CantMaxTxn = 2
    ServerMode = TRUE
    NotFoundPorItem = FALSE
INVARIANTS
    TypeOK
    ArchivoSigueAMemoria
    BloquesRespaldados
    EventosEnOrden
    AlturasCoinciden
    VistaRespaldada
PROPERTIES
    NadaSePierde
    Refina
CHECK_DEADLOCK FALSE
