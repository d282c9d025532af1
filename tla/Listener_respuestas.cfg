SPECIFICATION FairSpec
CONSTANTS
    g = g  b1 = b1  b2 = b2  bx = bx  bi = bi  t1 = t1  t2 = t2  ti = ti  o1 = o1
    Bloques = {g, b1, b2, bx}
    Txns = {t1, t2}
    Otros = {}
    Validos = {g, b1, b2}
    Ilegibles = {}
    Disponibles = {g, b1, bx, t1}
    Base <- BaseMC
    Inventarios <- InventariosOrdenados
    MaxAnuncios = 3
    CantMaxTxn = 2
    ServerMode = TRUE
    NotFoundPorItem = TRUE
PROPERTIES
    InvSeAtiende
    BloqueSeGuarda
CHECK_DEADLOCK FALSE
