SPECIFICATION FairSpec
CONSTANTS
    b1 = b1  t1 = t1  t2 = t2  c1 = c1  c2 = c2  p = p  q = q  Nada = Nada
    Conexiones = {c1, c2}
    Fugaces = {c1}
    Puertos <- PuertosMC
    Mensajes <- MensajesMC
    Bloques = {b1}
    Txns = {t1, t2}
    Entregas <- EntregasMC
    Base <- BaseMC
    BaseEnDisco = {}
    Capacidad = 1
    MaxAvisos = 2
    MaxMensajes = 1
INVARIANTS
    TypeOK
PROPERTIES
    LoObtenidoSeEntrega
    Refina
    AvisosAlDia
    PedidoTermina
CHECK_DEADLOCK FALSE
