SPECIFICATION FairSpec
CONSTANTS
    g = g  a = a  b = b  x = x  sin = sin
    Bloques = {g, a, b}
    Handlers = {h1, h2}
    Base <- BaseMC
    Pedidos <- PedidosMC
    MaxHeaders = 2
    MaxLargo = 4
    MaxPedidos = 1
INVARIANTS
    TypeOK
    IndiceCorrecto
    CandadosEnOrden
    RespuestaCompleta
PROPERTY PedidoSeResponde
CHECK_DEADLOCK FALSE
