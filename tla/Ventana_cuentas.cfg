SPECIFICATION Spec
CONSTANTS
    Montos <- MontosMC
    Aliases <- AliasesMC
    Etiquetas <- DosPalabrasMC
    Direcciones <- DireccionesMC
    Pagos <- PagosMC
    Cortas <- CortasMC
    Iniciales <- InicialesMC
    Ajenas <- AjenasMC
    Propias <- PropiasMC
    NombresBloques <- UnBloqueMC
    CantPend = 1
    MaxAgregadas = 1
    MaxEventos = 2
    MaxVidas = 2
INVARIANTS
    TypeOK
    
    VistaAlDia
    ArchivoSeRecarga
CHECK_DEADLOCK FALSE
