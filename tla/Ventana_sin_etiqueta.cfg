SPECIFICATION Spec
CONSTANTS
    Montos <- MontosMC
    Aliases <- AliasesMC
    Etiquetas <- SinEtiquetaMC
    Direcciones <- UnaDireccionMC
    Pagos <- PagosMC
    Cortas <- CortasMC
    Iniciales <- InicialesMC
    Ajenas <- AjenasMC
    Propias <- PropiasMC
    NombresBloques <- UnBloqueMC
    CantPend = 1
    MaxAgregadas = 0
    MaxEventos = 2
    MaxVidas = 2
INVARIANTS
    SiHayArchivoSeCarga
CHECK_DEADLOCK FALSE
