SPECIFICATION Spec
CONSTANTS
    ana = ana  beto = beto  otro = otro
    Direcciones = {ana, beto}
    Destinos = {ana, beto}
    Iniciales = {ana}
    Base <- BaseMC
    Ajenas <- AjenasMC
    Importes = {1}
    Costos = {1}
    MaxBloques = 3
    MaxTransferencias = 1
    MaxPercances = 1
INVARIANTS
    TypeOK
    UtxosConvergen
    SaldosAlDia
    ConfirmadaSeAnota
    ArchivoAlDia
CHECK_DEADLOCK FALSE
