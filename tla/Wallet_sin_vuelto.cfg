SPECIFICATION Spec
CONSTANTS
    ana = ana  beto = beto  otro = otro
    Direcciones = {ana, beto}
    Destinos = {ana, beto}
    Iniciales = {ana}
    Base <- BaseMC
    Ajenas <- AjenasMC
    Importes = {1}
    Costos = {1}
    MaxBloques = 2
    MaxTransferencias = 1
    MaxPercances = 0
INVARIANT EnviadaSeConfirma
CHECK_DEADLOCK FALSE
