--------------------------- MODULE Server_proofs ---------------------------
(***************************************************************************)
(* Proofs about Server, for every value of its constants: that it          *)
(* implements Difusion, that its variables keep their types, and that what *)
(* it obtained is delivered to whoever asks for it.                        *)
(***************************************************************************)
EXTENDS Server, TLAPS

\* The types of what the announcements depend on.
TipoInv ==
    /\ actual \in Items \cup {Nada} /\ (oyente \in {"crear", "escribir", "avisar"} => actual \in Items)
    /\ difundidos \in Seq(Items) /\ tomados \in Nat /\ tomados <= Len(difundidos)
    /\ pendientes \subseteq Conexiones /\ caidos \subseteq Conexiones
    /\ oidos \in [Conexiones -> SUBSET Nat]
    /\ registro \in [Direcciones -> Conexiones \cup {Nada}]
    /\ cliente \in [Conexiones -> {"afuera", "conectado", "cerrado"}]
    /\ direccion \in [Conexiones -> Direcciones \cup {Nada}]
    /\ pc \in [Conexiones -> PasosHandler]
    /\ respuesta = [c \in Conexiones |-> respuesta[c]]

\* Who is in the register came from its address and was accepted, at once; a round
\* writes to who is in it, and only who is gone is marked to leave it.
RegistroInv ==
    /\ \A d \in Direcciones : registro[d] # Nada =>
          direccion[registro[d]] = d /\ cliente[registro[d]] # "afuera" /\ pc[registro[d]] # "nada"
    /\ \A c \in Conexiones :
          /\ cliente[c] = "afuera" => pc[c] = "nada"
          /\ cliente[c] # "afuera" => direccion[c] \in Direcciones
          /\ pc[c] = "nada" => oidos[c] = {} /\ respuesta[c] = Nada
    /\ ~avisando => pendientes = {} /\ caidos = {}
    /\ avisando => tomados >= 1
    /\ pendientes \subseteq Range(registro)
    /\ \A c \in caidos : cliente[c] = "cerrado"

AvisosInv == TipoInv /\ RegistroInv

LEMMA AvisosInvInit == Init => AvisosInv
<1> SUFFICES ASSUME Init PROVE AvisosInv
  OBVIOUS
<1>1. TipoInv
  BY DEF Init, TipoInv, PasosHandler
<1>2. RegistroInv
  BY DEF Init, RegistroInv
<1> QED BY <1>1, <1>2 DEF AvisosInv

LEMMA EnRango == \A r, x : x \in Range(r) <=> \E d \in DOMAIN r : r[d] = x
  BY DEF Range

\* The steps of the listener, and those of a handler that has been accepted, touch nothing of
\* this but the item at hand, the announcements and the handler's own program counter.
OtroPaso(c) ==
    \/ Saludar(c) \/ ClienteSeFue(c) \/ TomarGetheaders(c) \/ TomarGetdata(c) \/ TomarIlegible(c)
    \/ Ignorar(c) \/ LeerDesfasado(c) \/ ArmarHeaders(c) \/ BuscarItem(c) \/ Responder(c)
    \/ PerderRespuesta(c)

LEMMA OtroPasoDeja ==
    ASSUME AvisosInv, NEW c \in Conexiones, OtroPaso(c)
    PROVE  /\ UNCHANGED <<oyente, actual, difundidos, avisos, registro, clientes>>
           /\ pc[c] # "nada"
           /\ pc' = pc \/ \E p \in PasosHandler \ {"nada"} : pc' = [pc EXCEPT ![c] = p]
           /\ respuesta' = respuesta \/ \E m : respuesta' = [respuesta EXCEPT ![c] = m]
<1> USE DEF Avanzar, Responde, accesos, PasosHandler
<1>1. CASE Saludar(c) \/ ClienteSeFue(c) \/ LeerDesfasado(c)
  BY <1>1 DEF Saludar, ClienteSeFue, LeerDesfasado, cadena, anuncios
<1>2. CASE TomarGetheaders(c) \/ TomarGetdata(c) \/ TomarIlegible(c) \/ Ignorar(c)
  BY <1>2 DEF TomarGetheaders, TomarGetdata, TomarIlegible, Ignorar, Tomar, cadena, anuncios
<1>3. CASE ArmarHeaders(c) \/ BuscarItem(c)
  BY <1>3 DEF ArmarHeaders, BuscarItem, cadena, anuncios
<1>4. CASE Responder(c) \/ PerderRespuesta(c)
  <2>1. PICK p \in {"datos", "leer", "fin"} : Terminar(c, p)
    BY <1>4 DEF Responder, PerderRespuesta, Siguiente
  <2>2. /\ UNCHANGED <<oyente, actual, difundidos, avisos, registro, clientes>>
        /\ pc' = [pc EXCEPT ![c] = p] /\ respuesta' = [respuesta EXCEPT ![c] = Nada]
    BY <2>1 DEF Terminar, anuncios
  <2>3. pc[c] # "nada"
    BY <1>4 DEF Responder, PerderRespuesta, AvisosInv, RegistroInv
  <2> QED BY <2>2, <2>3
<1> QED BY <1>1, <1>2, <1>3, <1>4 DEF OtroPaso

LEMMA TipoInvNext == AvisosInv /\ [Next]_vars => TipoInv'
<1> SUFFICES ASSUME AvisosInv, [Next]_vars PROVE TipoInv'
  OBVIOUS
<1> USE DEF AvisosInv, TipoInv, PasosHandler
<1>1. CASE Notificar
  <2>1. difundidos' = Append(difundidos, actual) /\ actual \in Items
    BY <1>1 DEF Notificar
  <2>2. difundidos' \in Seq(Items) /\ tomados <= Len(difundidos')
    BY <2>1
  <2> QED BY <1>1, <2>2 DEF Notificar, anuncios, avisos, accesos, clientes, handler
<1>2. CASE LlegaBloque \/ LlegaTxn \/ NoSeObtiene
  BY <1>2, ServerAssumption DEF LlegaBloque, LlegaTxn, NoSeObtiene, Obtiene, Items, anuncios, avisos, accesos, clientes, handler
<1>3. CASE CrearArchivo \/ EscribirBloque \/ FallaOyente
  BY <1>3 DEF CrearArchivo, EscribirBloque, FallaOyente, anuncios, avisos, accesos, clientes, handler
<1>4. CASE FallaAceptar
  BY <1>4 DEF FallaAceptar, cadena, anuncios, avisos, clientes, handler
<1>5. ASSUME NEW c \in Conexiones, Conectar(c) PROVE TipoInv'
  <2>1. PICK p \in Puertos[c] : direccion' = [direccion EXCEPT ![c] = p]
    BY <1>5 DEF Conectar
  <2>2. p \in Direcciones
    BY <2>1 DEF Direcciones
  <2> QED BY <1>5, <2>1, <2>2 DEF Conectar, cadena, anuncios, avisos, accesos, handler
<1>6. ASSUME NEW c \in Conexiones, Cerrar(c) PROVE TipoInv'
  BY <1>6 DEF Cerrar, cadena, anuncios, avisos, accesos, handler
<1>7. ASSUME NEW c \in Conexiones, Aceptar(c) PROVE TipoInv'
  BY <1>7 DEF Aceptar, Registrar, cadena, anuncios, avisos, clientes
<1>8. CASE TomarAviso
  <2>1. pendientes' \subseteq Conexiones
    BY <1>8, EnRango DEF TomarAviso
  <2> QED BY <1>8, <2>1 DEF TomarAviso, cadena, anuncios, accesos, clientes, handler
<1>9. CASE TerminarRonda
  BY <1>9 DEF TerminarRonda, cadena, anuncios, clientes, handler
<1>10. ASSUME NEW c \in Conexiones, EscribirAviso(c) \/ PerderAviso(c) PROVE TipoInv'
  BY <1>10 DEF EscribirAviso, PerderAviso, cadena, anuncios, accesos, clientes, handler
<1>11. ASSUME NEW c \in Conexiones, OtroPaso(c) PROVE TipoInv'
  BY <1>11, OtroPasoDeja DEF avisos, clientes
<1>12. CASE UNCHANGED vars
  BY <1>12 DEF vars, cadena, anuncios, avisos, accesos, clientes, handler
<1> QED
  BY <1>1, <1>2, <1>3, <1>4, <1>5, <1>6, <1>7, <1>8, <1>9, <1>10, <1>11, <1>12
  DEF Next, PasoOyente, PasoAvisos, PasoHandler, PasoRespuesta, OtroPaso

LEMMA RegistroInvNext == AvisosInv /\ [Next]_vars => RegistroInv'
<1> SUFFICES ASSUME AvisosInv, [Next]_vars PROVE RegistroInv'
  OBVIOUS
<1>t. TipoInv /\ TipoInv' /\ Nada \notin Conexiones
  BY TipoInvNext, ServerAssumption DEF AvisosInv
<1> USE DEF AvisosInv, RegistroInv
<1>1. CASE UNCHANGED <<registro, cliente, direccion, pc, respuesta, avisos>>
  BY <1>1 DEF avisos
<1>2. ASSUME NEW c \in Conexiones, Conectar(c) PROVE RegistroInv'
  <2>1. /\ UNCHANGED <<registro, pc, respuesta, tomados, pendientes, caidos, avisando, oidos>>
        /\ cliente[c] = "afuera" /\ cliente' = [cliente EXCEPT ![c] = "conectado"]
        /\ \E p \in Puertos[c] : direccion' = [direccion EXCEPT ![c] = p]
    BY <1>2 DEF Conectar, avisos, accesos, handler
  <2>2. pc[c] = "nada" /\ direccion'[c] \in Direcciones /\ cliente'[c] = "conectado"
    BY <1>t, <2>1 DEF TipoInv, Direcciones
  <2>3. \A d \in Conexiones : d # c => cliente'[d] = cliente[d] /\ direccion'[d] = direccion[d]
    BY <1>t, <2>1 DEF TipoInv
  <2>4. \A d \in Direcciones : registro[d] # Nada => registro[d] \in Conexiones /\ registro[d] # c
    BY <1>t, <2>2 DEF TipoInv
  <2>5. c \notin caidos
    BY <2>1
  <2> QED BY <1>t, <2>1, <2>2, <2>3, <2>4, <2>5 DEF TipoInv
<1>3. ASSUME NEW c \in Conexiones, Cerrar(c) PROVE RegistroInv'
  <2>1. /\ UNCHANGED <<registro, direccion, pc, respuesta, tomados, pendientes, caidos, avisando, oidos>>
        /\ cliente[c] = "conectado" /\ cliente' = [cliente EXCEPT ![c] = "cerrado"]
    BY <1>3 DEF Cerrar, avisos, accesos, handler
  <2> QED BY <1>t, <2>1 DEF TipoInv
<1>4. ASSUME NEW c \in Conexiones, Aceptar(c) PROVE RegistroInv'
  <2>1. /\ UNCHANGED <<cliente, direccion, respuesta, tomados, pendientes, caidos, avisando, oidos>>
        /\ cliente[c] # "afuera" /\ pc' = [pc EXCEPT ![c] = "saludo"] /\ ~avisando
        /\ registro' = [registro EXCEPT ![direccion[c]] = IF @ = Nada THEN c ELSE @]
    BY <1>4 DEF Aceptar, Registrar, avisos, clientes
  <2>2. \A d \in Direcciones : registro'[d] = registro[d] \/ (d = direccion[c] /\ registro'[d] = c)
    BY <1>t, <2>1 DEF TipoInv
  <2>3. pc'[c] = "saludo" /\ \A d \in Conexiones : d # c => pc'[d] = pc[d]
    BY <1>t, <2>1 DEF TipoInv
  <2>4. pendientes' = {} /\ caidos' = {}
    BY <2>1
  <2>5. \A d \in Direcciones : registro'[d] # Nada =>
            direccion'[registro'[d]] = d /\ cliente'[registro'[d]] # "afuera" /\ pc'[registro'[d]] # "nada"
    BY <1>t, <2>1, <2>2, <2>3 DEF TipoInv
  <2> QED BY <1>t, <2>1, <2>3, <2>4, <2>5 DEF TipoInv
<1>5. CASE TomarAviso
  <2>1. /\ UNCHANGED <<registro, cliente, direccion, pc, respuesta, caidos, oidos>>
        /\ ~avisando /\ avisando' = TRUE /\ tomados' = tomados + 1
        /\ pendientes' = Range(registro) \ {Nada}
    BY <1>5 DEF TomarAviso, accesos, clientes, handler
  <2> QED BY <1>t, <2>1 DEF TipoInv
<1>6. CASE TerminarRonda
  <2>1. /\ UNCHANGED <<cliente, direccion, pc, respuesta, tomados, pendientes, oidos>>
        /\ pendientes = {} /\ avisando' = FALSE /\ caidos' = {}
        /\ registro' = [d \in Direcciones |-> IF registro[d] \in caidos THEN Nada ELSE registro[d]]
    BY <1>6 DEF TerminarRonda, clientes, handler
  <2> QED BY <1>t, <2>1 DEF TipoInv
<1>7. ASSUME NEW c \in Conexiones, EscribirAviso(c) \/ PerderAviso(c) PROVE RegistroInv'
  <2>1. /\ UNCHANGED <<registro, cliente, direccion, pc, respuesta, tomados, avisando>>
        /\ c \in pendientes /\ pendientes' = pendientes \ {c}
        /\ \/ oidos' = [oidos EXCEPT ![c] = @ \cup {tomados}] /\ caidos' = caidos
           \/ oidos' = oidos /\ cliente[c] = "cerrado" /\ caidos' \in {caidos, caidos \cup {c}}
    BY <1>7 DEF EscribirAviso, PerderAviso, accesos, clientes, handler
  <2>2. c \in Range(registro) /\ pc[c] # "nada" /\ avisando
    BY <1>t, <2>1, EnRango DEF TipoInv
  <2>3. \A d \in Conexiones : d # c => oidos'[d] = oidos[d]
    BY <1>t, <2>1 DEF TipoInv
  <2> QED BY <1>t, <2>1, <2>2, <2>3 DEF TipoInv
<1>8. ASSUME NEW c \in Conexiones, OtroPaso(c) PROVE RegistroInv'
  <2>1. /\ UNCHANGED <<registro, cliente, direccion, tomados, pendientes, caidos, avisando, oidos>>
        /\ pc[c] # "nada"
        /\ pc' = pc \/ \E p \in PasosHandler \ {"nada"} : pc' = [pc EXCEPT ![c] = p]
        /\ respuesta' = respuesta \/ \E m : respuesta' = [respuesta EXCEPT ![c] = m]
    BY <1>8, OtroPasoDeja DEF avisos, clientes
  <2>2. pc'[c] # "nada" /\ \A d \in Conexiones : d # c => pc'[d] = pc[d]
    BY <1>t, <2>1 DEF TipoInv
  <2>3. \A d \in Conexiones : d # c => respuesta'[d] = respuesta[d]
    BY <1>t, <2>1 DEF TipoInv
  <2> QED BY <1>t, <2>1, <2>2, <2>3 DEF TipoInv
<1>9. \/ \E c \in Conexiones : \/ Conectar(c) \/ Cerrar(c) \/ Aceptar(c) \/ OtroPaso(c)
                                \/ EscribirAviso(c) \/ PerderAviso(c)
      \/ TomarAviso \/ TerminarRonda
      \/ UNCHANGED <<registro, cliente, direccion, pc, respuesta, avisos>>
  BY DEF Next, PasoOyente, PasoAvisos, PasoHandler, PasoRespuesta, OtroPaso, LlegaBloque, LlegaTxn,
         NoSeObtiene, Obtiene, anuncios, CrearArchivo, EscribirBloque, Notificar, FallaOyente, FallaAceptar, vars, accesos, clientes,
         handler
<1> QED BY <1>1, <1>2, <1>3, <1>4, <1>5, <1>6, <1>7, <1>8, <1>9

LEMMA AvisosSiempre == Spec => []AvisosInv
<1>1. AvisosInv /\ [Next]_vars => AvisosInv'
  BY TipoInvNext, RegistroInvNext DEF AvisosInv
<1> QED BY AvisosInvInit, <1>1, PTL DEF Spec
-----------------------------------------------------------------------------
LEMMA RefinaInit == Init => Abstracta!Init
<1> SUFFICES ASSUME Init PROVE Abstracta!Init
  OBVIOUS
<1>1. \A c \in Conexiones : ~Escucha(c)
  BY EnRango DEF Init, Escucha
<1> QED BY <1>1 DEF Init, Abstracta!Init

\* A client that is in the register.
Registrado(c) == \E d \in Direcciones : registro[d] = c

Proximo(c) == IF ~Escucha(c) THEN 0 ELSE IF c \in pendientes THEN tomados ELSE tomados + 1

LEMMA RefinaNext ==
    AvisosInv /\ AvisosInv' /\ [Next]_vars => Abstracta!Next \/ UNCHANGED Abstracta!varsDifusion
<1> SUFFICES ASSUME AvisosInv, AvisosInv', [Next]_vars
             PROVE  Abstracta!Next \/ UNCHANGED Abstracta!varsDifusion
  OBVIOUS
<1> DEFINE proximo == [c \in Conexiones |-> Proximo(c)]
<1>t. TipoInv /\ TipoInv' /\ RegistroInv /\ RegistroInv' /\ Nada \notin Conexiones
  BY ServerAssumption DEF AvisosInv
<1>r. \A c \in Conexiones : /\ Escucha(c) <=> Registrado(c) /\ cliente[c] = "conectado"
                            /\ Escucha(c)' <=> Registrado(c)' /\ cliente'[c] = "conectado"
  BY <1>t, EnRango DEF TipoInv, Escucha, Registrado
\* A step that changes what no client is due.
<1>s. ASSUME UNCHANGED <<difundidos, oidos>>, \A c \in Conexiones : Proximo(c)' = Proximo(c)
      PROVE  UNCHANGED Abstracta!varsDifusion
  <2>1. proximo' = proximo
    BY <1>s
  <2> QED BY <1>s, <2>1 DEF Abstracta!varsDifusion, Proximo
<1>1. CASE UNCHANGED <<registro, cliente, difundidos, avisos>>
  <2>1. \A c \in Conexiones : Proximo(c)' = Proximo(c)
    BY <1>1 DEF Proximo, Escucha, avisos
  <2> QED BY <1>1, <1>s, <2>1 DEF avisos
<1>2. CASE Notificar
  <2>1. /\ difundidos' = Append(difundidos, actual) /\ actual \in Items
        /\ UNCHANGED <<registro, cliente, tomados, pendientes, oidos>>
    BY <1>2, <1>t DEF Notificar, avisos, accesos, clientes, TipoInv
  <2>2. proximo' = proximo
    BY <2>1 DEF Proximo, Escucha
  <2> QED BY <2>1, <2>2 DEF Abstracta!Next, Abstracta!Publicar, Proximo
<1>3. ASSUME NEW c \in Conexiones, Conectar(c) PROVE UNCHANGED Abstracta!varsDifusion
  <2>1. /\ UNCHANGED <<registro, difundidos, tomados, pendientes, oidos>>
        /\ cliente[c] = "afuera" /\ cliente' = [cliente EXCEPT ![c] = "conectado"]
    BY <1>3 DEF Conectar, avisos, anuncios, accesos
  <2>2. ~Registrado(c) /\ \A d \in Conexiones : Registrado(d)' <=> Registrado(d)
    BY <1>t, <2>1 DEF RegistroInv, Registrado, TipoInv
  <2>3. \A d \in Conexiones : d # c => cliente'[d] = cliente[d]
    BY <1>t, <2>1 DEF TipoInv
  <2>4. \A d \in Conexiones : Escucha(d)' <=> Escucha(d)
    BY <1>r, <2>2, <2>3
  <2> QED BY <1>s, <2>1, <2>4 DEF Proximo
<1>4. ASSUME NEW c \in Conexiones, Cerrar(c) PROVE Abstracta!Next
  <2>1. /\ UNCHANGED <<registro, difundidos, tomados, pendientes, oidos>>
        /\ cliente' = [cliente EXCEPT ![c] = "cerrado"]
    BY <1>4 DEF Cerrar, avisos, anuncios, accesos
  <2>2. \A d \in Conexiones : d # c => (Escucha(d)' <=> Escucha(d))
    BY <1>t, <1>r, <2>1 DEF TipoInv, Registrado
  <2>3. ~Escucha(c)'
    BY <1>t, <1>r, <2>1 DEF TipoInv
  <2>4. proximo' = [proximo EXCEPT ![c] = 0]
    BY <2>1, <2>2, <2>3 DEF Proximo
  <2> QED BY <2>1, <2>4 DEF Abstracta!Next, Abstracta!Irse, Proximo
<1>5. ASSUME NEW c \in Conexiones, Aceptar(c) PROVE Abstracta!Next \/ UNCHANGED Abstracta!varsDifusion
  <2>1. /\ UNCHANGED <<cliente, difundidos, tomados, pendientes, oidos>>
        /\ registro' = [registro EXCEPT ![direccion[c]] = IF @ = Nada THEN c ELSE @]
        /\ pc[c] = "nada" /\ cliente[c] # "afuera" /\ ~avisando
    BY <1>5 DEF Aceptar, Registrar, anuncios, avisos, clientes
  <2>2. \A d \in Conexiones : d # c => (Registrado(d)' <=> Registrado(d))
    BY <1>t, <2>1 DEF TipoInv, Registrado
  <2>3. oidos[c] = {} /\ ~Registrado(c) /\ pendientes = {}
    BY <1>t, <2>1 DEF RegistroInv, Registrado
  <2>4. ~Escucha(c) /\ \A d \in Conexiones : d # c => (Escucha(d)' <=> Escucha(d))
    BY <1>r, <2>1, <2>2, <2>3
  <2>5. CASE Escucha(c)'
    <3>1. proximo[c] = 0 /\ tomados + 1 \in 1..Len(difundidos) + 1
      BY <1>t, <2>4 DEF Proximo, TipoInv
    <3>2. proximo' = [proximo EXCEPT ![c] = tomados + 1]
      BY <2>1, <2>3, <2>4, <2>5 DEF Proximo
    <3> QED BY <2>1, <2>3, <3>1, <3>2 DEF Abstracta!Next, Abstracta!Sumarse, Proximo
  <2>6. CASE ~Escucha(c)'
    <3>1. \A d \in Conexiones : Proximo(d)' = Proximo(d)
      BY <2>1, <2>4, <2>6 DEF Proximo
    <3> QED BY <1>s, <2>1, <3>1
  <2> QED BY <2>5, <2>6
<1>6. CASE TomarAviso
  <2>1. /\ UNCHANGED <<registro, cliente, difundidos, oidos>>
        /\ ~avisando /\ tomados' = tomados + 1 /\ pendientes' = Range(registro) \ {Nada}
    BY <1>6 DEF TomarAviso, anuncios, accesos, clientes
  <2>2. pendientes = {} /\ \A c \in Conexiones : Escucha(c) => c \in pendientes'
    BY <1>t, <2>1 DEF RegistroInv, Escucha
  <2>3. \A c \in Conexiones : Proximo(c)' = Proximo(c)
    BY <1>t, <2>1, <2>2 DEF Proximo, Escucha, TipoInv
  <2> QED BY <1>s, <2>1, <2>3
<1>7. ASSUME NEW c \in Conexiones, EscribirAviso(c) PROVE Abstracta!Next
  <2>1. /\ UNCHANGED <<registro, cliente, difundidos, tomados>>
        /\ c \in pendientes /\ cliente[c] = "conectado"
        /\ pendientes' = pendientes \ {c} /\ oidos' = [oidos EXCEPT ![c] = @ \cup {tomados}]
    BY <1>7 DEF EscribirAviso, anuncios, accesos, clientes
  <2>2. Escucha(c) /\ tomados \in 1..Len(difundidos)
    BY <1>t, <2>1 DEF RegistroInv, Escucha, TipoInv
  <2>3. \A d \in Conexiones : Escucha(d)' <=> Escucha(d)
    BY <2>1 DEF Escucha
  <2>4. proximo[c] = tomados
    BY <2>1, <2>2 DEF Proximo
  <2>5. proximo' = [proximo EXCEPT ![c] = @ + 1]
    BY <2>1, <2>2, <2>3, <2>4 DEF Proximo
  <2>6. proximo[c] \in DOMAIN difundidos
    BY <1>t, <2>2, <2>4 DEF TipoInv
  <2> QED BY <2>1, <2>4, <2>5, <2>6 DEF Abstracta!Next, Abstracta!Oir, Proximo
<1>8. ASSUME NEW c \in Conexiones, PerderAviso(c) PROVE UNCHANGED Abstracta!varsDifusion
  <2>1. /\ UNCHANGED <<registro, cliente, difundidos, tomados, oidos>>
        /\ cliente[c] = "cerrado" /\ pendientes' = pendientes \ {c}
    BY <1>8 DEF PerderAviso, anuncios, accesos, clientes
  <2>2. \A d \in Conexiones : Proximo(d)' = Proximo(d)
    BY <2>1 DEF Proximo, Escucha
  <2> QED BY <1>s, <2>1, <2>2
<1>9. CASE TerminarRonda
  <2>1. /\ UNCHANGED <<cliente, difundidos, tomados, pendientes, oidos>>
        /\ registro' = [d \in Direcciones |-> IF registro[d] \in caidos THEN Nada ELSE registro[d]]
    BY <1>9 DEF TerminarRonda, anuncios, clientes
  <2>2. \A c \in Conexiones : cliente[c] = "conectado" => c \notin caidos
    BY <1>t DEF RegistroInv
  <2>3. \A c \in Conexiones : cliente[c] = "conectado" => (Registrado(c)' <=> Registrado(c))
    BY <1>t, <2>1, <2>2 DEF Registrado
  <2>4. \A c \in Conexiones : Escucha(c)' <=> Escucha(c)
    BY <1>r, <2>1, <2>3
  <2>5. \A c \in Conexiones : Proximo(c)' = Proximo(c)
    BY <2>1, <2>4 DEF Proximo
  <2> QED BY <1>s, <2>1, <2>5
<1>10. ASSUME NEW c \in Conexiones, OtroPaso(c) PROVE UNCHANGED <<registro, cliente, difundidos, avisos>>
  BY <1>10, OtroPasoDeja DEF clientes, AvisosInv
<1>11. \/ \E c \in Conexiones : \/ Conectar(c) \/ Cerrar(c) \/ Aceptar(c) \/ OtroPaso(c)
                                 \/ EscribirAviso(c) \/ PerderAviso(c)
       \/ Notificar \/ TomarAviso \/ TerminarRonda
       \/ UNCHANGED <<registro, cliente, difundidos, avisos>>
  BY DEF Next, PasoOyente, PasoAvisos, PasoHandler, PasoRespuesta, OtroPaso, LlegaBloque, LlegaTxn,
         NoSeObtiene, Obtiene, anuncios, CrearArchivo, EscribirBloque, FallaOyente, FallaAceptar, vars, accesos, clientes
<1> QED BY <1>1, <1>2, <1>3, <1>4, <1>5, <1>6, <1>7, <1>8, <1>9, <1>10, <1>11

\* The server implements Difusion: whoever is registered hears of every item from
\* then on, in order and once, whatever the other clients and the threads do.
THEOREM Refinamiento == Spec => Refina
  BY AvisosSiempre, RefinaInit, RefinaNext, PTL DEF Spec, Refina, Abstracta!Spec
-----------------------------------------------------------------------------
(* The types of the rest. *)

\* TypeOK, with what the listener has at hand at each step and the functions that
\* TypeOK only gives point by point.
TipoTodo ==
    /\ TypeOK
    /\ pedido = [c \in Conexiones |-> pedido[c]]
    /\ respuesta = [c \in Conexiones |-> respuesta[c]]
    /\ oyente \in {"crear", "escribir"} => actual \in Items /\ recibido \in Bloques
    /\ oyente = "avisar" => actual \in Items

LEMMA MemoriaCabe ==
    ASSUME NEW m \in Seq(Txns), Len(m) <= Capacidad, NEW t \in Txns
    PROVE  Recordar(m, t) \in Seq(Txns) /\ Len(Recordar(m, t)) <= Capacidad
<1>1. Capacidad \in Nat /\ Capacidad >= 1
  BY ServerAssumption
<1>2. CASE Len(m) = Capacidad
  <2>1. Tail(m) \in Seq(Txns) /\ Len(Tail(m)) = Len(m) - 1
    BY <1>1, <1>2
  <2>2. Recordar(m, t) = Append(Tail(m), t)
    BY <1>2 DEF Recordar
  <2> QED BY <1>1, <1>2, <2>1, <2>2
<1>3. CASE Len(m) # Capacidad
  <2>1. Recordar(m, t) = Append(m, t)
    BY <1>3 DEF Recordar
  <2> QED BY <1>1, <1>3, <2>1
<1> QED BY <1>2, <1>3

LEMMA TipoTodoInit == Init => TipoTodo
<1> SUFFICES ASSUME Init PROVE TipoTodo
  OBVIOUS
<1>1. /\ headers \in Seq(Bloques) /\ memoria \in Seq(Txns) /\ Len(memoria) <= Capacidad
      /\ disco \in [Bloques -> {"no", "medio", "entero"}]
  BY ServerAssumption DEF Init
<1>2. /\ difundidos \in Seq(Items) /\ tomados \in 0..Len(difundidos)
      /\ logrados \subseteq DOMAIN difundidos /\ recibidas \in Seq(Txns)
      /\ oidos \in [Conexiones -> SUBSET (1..tomados)]
  BY DEF Init
<1>3. /\ registro \in [Direcciones -> Conexiones \cup {Nada}]
      /\ cliente \in [Conexiones -> {"afuera", "conectado", "cerrado"}]
      /\ direccion \in [Conexiones -> Direcciones \cup {Nada}]
  BY DEF Init
<1>4. /\ pc \in [Conexiones -> PasosHandler] /\ dichos \in [Conexiones -> 0..MaxMensajes]
      /\ conoce \in [Conexiones -> SUBSET Items]
      /\ contestados \in [Conexiones -> Nat] /\ desfasado \in [Conexiones -> BOOLEAN]
      /\ \A c \in Conexiones : pedido[c] \in Mensajes[c] \cup {Nada} /\ respuesta[c] = Nada
  BY ServerAssumption DEF Init, PasosHandler
<1>5. TypeOK
  BY <1>1, <1>2, <1>3, <1>4 DEF Init, TypeOK
<1> QED BY <1>5 DEF Init, TipoTodo

LEMMA LoObtenido ==
    ASSUME NEW S, Obtiene(S)
    PROVE  /\ actual' \in Items /\ recibido' \in S /\ recibido' \in Items \cup {Nada}
           /\ actual' \in Bloques \/ actual' \in Txns
<1>1. PICK e \in Entregas : e[2] \in S /\ actual' = e[1] /\ recibido' = e[2]
  BY DEF Obtiene
<1>2. /\ e[1] \in Bloques \cup Txns /\ e[2] \in Bloques \cup Txns \cup {Nada}
  BY <1>1, ServerAssumption
<1> QED BY <1>1, <1>2 DEF Items

\* The listener, and whoever lets connections in.
LEMMA TipoDelOyente ==
    ASSUME TipoTodo, LlegaBloque \/ LlegaTxn \/ NoSeObtiene \/ PasoOyente \/ FallaOyente \/ FallaAceptar
    PROVE  TipoTodo'
<1> USE DEF TipoTodo, TypeOK, accesos, anuncios, avisos, clientes, handler, cadena
<1>1. CASE LlegaBloque
  <2>1. Obtiene(Bloques) /\ headers' = Append(headers, recibido')
    BY <1>1 DEF LlegaBloque
  <2>2. headers' \in Seq(Bloques) /\ actual' \in Items /\ recibido' \in Bloques /\ recibido' \in Items
    BY <2>1, LoObtenido DEF Items
  <2> QED BY <1>1, <2>2 DEF LlegaBloque
<1>2. CASE LlegaTxn
  <2>1. /\ Obtiene(Txns) /\ memoria' = Recordar(memoria, recibido')
        /\ recibidas' = Append(recibidas, recibido')
    BY <1>2 DEF LlegaTxn
  <2>2. /\ memoria' \in Seq(Txns) /\ Len(memoria') <= Capacidad /\ actual' \in Items
        /\ recibidas' \in Seq(Txns) /\ recibido' \in Items
    BY <2>1, LoObtenido, MemoriaCabe DEF Items
  <2> QED BY <1>2, <2>2 DEF LlegaTxn
<1>3. CASE CrearArchivo \/ EscribirBloque
  BY <1>3 DEF CrearArchivo, EscribirBloque, Items
<1>4. CASE Notificar
  <2>1. actual \in Items
    BY <1>4 DEF Notificar
  <2>2. /\ difundidos' \in Seq(Items) /\ tomados' \in 0..Len(difundidos')
        /\ DOMAIN difundidos' = 1..Len(difundidos) + 1 /\ DOMAIN difundidos = 1..Len(difundidos)
        /\ Len(difundidos) \in Nat
    BY <1>4, <2>1 DEF Notificar
  <2>3. logrados' \subseteq DOMAIN difundidos'
    BY <1>4, <2>2 DEF Notificar
  <2> QED BY <1>4, <2>2, <2>3 DEF Notificar
<1>5. CASE FallaOyente \/ FallaAceptar
  BY <1>5 DEF FallaOyente, FallaAceptar
<1>6. CASE NoSeObtiene
  <2>1. actual' \in Items /\ recibido' \in Items \cup {Nada}
    BY <1>6, LoObtenido DEF NoSeObtiene
  <2> QED BY <1>6, <2>1 DEF NoSeObtiene
<1> QED BY <1>1, <1>2, <1>3, <1>4, <1>5, <1>6 DEF PasoOyente

LEMMA TipoDeAvisos ==
    ASSUME TipoTodo, AvisosInv, PasoAvisos
    PROVE  TipoTodo'
<1> USE DEF TipoTodo, TypeOK, accesos, clientes, handler, cadena, anuncios
<1>1. CASE TomarAviso
  <2>1. tomados' = tomados + 1 /\ tomados' \in 0..Len(difundidos) /\ tomados \in Nat
    BY <1>1 DEF TomarAviso
  <2>2. oidos' \in [Conexiones -> SUBSET (1..tomados')]
    BY <1>1, <2>1 DEF TomarAviso
  <2>3. pendientes' \subseteq Conexiones
    BY <1>1 DEF TomarAviso, Range
  <2> QED BY <1>1, <2>1, <2>2, <2>3 DEF TomarAviso
<1>2. CASE TerminarRonda
  <2>1. registro' \in [Direcciones -> Conexiones \cup {Nada}]
    BY <1>2 DEF TerminarRonda
  <2> QED BY <1>2, <2>1 DEF TerminarRonda
<1>3. ASSUME NEW c \in Conexiones, EscribirAviso(c) PROVE TipoTodo'
  <2>1. tomados \in 1..tomados
    BY <1>3 DEF AvisosInv, RegistroInv, EscribirAviso
  <2>2. oidos' \in [Conexiones -> SUBSET (1..tomados)]
    BY <1>3, <2>1 DEF EscribirAviso
  <2> QED BY <1>3, <2>2 DEF EscribirAviso
<1>4. ASSUME NEW c \in Conexiones, PerderAviso(c) PROVE TipoTodo'
  BY <1>4 DEF PerderAviso
<1> QED BY <1>1, <1>2, <1>3, <1>4 DEF PasoAvisos

LEMMA TipoDeConexion ==
    ASSUME TipoTodo, NEW c \in Conexiones, Conectar(c) \/ Cerrar(c) \/ Aceptar(c)
    PROVE  TipoTodo'
<1> USE DEF TipoTodo, TypeOK, accesos, avisos, handler, cadena, anuncios
<1>1. CASE Conectar(c)
  <2>1. PICK p \in Puertos[c] : direccion' = [direccion EXCEPT ![c] = p]
    BY <1>1 DEF Conectar
  <2>2. direccion' \in [Conexiones -> Direcciones \cup {Nada}]
    BY <2>1 DEF Direcciones
  <2>3. cliente' \in [Conexiones -> {"afuera", "conectado", "cerrado"}]
    BY <1>1 DEF Conectar
  <2> QED BY <1>1, <2>2, <2>3 DEF Conectar
<1>2. CASE Cerrar(c)
  <2>1. cliente' \in [Conexiones -> {"afuera", "conectado", "cerrado"}]
    BY <1>2 DEF Cerrar
  <2> QED BY <1>2, <2>1 DEF Cerrar
<1>3. CASE Aceptar(c)
  <2>1. registro' \in [Direcciones -> Conexiones \cup {Nada}]
    BY <1>3 DEF Aceptar, Registrar
  <2>2. pc' \in [Conexiones -> PasosHandler]
    BY <1>3 DEF Aceptar, PasosHandler
  <2> QED BY <1>3, <2>1, <2>2 DEF Aceptar, clientes
<1> QED BY <1>1, <1>2, <1>3

\* What a handler writes is one of the answers.
Respuestas == {"headers", "block", "tx", "notfound"}

LEMMA TipoDeRespuesta ==
    ASSUME TipoTodo, NEW c \in Conexiones, NEW m, m = Nada \/ m.tipo \in Respuestas, Responde(c, m)
    PROVE  /\ respuesta' = [d \in Conexiones |-> respuesta'[d]]
           /\ \A d \in Conexiones : respuesta'[d] = Nada \/ respuesta'[d].tipo \in Respuestas
<1>1. /\ respuesta = [d \in Conexiones |-> respuesta[d]]
      /\ \A d \in Conexiones : respuesta[d] = Nada \/ respuesta[d].tipo \in Respuestas
  BY DEF TipoTodo, TypeOK, Respuestas
<1>2. respuesta' = [d \in Conexiones |-> IF d = c THEN m ELSE respuesta[d]]
  BY <1>1 DEF Responde
<1> QED BY <1>1, <1>2

LEMMA TipoDelPaso ==
    ASSUME TipoTodo, NEW c \in Conexiones, NEW p \in PasosHandler, Avanzar(c, p)
    PROVE  pc' \in [Conexiones -> PasosHandler]
  BY DEF TipoTodo, TypeOK, Avanzar

\* A handler that reads.
LEMMA TipoDeLeer ==
    ASSUME TipoTodo, NEW c \in Conexiones,
           \/ Saludar(c) \/ ClienteSeFue(c) \/ TomarGetheaders(c) \/ TomarGetdata(c)
           \/ TomarIlegible(c) \/ Ignorar(c) \/ LeerDesfasado(c)
    PROVE  TipoTodo'
<1> USE DEF TipoTodo, TypeOK, accesos, avisos, clientes, cadena, anuncios
<1>1. CASE Saludar(c) \/ ClienteSeFue(c)
  <2>1. pc' \in [Conexiones -> PasosHandler]
    BY <1>1, TipoDelPaso DEF Saludar, ClienteSeFue, PasosHandler
  <2> QED BY <1>1, <2>1 DEF Saludar, ClienteSeFue
<1>2. ASSUME Tomar(c) PROVE dichos' \in [Conexiones -> 0..MaxMensajes]
  <2>1. dichos[c] + 1 \in 0..MaxMensajes
    BY <1>2, ServerAssumption DEF Tomar
  <2> QED BY <1>2, <2>1 DEF Tomar
<1>3. CASE TomarGetheaders(c) \/ TomarIlegible(c)
  <2>1. pc' \in [Conexiones -> PasosHandler]
    BY <1>3, TipoDelPaso DEF TomarGetheaders, TomarIlegible, PasosHandler
  <2>2. /\ Tomar(c) /\ dichos' \in [Conexiones -> 0..MaxMensajes]
        /\ UNCHANGED <<pedido, conoce, desfasado>>
    BY <1>2, <1>3 DEF TomarGetheaders, TomarIlegible
  <2> QED BY <2>1, <2>2 DEF Tomar
<1>4. CASE TomarGetdata(c)
  <2>1. pc' \in [Conexiones -> PasosHandler]
    BY <1>4, TipoDelPaso DEF TomarGetdata, PasosHandler
  <2>2. PICK m \in Mensajes[c] : /\ pedido' = [pedido EXCEPT ![c] = m]
                                 /\ conoce' = [conoce EXCEPT ![c] = Oido(c) \cap Range(m.items)]
    BY <1>4 DEF TomarGetdata
  <2>3. Oido(c) \subseteq Items
    BY DEF Oido
  <2>4. conoce' \in [Conexiones -> SUBSET Items]
    BY <2>2, <2>3
  <2>5. /\ pedido' = [d \in Conexiones |-> pedido'[d]]
        /\ \A d \in Conexiones : pedido'[d] \in Mensajes[d] \cup {Nada}
    <3>1. pedido' = [d \in Conexiones |-> IF d = c THEN m ELSE pedido[d]]
      BY <2>2
    <3> QED BY <3>1
  <2> QED BY <1>2, <1>4, <2>1, <2>4, <2>5 DEF TomarGetdata, Tomar
<1>5. CASE Ignorar(c)
  <2>1. PICK m \in Mensajes[c] : m.tipo = "otro" /\ desfasado' = [desfasado EXCEPT ![c] = m.carga]
    BY <1>5 DEF Ignorar
  <2>2. m.carga \in BOOLEAN
    BY <2>1, ServerAssumption
  <2>3. desfasado' \in [Conexiones -> BOOLEAN]
    BY <2>1, <2>2
  <2> QED BY <1>2, <1>5, <2>3 DEF Ignorar, Tomar
<1>6. CASE LeerDesfasado(c)
  <2>1. pc' \in [Conexiones -> PasosHandler] /\ desfasado' \in [Conexiones -> BOOLEAN]
    BY <1>6, TipoDelPaso DEF LeerDesfasado, PasosHandler
  <2> QED BY <1>6, <2>1 DEF LeerDesfasado
<1> QED BY <1>1, <1>3, <1>4, <1>5, <1>6

\* A handler that answers.
LEMMA TipoDeResponder ==
    ASSUME TipoTodo, NEW c \in Conexiones, PasoRespuesta(c)
    PROVE  TipoTodo'
<1> USE DEF TipoTodo, TypeOK, accesos, avisos, clientes, cadena, anuncios
<1>1. CASE ArmarHeaders(c)
  <2> DEFINE m == [tipo |-> "headers", item |-> Nada]
  <2>1. pc' \in [Conexiones -> PasosHandler]
    BY <1>1, TipoDelPaso DEF ArmarHeaders, PasosHandler
  <2>2. m.tipo \in Respuestas /\ Responde(c, m)
    BY <1>1 DEF ArmarHeaders, Respuestas
  <2>3. /\ respuesta' = [d \in Conexiones |-> respuesta'[d]]
        /\ \A d \in Conexiones : respuesta'[d] = Nada \/ respuesta'[d].tipo \in Respuestas
    BY <2>2, TipoDeRespuesta
  <2> QED BY <1>1, <2>1, <2>3 DEF ArmarHeaders, Respuestas
<1>2. CASE BuscarItem(c)
  <2>1. PICK i : Responde(c, Contenido(i))
    BY <1>2 DEF BuscarItem
  <2>2. Contenido(i).tipo \in Respuestas
    BY DEF Contenido, Respuestas
  <2>3. /\ respuesta' = [d \in Conexiones |-> respuesta'[d]]
        /\ \A d \in Conexiones : respuesta'[d] = Nada \/ respuesta'[d].tipo \in Respuestas
    BY <2>1, <2>2, TipoDeRespuesta
  <2> QED BY <1>2, <2>3 DEF BuscarItem, Respuestas
<1>3. CASE Responder(c) \/ PerderRespuesta(c)
  <2>1. PICK p \in {"datos", "leer", "fin"} : Terminar(c, p)
    BY <1>3 DEF Responder, PerderRespuesta, Siguiente
  <2>2. pc' \in [Conexiones -> PasosHandler]
    BY <2>1, TipoDelPaso DEF Terminar, PasosHandler
  <2>3. /\ respuesta' = [d \in Conexiones |-> respuesta'[d]]
        /\ \A d \in Conexiones : respuesta'[d] = Nada \/ respuesta'[d].tipo \in Respuestas
    BY <2>1, TipoDeRespuesta DEF Terminar
  <2>4. contestados' \in [Conexiones -> Nat] /\ conoce' \in [Conexiones -> SUBSET Items]
    BY <2>1 DEF Terminar
  <2>5. /\ pedido' = [d \in Conexiones |-> pedido'[d]]
        /\ \A d \in Conexiones : pedido'[d] \in Mensajes[d] \cup {Nada}
    <3>1. pedido' = [pedido EXCEPT ![c] = IF p = "datos" THEN @ ELSE Nada]
      BY <2>1 DEF Terminar
    <3>2. pedido' = [d \in Conexiones |-> IF d = c /\ p # "datos" THEN Nada ELSE pedido[d]]
      BY <3>1
    <3> QED BY <3>2
  <2>6. candado' \in Conexiones \cup {"oyente", Nada}
    BY <2>1 DEF Terminar, Soltar
  <2> QED BY <2>1, <2>2, <2>3, <2>4, <2>5, <2>6 DEF Terminar, Respuestas
<1> QED BY <1>1, <1>2, <1>3 DEF PasoRespuesta

LEMMA TipoTodoNext == AvisosInv /\ TipoTodo /\ [Next]_vars => TipoTodo'
<1> SUFFICES ASSUME AvisosInv, TipoTodo, [Next]_vars PROVE TipoTodo'
  OBVIOUS
<1>1. CASE UNCHANGED vars
  BY <1>1 DEF TipoTodo, TypeOK, vars, cadena, anuncios, avisos, accesos, clientes, handler
<1>2. CASE LlegaBloque \/ LlegaTxn \/ NoSeObtiene \/ PasoOyente \/ FallaOyente \/ FallaAceptar
  BY <1>2, TipoDelOyente
<1>3. CASE PasoAvisos
  BY <1>3, TipoDeAvisos
<1>4. ASSUME NEW c \in Conexiones, Conectar(c) \/ Cerrar(c) \/ Aceptar(c) PROVE TipoTodo'
  BY <1>4, TipoDeConexion
<1>5. ASSUME NEW c \in Conexiones, PasoHandler(c) PROVE TipoTodo'
  BY <1>5, TipoDeLeer, TipoDeResponder DEF PasoHandler
<1> QED BY <1>1, <1>2, <1>3, <1>4, <1>5 DEF Next

LEMMA TiposSiempre == Spec => [](AvisosInv /\ TipoTodo)
<1>1. AvisosInv /\ TipoTodo /\ [Next]_vars => TipoTodo'
  BY TipoTodoNext
<1> QED BY AvisosSiempre, TipoTodoInit, <1>1, PTL DEF Spec
-----------------------------------------------------------------------------
(* What was obtained is delivered. *)

\* The memory holds the last transactions that came, in their order, as many as fit.
MemoriaInv ==
    /\ Len(memoria) <= Len(recibidas)
    /\ \A i \in 1..Len(memoria) : memoria[i] = recibidas[Len(recibidas) - Len(memoria) + i]
    /\ Len(memoria) = Capacidad \/ Len(memoria) = Len(recibidas)

\* A block is announced when its file is whole, and its file stays so.
BloquesInv ==
    /\ \A i \in logrados : difundidos[i] \in Bloques => disco[difundidos[i]] = "entero"
    /\ oyente = "avisar" /\ recibido \in Bloques => disco[recibido] = "entero"
    /\ \A c \in Conexiones : \A b \in conoce[c] \cap Bloques : disco[b] = "entero"

EntregaInv == AvisosInv /\ TipoTodo /\ MemoriaInv /\ BloquesInv

LEMMA Disjuntos == Bloques \cap Txns = {} /\ Nada \notin Items
  BY ServerAssumption DEF Items

\* Steps that leave the memory, and steps that leave the files.
LEMMA MemoriaDeja ==
    [Next]_vars => LlegaTxn \/ UNCHANGED <<memoria, recibidas>>
  BY DEF Next, PasoOyente, LlegaBloque, NoSeObtiene, CrearArchivo, EscribirBloque,
         Notificar, FallaOyente, FallaAceptar, PasoAvisos, TomarAviso, TerminarRonda, EscribirAviso,
         PerderAviso, Conectar, Cerrar, Aceptar, PasoHandler, PasoRespuesta, Saludar, ClienteSeFue,
         TomarGetheaders, TomarGetdata, TomarIlegible, Ignorar, Tomar, LeerDesfasado, ArmarHeaders,
         BuscarItem, Responder, PerderRespuesta, Terminar, vars, cadena, anuncios

LEMMA BloquesDeja ==
    [Next]_vars => \/ LlegaBloque \/ LlegaTxn \/ NoSeObtiene \/ CrearArchivo \/ EscribirBloque
                   \/ Notificar \/ FallaOyente
                   \/ UNCHANGED <<disco, oyente, recibido, difundidos, logrados>>
  BY DEF Next, PasoOyente, FallaAceptar, PasoAvisos, TomarAviso, TerminarRonda, EscribirAviso,
         PerderAviso, Conectar, Cerrar, Aceptar, PasoHandler, PasoRespuesta, Saludar, ClienteSeFue,
         TomarGetheaders, TomarGetdata, TomarIlegible, Ignorar, Tomar, LeerDesfasado, ArmarHeaders,
         BuscarItem, Responder, PerderRespuesta, Terminar, vars, cadena, anuncios

\* A transaction that arrives pushes out the oldest one.
LEMMA MemoriaPaso ==
    ASSUME EntregaInv, [Next]_vars
    PROVE  MemoriaInv'
<1>t. /\ memoria \in Seq(Txns) /\ recibidas \in Seq(Txns) /\ Len(memoria) <= Capacidad
      /\ Capacidad \in Nat /\ Capacidad >= 1 /\ MemoriaInv
      /\ Len(memoria) \in Nat /\ Len(recibidas) \in Nat
  BY ServerAssumption DEF EntregaInv, TipoTodo, TypeOK
<1>1. CASE UNCHANGED <<memoria, recibidas>>
  BY <1>t, <1>1 DEF MemoriaInv
<1>2. CASE LlegaTxn
  <2>1. PICK t \in Txns : memoria' = Recordar(memoria, t) /\ recibidas' = Append(recibidas, t)
    BY <1>2, LoObtenido DEF LlegaTxn
  <2>2. /\ Len(recibidas') = Len(recibidas) + 1 /\ recibidas'[Len(recibidas) + 1] = t
        /\ \A i \in 1..Len(recibidas) : recibidas'[i] = recibidas[i]
    BY <1>t, <2>1
  <2>3. CASE Len(memoria) = Capacidad
    <3>1. /\ Tail(memoria) \in Seq(Txns) /\ Len(Tail(memoria)) = Len(memoria) - 1
          /\ \A i \in 1..Len(memoria) - 1 : Tail(memoria)[i] = memoria[i + 1]
      BY <1>t, <2>3
    <3>2. memoria' = Append(Tail(memoria), t)
      BY <2>1, <2>3 DEF Recordar
    <3>3. /\ Len(memoria') = Len(memoria) /\ memoria'[Len(memoria)] = t
          /\ \A i \in 1..Len(memoria) - 1 : memoria'[i] = memoria[i + 1]
      BY <1>t, <2>3, <3>1, <3>2
    <3>4. ASSUME NEW i \in 1..Len(memoria')
          PROVE  memoria'[i] = recibidas'[Len(recibidas') - Len(memoria') + i]
      <4>1. CASE i = Len(memoria)
        BY <1>t, <2>2, <3>3, <4>1
      <4>2. CASE i # Len(memoria)
        <5>1. i \in 1..Len(memoria) - 1 /\ i + 1 \in 1..Len(memoria)
          BY <1>t, <3>3, <3>4, <4>2
        <5>2. memoria'[i] = recibidas[Len(recibidas) - Len(memoria) + (i + 1)]
          BY <1>t, <3>3, <5>1 DEF MemoriaInv
        <5>3. /\ Len(recibidas) - Len(memoria) + (i + 1) \in 1..Len(recibidas)
              /\ Len(recibidas') - Len(memoria') + i = Len(recibidas) - Len(memoria) + (i + 1)
          BY <1>t, <2>2, <3>3, <5>1 DEF MemoriaInv
        <5> QED BY <2>2, <5>2, <5>3
      <4> QED BY <4>1, <4>2
    <3> QED BY <1>t, <2>2, <2>3, <3>3, <3>4 DEF MemoriaInv
  <2>4. CASE Len(memoria) # Capacidad
    <3>1. memoria' = Append(memoria, t)
      BY <2>1, <2>4 DEF Recordar
    <3>2. /\ Len(memoria') = Len(memoria) + 1 /\ memoria'[Len(memoria) + 1] = t
          /\ \A i \in 1..Len(memoria) : memoria'[i] = memoria[i]
      BY <1>t, <3>1
    <3>3. Len(memoria) = Len(recibidas) /\ \A i \in 1..Len(memoria) : memoria[i] = recibidas[i]
      BY <1>t, <2>4 DEF MemoriaInv
    <3>4. \A i \in 1..Len(memoria') : memoria'[i] = recibidas'[i]
      BY <1>t, <2>2, <3>2, <3>3
    <3> QED BY <1>t, <2>2, <3>2, <3>3, <3>4 DEF MemoriaInv
  <2> QED BY <2>3, <2>4
<1> QED BY <1>1, <1>2, MemoriaDeja

\* What is remembered is what came lately.
LEMMA LoReciente ==
    ASSUME EntregaInv, NEW t \in Recientes
    PROVE  t \in Txns /\ t \in Range(memoria)
<1>t. /\ memoria \in Seq(Txns) /\ recibidas \in Seq(Txns) /\ Len(memoria) <= Capacidad
      /\ Capacidad \in Nat /\ MemoriaInv /\ Len(memoria) \in Nat /\ Len(recibidas) \in Nat
      /\ DOMAIN memoria = 1..Len(memoria)
  BY ServerAssumption DEF EntregaInv, TipoTodo, TypeOK
<1>1. PICK i \in 1..Len(recibidas) : recibidas[i] = t /\ i > Len(recibidas) - Capacidad
  BY <1>t DEF Recientes
<1>2. PICK n \in Int : n = i - (Len(recibidas) - Len(memoria))
  <2>1. i - (Len(recibidas) - Len(memoria)) \in Int
    BY <1>t
  <2> QED BY <2>1
<1>3. n \in 1..Len(memoria) /\ Len(recibidas) - Len(memoria) + n = i
  BY <1>t, <1>1, <1>2 DEF MemoriaInv
<1>4. memoria[n] = t
  BY <1>t, <1>1, <1>3 DEF MemoriaInv
<1>5. t \in Txns
  BY <1>t, <1>1
<1> QED BY <1>t, <1>3, <1>4, <1>5 DEF Range

\* The answer that is looked up: a whole block, or a transaction that is remembered.
LEMMA ContenidoCorrecto ==
    ASSUME EntregaInv, NEW i
    PROVE  /\ Contenido(i).item = i
           /\ i \in Bloques /\ disco[i] = "entero" =>
                 Contenido(i).tipo = "block" /\ Contenido(i).entero
           /\ i \in Recientes => Contenido(i).tipo = "tx"
<1>1. Contenido(i).item = i
  BY DEF Contenido
<1>2. ASSUME i \in Bloques, disco[i] = "entero"
      PROVE  Contenido(i).tipo = "block" /\ Contenido(i).entero
  <2>1. (disco[i] = "entero") = TRUE
    BY <1>2
  <2>2. Contenido(i) = [tipo |-> "block", item |-> i, entero |-> TRUE]
    BY <1>2, <2>1 DEF Contenido
  <2> QED BY <2>2
<1>3. ASSUME i \in Recientes PROVE Contenido(i).tipo = "tx"
  <2>1. i \notin Bloques /\ i \in Range(memoria)
    BY <1>3, LoReciente, Disjuntos
  <2> QED BY <2>1 DEF Contenido
<1> QED BY <1>1, <1>2, <1>3

\* What each step does to a request and its answer.
LEMMA PedidoPaso ==
    ASSUME EntregaInv, [Next]_vars, NEW c \in Conexiones
    PROVE  /\ conoce'[c] \subseteq conoce[c] \/ conoce'[c] \subseteq Oido(c)
           /\ \/ respuesta'[c] \in {respuesta[c], Nada}
              \/ pc[c] = "esperar_headers"
              \/ \E i : respuesta'[c] = Contenido(i)
<1>t. /\ respuesta = [d \in Conexiones |-> respuesta[d]] /\ conoce \in [Conexiones -> SUBSET Items]
  BY DEF EntregaInv, TipoTodo, TypeOK
<1>1. ASSUME NEW d \in Conexiones, TomarGetdata(d)
      PROVE  UNCHANGED respuesta /\ \E S \in SUBSET Oido(d) : conoce' = [conoce EXCEPT ![d] = S]
  BY <1>1 DEF TomarGetdata, Tomar
<1>2. ASSUME NEW d \in Conexiones, ArmarHeaders(d)
      PROVE  /\ UNCHANGED conoce /\ pc[d] = "esperar_headers"
             /\ \E m : respuesta' = [respuesta EXCEPT ![d] = m]
  BY <1>2 DEF ArmarHeaders, Responde
<1>3. ASSUME NEW d \in Conexiones, BuscarItem(d)
      PROVE  UNCHANGED conoce /\ \E i : respuesta' = [respuesta EXCEPT ![d] = Contenido(i)]
  BY <1>3 DEF BuscarItem, Responde
<1>4. ASSUME NEW d \in Conexiones, Responder(d) \/ PerderRespuesta(d)
      PROVE  /\ \E S \in SUBSET conoce[d] : conoce' = [conoce EXCEPT ![d] = S]
             /\ respuesta' = [respuesta EXCEPT ![d] = Nada]
  <2>1. PICK p : Terminar(d, p)
    BY <1>4 DEF Responder, PerderRespuesta
  <2>2. /\ respuesta' = [respuesta EXCEPT ![d] = Nada]
        /\ conoce' = [conoce EXCEPT ![d] = IF p = "datos" THEN @ ELSE {}]
    BY <2>1 DEF Terminar, Responde
  <2> QED BY <2>2
<1>5. CASE UNCHANGED <<conoce, respuesta>>
  BY <1>5
<1>6. \/ \E d \in Conexiones : \/ TomarGetdata(d) \/ ArmarHeaders(d) \/ BuscarItem(d)
                                \/ Responder(d) \/ PerderRespuesta(d)
      \/ UNCHANGED <<conoce, respuesta>>
  BY DEF Next, PasoOyente, FallaOyente, LlegaBloque, LlegaTxn, NoSeObtiene, CrearArchivo,
         EscribirBloque, Notificar, FallaAceptar, PasoAvisos, TomarAviso, TerminarRonda, EscribirAviso,
         PerderAviso, Conectar, Cerrar, Aceptar, Saludar, ClienteSeFue, TomarGetheaders, TomarIlegible,
         LeerDesfasado, PasoHandler, PasoRespuesta, Ignorar, Tomar, vars, handler
<1>7. ASSUME NEW d \in Conexiones, d # c,
             \/ TomarGetdata(d) \/ ArmarHeaders(d) \/ BuscarItem(d)
             \/ Responder(d) \/ PerderRespuesta(d)
      PROVE  UNCHANGED <<conoce[c], respuesta[c]>>
  <2>1. /\ conoce' = conoce \/ \E S : conoce' = [conoce EXCEPT ![d] = S]
        /\ respuesta' = respuesta \/ \E m : respuesta' = [respuesta EXCEPT ![d] = m]
    BY <1>1, <1>2, <1>3, <1>4, <1>7
  <2> QED BY <1>7, <2>1, <1>t
<1>8. CASE TomarGetdata(c)
  BY <1>1, <1>8, <1>t
<1>9. CASE ArmarHeaders(c)
  BY <1>2, <1>9, <1>t
<1>10. CASE BuscarItem(c)
  <2>1. PICK i : respuesta' = [respuesta EXCEPT ![c] = Contenido(i)]
    BY <1>3, <1>10
  <2>2. respuesta'[c] = Contenido(i)
    BY <2>1, <1>t
  <2> QED BY <1>3, <1>10, <2>2
<1>11. CASE Responder(c) \/ PerderRespuesta(c)
  BY <1>4, <1>11, <1>t
<1> QED BY <1>5, <1>6, <1>7, <1>8, <1>9, <1>10, <1>11

LEMMA BloquesPaso ==
    ASSUME EntregaInv, [Next]_vars
    PROVE  BloquesInv'
<1>t. /\ TipoTodo /\ disco \in [Bloques -> {"no", "medio", "entero"}] /\ BloquesInv
      /\ difundidos \in Seq(Items) /\ DOMAIN difundidos = 1..Len(difundidos) /\ Len(difundidos) \in Nat
      /\ logrados \subseteq DOMAIN difundidos /\ oidos \in [Conexiones -> SUBSET (1..tomados)]
  BY DEF EntregaInv, TipoTodo, TypeOK
\* A whole file stays whole.
<1>1. \A b \in Bloques : disco[b] = "entero" => disco'[b] = "entero"
  <2>1. CASE disco' = disco
    BY <2>1
  <2>2. CASE CrearArchivo \/ EscribirBloque
    BY <1>t, <2>2 DEF CrearArchivo, EscribirBloque
  <2> QED BY <2>1, <2>2, BloquesDeja DEF LlegaBloque, LlegaTxn, NoSeObtiene, Notificar, FallaOyente
<1>2. \A i \in logrados' : difundidos'[i] \in Bloques => disco'[difundidos'[i]] = "entero"
  <2>1. CASE UNCHANGED <<difundidos, logrados>>
    BY <1>t, <1>1, <2>1 DEF BloquesInv
  <2>2. CASE Notificar
    <3>1. /\ oyente = "avisar" /\ difundidos' = Append(difundidos, actual) /\ disco' = disco
          /\ logrados' = IF recibido = actual THEN logrados \cup {Len(difundidos) + 1} ELSE logrados
      BY <2>2 DEF Notificar
    <3>2. /\ difundidos'[Len(difundidos) + 1] = actual
          /\ \A i \in DOMAIN difundidos : difundidos'[i] = difundidos[i]
      BY <1>t, <3>1
    <3> QED BY <1>t, <3>1, <3>2 DEF BloquesInv
  <2>3. Notificar \/ UNCHANGED <<difundidos, logrados>>
    BY BloquesDeja DEF LlegaBloque, LlegaTxn, NoSeObtiene, CrearArchivo, EscribirBloque, FallaOyente,
           anuncios
  <2> QED BY <2>1, <2>2, <2>3
<1>3. oyente' = "avisar" /\ recibido' \in Bloques => disco'[recibido'] = "entero"
  <2>1. CASE LlegaBloque \/ CrearArchivo \/ Notificar \/ FallaOyente
    BY <2>1 DEF LlegaBloque, CrearArchivo, Notificar, FallaOyente
  <2>2. CASE LlegaTxn \/ NoSeObtiene
    <3>1. recibido' \in Txns \cup {Nada}
      BY <2>2, LoObtenido DEF LlegaTxn, NoSeObtiene
    <3> QED BY <3>1, Disjuntos DEF Items
  <2>3. CASE EscribirBloque
    BY <1>t, <2>3 DEF EscribirBloque
  <2>4. CASE UNCHANGED <<disco, oyente, recibido, difundidos, logrados>>
    BY <1>t, <2>4 DEF BloquesInv
  <2> QED BY <2>1, <2>2, <2>3, <2>4, BloquesDeja
<1>4. ASSUME NEW c \in Conexiones, NEW b \in conoce'[c] \cap Bloques
      PROVE  disco'[b] = "entero"
  <2>1. CASE b \in conoce[c]
    BY <1>t, <1>1, <1>4, <2>1 DEF BloquesInv
  <2>2. CASE b \in Oido(c)
    <3>1. PICK i \in logrados : difundidos[i] = b
      BY <2>2 DEF Oido
    <3> QED BY <1>t, <1>1, <1>4, <3>1 DEF BloquesInv
  <2> QED BY <1>4, <2>1, <2>2, PedidoPaso
<1> QED BY <1>2, <1>3, <1>4 DEF BloquesInv

LEMMA EntregaInvInit == Init => EntregaInv
<1> SUFFICES ASSUME Init PROVE EntregaInv
  OBVIOUS
<1>1. AvisosInv /\ TipoTodo
  BY AvisosInvInit, TipoTodoInit
<1>2. Len(memoria) = 0 /\ Len(recibidas) = 0
  BY DEF Init
<1>3. MemoriaInv
  BY <1>2 DEF MemoriaInv
<1>4. BloquesInv
  BY DEF Init, BloquesInv
<1> QED BY <1>1, <1>3, <1>4 DEF EntregaInv

LEMMA EntregaInvNext == EntregaInv /\ [Next]_vars => EntregaInv'
  BY TipoInvNext, RegistroInvNext, TipoTodoNext, MemoriaPaso, BloquesPaso DEF EntregaInv, AvisosInv

\* The steps that answer an item of a request, as LoObtenidoSeEntrega has them.
LEMMA EntregaPaso ==
    ASSUME EntregaInv, [Next]_vars, NEW c \in Conexiones,
           pc[c] = "datos", respuesta[c] = Nada, respuesta'[c] # Nada
    PROVE  LET r == respuesta'[c]
           IN  /\ r.item \in conoce[c] \cap Bloques => r.tipo = "block" /\ r.entero
               /\ r.item \in Recientes => r.tipo = "tx"
<1>1. PICK i : respuesta'[c] = Contenido(i)
  BY PedidoPaso
<1>2. /\ Contenido(i).item = i /\ (i \in Recientes => Contenido(i).tipo = "tx")
      /\ (i \in Bloques /\ disco[i] = "entero" => Contenido(i).tipo = "block" /\ Contenido(i).entero)
  BY ContenidoCorrecto
<1>3. i \in conoce[c] \cap Bloques => disco[i] = "entero"
  BY DEF EntregaInv, BloquesInv
<1> QED BY <1>1, <1>2, <1>3

LEMMA EntregaSiempre == Spec => []EntregaInv
  BY EntregaInvInit, EntregaInvNext, PTL DEF Spec
-----------------------------------------------------------------------------
\* Every variable keeps its type, in every execution of the server.
THEOREM TipoCorrecto == Spec => []TypeOK
  BY TiposSiempre, PTL DEF TipoTodo

\* A client that asks with getdata for a block that was announced to it and that the
\* node accepted gets it whole, and one that asks for a transaction that came gets it
\* unless Capacidad others, or repetitions, came after it: whatever the peer announces
\* and delivers, and whatever the listener and the other handlers do meanwhile.
THEOREM EntregaCorrecta == Spec => LoObtenidoSeEntrega
<1>1. EntregaInv /\ [Next]_vars =>
          [\A c \in Conexiones : pc[c] = "datos" /\ respuesta[c] = Nada /\ respuesta'[c] # Nada =>
              LET r == respuesta'[c]
              IN  /\ r.item \in conoce[c] \cap Bloques => r.tipo = "block" /\ r.entero
                  /\ r.item \in Recientes => r.tipo = "tx"]_vars
  BY EntregaPaso
<1> QED BY <1>1, EntregaSiempre, PTL DEF Spec, LoObtenidoSeEntrega
=============================================================================
