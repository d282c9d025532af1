------------------------------- MODULE Server -------------------------------
(***************************************************************************)
(* The server: the thread that accepts connections, a handler for each     *)
(* one, the thread of the notifications, and the listener as far as it     *)
(* shares state with them.  Code: src/src/server.rs, server_messages.rs,   *)
(* server_notification.rs; node.rs and message_handler.rs for what they    *)
(* call and for the listener.                                              *)
(*                                                                         *)
(* The register of clients is locked while an inventory is written to all  *)
(* of them, and the headers vector while an answer to getheaders is.  A    *)
(* write takes as long as its client takes to read.  The memory of         *)
(* transactions is locked within one step.  What HeaderIndex tells of      *)
(* getheaders is one step here, and an inventory has one item; Listener    *)
(* has the rest of what the listener does.                                 *)
(*                                                                         *)
(* The peer may announce and deliver anything, again and again: nothing    *)
(* compares what came with what was announced or with what the node has.   *)
(*                                                                         *)
(* What a client sends is any message of a set, which its handler takes    *)
(* when it reads; of what is written to a client, only what it learns      *)
(* from it is kept.                                                        *)
(***************************************************************************)
EXTENDS Naturals, Sequences, FiniteSets, SequencesExt

CONSTANTS
    Conexiones,     \* connections that clients may open
    Puertos,        \* the addresses, with their ports, that each one may come from
    Fugaces,        \* those that may hang up
    Mensajes,       \* what each client may send after the handshake
    Bloques, Txns,
    Entregas,       \* what the peer may announce, with what it may deliver for it
    Base,           \* the chain when the server starts
    BaseEnDisco,    \* those of its blocks that were downloaded
    Capacidad,      \* cant_max_txn_memoria
    MaxAvisos,      \* bound: blocks and transactions that arrive
    MaxMensajes,    \* bound: messages of each client
    Nada

ASSUME ServerAssumption ==
    /\ Base \in Seq(Bloques) /\ BaseEnDisco \subseteq Range(Base)
    /\ Bloques \cap Txns = {}
    /\ Entregas \subseteq (Bloques \X (Bloques \cup {Nada})) \cup (Txns \X (Txns \cup {Nada}))
    /\ DOMAIN Puertos = Conexiones /\ DOMAIN Mensajes = Conexiones
    /\ \A c \in Conexiones : \A m \in Mensajes[c] :
          (m.tipo = "getdata" => m.items # << >>) /\ (m.tipo = "otro" => m.carga \in BOOLEAN)
    /\ Capacidad \in Nat \ {0} /\ MaxAvisos \in Nat /\ MaxMensajes \in Nat
    /\ Nada \notin Bloques \cup Txns \cup Conexiones

VARIABLES
    headers,    \* Arc<Mutex<Vec<BlockHeader>>>
    candado,    \* who holds its mutex: a handler, the listener or nobody
    disco,      \* the file of each block: "no", "medio" or "entero"
    memoria,    \* txn_memory
    oyente,     \* what the listener does next
    actual,     \* the block or transaction that was announced to it
    recibido,   \* the one that came for it, and was accepted
    difundidos, \* everything it has sent through the channel
    logrados,   \* history: the positions of those that came and were accepted
    recibidas,  \* history: the transactions that were remembered, in order
    tomados,    \* how many of them the thread of the notifications has taken
    pendientes, \* whom it has still to write the last of them to
    caidos,     \* to whom it could not
    avisando,   \* it is writing, with the register locked
    oidos,      \* the inventories that were written to each client, by position
    registro,   \* client_conections: from addresses to connections
    aceptador,  \* the thread that accepts: "aceptar" or "fin"
    cliente,    \* each connection for its client: "afuera", "conectado", "cerrado"
    direccion,  \* the address that it came from
    pc,         \* what each handler does next
    dichos,     \* how many messages it has taken after the handshake
    pedido,     \* the getdata that it is answering
    conoce,     \* which of its items the client had heard of when it was taken
    contestados,    \* how many of them have been answered
    respuesta,      \* the answer that the handler is about to write
    desfasado       \* the handler reads from the middle of a message

cadena == <<headers, candado, disco, memoria, oyente, actual, recibido>>
anuncios == <<difundidos, logrados, recibidas>>
avisos == <<tomados, pendientes, caidos, avisando, oidos>>
accesos == <<registro, aceptador>>
handler == <<pc, dichos, pedido, conoce, contestados, respuesta, desfasado>>
clientes == <<cliente, direccion>>
vars == <<cadena, anuncios, avisos, accesos, clientes, handler>>

Items == Bloques \cup Txns
Direcciones == UNION {Puertos[c] : c \in Conexiones}
PasosHandler == {"nada", "saludo", "leer", "esperar_headers", "headers", "datos", "fin"}

Init ==
    /\ headers = Base /\ candado = Nada /\ memoria = << >>
    /\ disco = [b \in Bloques |-> IF b \in BaseEnDisco THEN "entero" ELSE "no"]
    /\ oyente = "inv" /\ actual = Nada /\ recibido = Nada
    /\ difundidos = << >> /\ logrados = {} /\ recibidas = << >>
    /\ tomados = 0 /\ pendientes = {} /\ caidos = {} /\ avisando = FALSE
    /\ oidos = [c \in Conexiones |-> {}]
    /\ registro = [d \in Direcciones |-> Nada] /\ aceptador = "aceptar"
    /\ cliente = [c \in Conexiones |-> "afuera"] /\ direccion = [c \in Conexiones |-> Nada]
    /\ pc = [c \in Conexiones |-> "nada"] /\ dichos = [c \in Conexiones |-> 0]
    /\ pedido = [c \in Conexiones |-> Nada] /\ conoce = [c \in Conexiones |-> {}]
    /\ contestados = [c \in Conexiones |-> 0] /\ respuesta = [c \in Conexiones |-> Nada]
    /\ desfasado = [c \in Conexiones |-> FALSE]
-----------------------------------------------------------------------------
(* The clients. *)

\* Two connections with one address do not exist at the same time.
Conectar(c) ==
    /\ cliente[c] = "afuera" /\ cliente' = [cliente EXCEPT ![c] = "conectado"]
    /\ \E p \in Puertos[c] :
          /\ \A d \in Conexiones : direccion[d] = p => cliente[d] = "cerrado" /\ pc[d] # "nada"
          /\ direccion' = [direccion EXCEPT ![c] = p]
    /\ UNCHANGED <<cadena, anuncios, avisos, accesos, handler>>

Cerrar(c) ==
    /\ cliente[c] = "conectado" /\ c \in Fugaces
    /\ cliente' = [cliente EXCEPT ![c] = "cerrado"]
    /\ UNCHANGED <<cadena, anuncios, avisos, accesos, direccion, handler>>
-----------------------------------------------------------------------------
(* The listener. *)

\* Something is announced, asked for, and one of S comes for it.
Obtiene(S) == \E e \in Entregas : e[2] \in S /\ actual' = e[1] /\ recibido' = e[2]

\* validar_bloque accepts the block: it locks the vector, pushes the header...
LlegaBloque ==
    /\ oyente = "inv" /\ candado = Nada /\ Len(difundidos) < MaxAvisos
    /\ Obtiene(Bloques) /\ headers' = Append(headers, recibido')
    /\ candado' = "oyente" /\ oyente' = "crear"
    /\ UNCHANGED <<disco, memoria, anuncios, avisos, accesos, clientes, handler>>

\* Variant: the file is emptied when it is opened.
CrearVacio ==
    /\ oyente = "crear" /\ oyente' = "escribir"
    /\ disco' = [disco EXCEPT ![recibido] = "medio"]
    /\ UNCHANGED <<headers, candado, memoria, actual, recibido, anuncios, avisos, accesos,
                   clientes, handler>>

\* ...opens or creates the file of the block, without emptying it...
CrearArchivo ==
    /\ oyente = "crear" /\ oyente' = "escribir"
    /\ disco' = [disco EXCEPT ![recibido] = IF @ = "no" THEN "medio" ELSE @]
    /\ UNCHANGED <<headers, candado, memoria, actual, recibido, anuncios, avisos, accesos,
                   clientes, handler>>

\* ...writes it, and unlocks the vector when it returns.
EscribirBloque ==
    /\ oyente = "escribir" /\ oyente' = "avisar" /\ candado' = Nada
    /\ disco' = [disco EXCEPT ![recibido] = "entero"]
    /\ UNCHANGED <<headers, memoria, actual, recibido, anuncios, avisos, accesos, clientes,
                   handler>>

\* What was announced is rejected, if it is a block, or does not come, if it is a
\* transaction: nothing is kept, and it is announced all the same.
NoSeObtiene ==
    /\ oyente = "inv" /\ oyente' = "avisar" /\ Len(difundidos) < MaxAvisos
    /\ Obtiene({Nada})
    /\ UNCHANGED <<headers, candado, disco, memoria, anuncios, avisos, accesos, clientes,
                   handler>>

\* Any of these calls may fail, or the connection with the peer, or what comes does
\* not parse: the listener's thread ends.
FallaOyente ==
    /\ oyente \in {"inv", "crear", "escribir"} /\ oyente' = "fin"
    /\ candado' = IF candado = "oyente" THEN Nada ELSE candado
    /\ UNCHANGED <<headers, disco, memoria, actual, recibido, anuncios, avisos, accesos,
                   clientes, handler>>

\* Variant: nothing leaves.
RecordarSinTope(m, t) == Append(m, t)

\* add_txn_in_memory
Recordar(m, t) == Append(IF Len(m) = Capacidad THEN Tail(m) ELSE m, t)

LlegaTxn ==
    /\ oyente = "inv" /\ oyente' = "avisar" /\ Len(difundidos) < MaxAvisos
    /\ Obtiene(Txns)
    /\ memoria' = Recordar(memoria, recibido') /\ recibidas' = Append(recibidas, recibido')
    /\ UNCHANGED <<headers, candado, disco, difundidos, logrados, avisos, accesos, clientes,
                   handler>>

\* The inventory, as it came, goes to the thread of the notifications.
Notificar ==
    /\ oyente = "avisar" /\ oyente' = "inv" /\ actual' = Nada /\ recibido' = Nada
    /\ difundidos' = Append(difundidos, actual)
    /\ logrados' = IF recibido = actual THEN logrados \cup {Len(difundidos) + 1} ELSE logrados
    /\ UNCHANGED <<headers, candado, disco, memoria, recibidas, avisos, accesos, clientes,
                   handler>>
-----------------------------------------------------------------------------
(* The connections: iniciar_server. *)

\* agregar_cliente_en_vector_conexiones
Registrar(r, c) == [r EXCEPT ![direccion[c]] = IF @ = Nada THEN c ELSE @]

\* It waits for the register, and starts the handler.
Aceptar(c) ==
    /\ aceptador = "aceptar" /\ ~avisando
    /\ cliente[c] # "afuera" /\ pc[c] = "nada"
    /\ registro' = Registrar(registro, c)
    /\ pc' = [pc EXCEPT ![c] = "saludo"]
    /\ UNCHANGED <<cadena, anuncios, avisos, aceptador, clientes, dichos, pedido, conoce,
                   contestados, respuesta, desfasado>>

\* accept or try_clone fails for a connection that waits: the thread ends, and
\* nobody else is let in.
FallaAceptar ==
    /\ \E c \in Conexiones : cliente[c] # "afuera" /\ pc[c] = "nada"
    /\ aceptador = "aceptar" /\ aceptador' = "fin"
    /\ UNCHANGED <<cadena, anuncios, avisos, registro, clientes, handler>>
-----------------------------------------------------------------------------
(* The notifications: envio_notificaciones_cliente. *)

TomarAviso ==
    /\ ~avisando /\ tomados < Len(difundidos)
    /\ tomados' = tomados + 1 /\ avisando' = TRUE
    /\ pendientes' = Range(registro) \ {Nada}
    /\ UNCHANGED <<cadena, anuncios, caidos, oidos, accesos, clientes, handler>>

EscribirAviso(c) ==
    /\ c \in pendientes /\ cliente[c] = "conectado"
    /\ oidos' = [oidos EXCEPT ![c] = @ \cup {tomados}]
    /\ pendientes' = pendientes \ {c}
    /\ UNCHANGED <<cadena, anuncios, tomados, caidos, avisando, accesos, clientes, handler>>

\* Variant: the first client that is gone ends the round.
CortarRonda(c) ==
    /\ c \in pendientes /\ cliente[c] = "cerrado"
    /\ pendientes' = {} /\ caidos' = caidos \cup {c}
    /\ UNCHANGED <<cadena, anuncios, tomados, avisando, oidos, accesos, clientes, handler>>

\* Variant: what could not be written is tried again.
ReintentarAviso(c) ==
    /\ c \in pendientes /\ cliente[c] = "cerrado"
    /\ UNCHANGED vars

\* The client is gone.  The error shows in this write or in a later one.
PerderAviso(c) ==
    /\ c \in pendientes /\ cliente[c] = "cerrado"
    /\ pendientes' = pendientes \ {c}
    /\ caidos' \in {caidos, caidos \cup {c}}
    /\ UNCHANGED <<cadena, anuncios, tomados, avisando, oidos, accesos, clientes, handler>>

TerminarRonda ==
    /\ avisando /\ pendientes = {} /\ avisando' = FALSE /\ caidos' = {}
    /\ registro' = [d \in Direcciones |-> IF registro[d] \in caidos THEN Nada ELSE registro[d]]
    /\ UNCHANGED <<cadena, anuncios, tomados, pendientes, oidos, aceptador, clientes, handler>>
-----------------------------------------------------------------------------
(* A handler: handlear_peticiones_cliente and what it calls. *)

Avanzar(c, paso) == pc' = [pc EXCEPT ![c] = paso]
Responde(c, m) == respuesta' = [respuesta EXCEPT ![c] = m]

\* recibir_handshake waits for version and for verack, and answers the same.
\* Until they come handle_specific_message drops other messages whole.
Saludar(c) ==
    /\ pc[c] = "saludo" /\ cliente[c] = "conectado" /\ Avanzar(c, "leer")
    /\ UNCHANGED <<cadena, anuncios, avisos, accesos, clientes, dichos, pedido, conoce,
                   contestados, respuesta, desfasado>>

\* What the client has heard of in inventories, of what the node obtained.
Oido(c) == {difundidos[i] : i \in oidos[c] \cap logrados}

\* leer_peticion_cliente.  The client may have sent the message and left.
Tomar(c) ==
    /\ pc[c] = "leer" /\ ~desfasado[c] /\ dichos[c] < MaxMensajes
    /\ dichos' = [dichos EXCEPT ![c] = @ + 1]
    /\ UNCHANGED <<cadena, anuncios, avisos, accesos, clientes, contestados, respuesta>>

TomarGetheaders(c) ==
    /\ Tomar(c) /\ \E m \in Mensajes[c] : m.tipo = "getheaders"
    /\ Avanzar(c, "esperar_headers")
    /\ UNCHANGED <<pedido, conoce, desfasado>>

TomarGetdata(c) ==
    /\ Tomar(c) /\ Avanzar(c, "datos")
    /\ \E m \in Mensajes[c] :
          /\ m.tipo = "getdata"
          /\ pedido' = [pedido EXCEPT ![c] = m]
          /\ conoce' = [conoce EXCEPT ![c] = Oido(c) \cap Range(m.items)]
    /\ UNCHANGED desfasado

\* A request that does not parse is an error or a panic: the thread ends.
TomarIlegible(c) ==
    /\ Tomar(c) /\ \E m \in Mensajes[c] : m.tipo = "ilegible"
    /\ Avanzar(c, "fin")
    /\ UNCHANGED <<pedido, conoce, desfasado>>

\* Any other message is ignored, and its payload is left in the stream.
Ignorar(c) ==
    /\ Tomar(c)
    /\ \E m \in Mensajes[c] :
          m.tipo = "otro" /\ desfasado' = [desfasado EXCEPT ![c] = m.carga]
    /\ UNCHANGED <<pc, pedido, conoce>>

\* What follows is taken for the header of a message.  If its command is not
\* UTF-8 the loop ends; if it is, it is ignored, with what it took of the next
\* message, and perhaps a message starts after it.
LeerDesfasado(c) ==
    /\ pc[c] = "leer" /\ desfasado[c]
    /\ \/ Avanzar(c, "fin") /\ UNCHANGED desfasado
       \/ desfasado' = [desfasado EXCEPT ![c] = FALSE] /\ UNCHANGED pc
    /\ UNCHANGED <<cadena, anuncios, avisos, accesos, clientes, dichos, pedido, conoce,
                   contestados, respuesta>>

\* recibir_getheaders locks the vector, and holds it until the answer is written.
ArmarHeaders(c) ==
    /\ pc[c] = "esperar_headers" /\ candado = Nada
    /\ candado' = c /\ Avanzar(c, "headers")
    /\ Responde(c, [tipo |-> "headers", item |-> Nada])
    /\ UNCHANGED <<headers, disco, memoria, oyente, actual, recibido, anuncios, avisos, accesos,
                   clientes, dichos, pedido, conoce, contestados, desfasado>>

\* respond_getdata_block reads the file of the block, whatever it holds, and
\* respond_getdata_txn looks for the transaction in the memory.
Contenido(i) ==
    IF i \in Bloques /\ disco[i] # "no"
    THEN [tipo |-> "block", item |-> i, entero |-> disco[i] = "entero"]
    ELSE IF i \in Range(memoria) THEN [tipo |-> "tx", item |-> i]
    ELSE [tipo |-> "notfound", item |-> i]

\* The next item of a getdata.
BuscarItem(c) ==
    /\ pc[c] = "datos" /\ respuesta[c] = Nada
    /\ Responde(c, Contenido(pedido[c].items[contestados[c] + 1]))
    /\ UNCHANGED <<cadena, anuncios, avisos, accesos, clientes, pc, dichos, pedido, conoce,
                   contestados, desfasado>>

\* recibir_getdata goes on to the next item whatever came of this one.
Siguiente(c) ==
    IF pc[c] = "datos" /\ contestados[c] + 1 < Len(pedido[c].items) THEN "datos" ELSE "leer"

\* Variant: the mutex outlives an answer that could not be written.
SoltarSiContesta(c) == candado' = IF candado = c /\ cliente[c] = "conectado" THEN Nada ELSE candado

Soltar(c) == candado' = IF candado = c THEN Nada ELSE candado

\* After an answer, with the handler's next step.
Terminar(c, paso) ==
    /\ Avanzar(c, paso) /\ Responde(c, Nada) /\ Soltar(c)
    /\ LET sigue == paso = "datos"
       IN  /\ contestados' = [contestados EXCEPT ![c] = IF sigue THEN @ + 1 ELSE 0]
           /\ pedido' = [pedido EXCEPT ![c] = IF sigue THEN @ ELSE Nada]
           /\ conoce' = [conoce EXCEPT ![c] = IF sigue THEN @ ELSE {}]
    /\ UNCHANGED <<headers, disco, memoria, oyente, actual, recibido, anuncios, avisos, accesos,
                   clientes, dichos, desfasado>>

Responder(c) ==
    /\ respuesta[c] # Nada /\ cliente[c] = "conectado"
    /\ Terminar(c, Siguiente(c))

\* The client is gone.  If the error shows, an answer to getdata is logged and the
\* next item follows, and an answer to getheaders ends the thread.
PerderRespuesta(c) ==
    /\ respuesta[c] # Nada /\ cliente[c] = "cerrado"
    /\ \/ Terminar(c, Siguiente(c))
       \/ pc[c] = "headers" /\ Terminar(c, "fin")

\* A read finds that the client is gone.
ClienteSeFue(c) ==
    /\ cliente[c] = "cerrado" /\ pc[c] \in {"saludo", "leer"}
    /\ Avanzar(c, "fin")
    /\ UNCHANGED <<cadena, anuncios, avisos, accesos, clientes, dichos, pedido, conoce,
                   contestados, respuesta, desfasado>>
-----------------------------------------------------------------------------
PasoOyente == CrearArchivo \/ EscribirBloque \/ Notificar

PasoAvisos ==
    \/ TomarAviso \/ TerminarRonda
    \/ \E c \in Conexiones : EscribirAviso(c) \/ PerderAviso(c)

PasoRespuesta(c) == ArmarHeaders(c) \/ BuscarItem(c) \/ Responder(c) \/ PerderRespuesta(c)

PasoHandler(c) ==
    \/ Saludar(c) \/ ClienteSeFue(c)
    \/ TomarGetheaders(c) \/ TomarGetdata(c) \/ TomarIlegible(c) \/ Ignorar(c)
    \/ LeerDesfasado(c) \/ PasoRespuesta(c)

Next ==
    \/ LlegaBloque \/ LlegaTxn \/ NoSeObtiene \/ PasoOyente \/ FallaOyente
    \/ FallaAceptar \/ PasoAvisos
    \/ \E c \in Conexiones : Conectar(c) \/ Cerrar(c) \/ Aceptar(c) \/ PasoHandler(c)

Spec == Init /\ [][Next]_vars

\* The threads are scheduled, and a client reads what it is sent or hangs up.
\* Nobody has to send a request, and nothing has to arrive or to fail.
FairSpec ==
    /\ Spec /\ WF_vars(PasoOyente) /\ WF_vars(PasoAvisos)
    /\ \A c \in Conexiones : WF_vars(PasoRespuesta(c))
-----------------------------------------------------------------------------
(* Properties. *)

\* Every variable keeps its type.
TypeOK ==
    /\ headers \in Seq(Bloques) /\ disco \in [Bloques -> {"no", "medio", "entero"}]
    /\ candado \in Conexiones \cup {"oyente", Nada}
    /\ memoria \in Seq(Txns) /\ Len(memoria) <= Capacidad
    /\ oyente \in {"inv", "crear", "escribir", "avisar", "fin"}
    /\ actual \in Items \cup {Nada} /\ recibido \in Items \cup {Nada}
    /\ difundidos \in Seq(Items) /\ logrados \subseteq DOMAIN difundidos
    /\ recibidas \in Seq(Txns) /\ tomados \in 0..Len(difundidos)
    /\ pendientes \subseteq Conexiones /\ caidos \subseteq Conexiones /\ avisando \in BOOLEAN
    /\ oidos \in [Conexiones -> SUBSET (1..tomados)]
    /\ registro \in [Direcciones -> Conexiones \cup {Nada}]
    /\ aceptador \in {"aceptar", "fin"}
    /\ cliente \in [Conexiones -> {"afuera", "conectado", "cerrado"}]
    /\ direccion \in [Conexiones -> Direcciones \cup {Nada}]
    /\ pc \in [Conexiones -> PasosHandler] /\ dichos \in [Conexiones -> 0..MaxMensajes]
    /\ \A c \in Conexiones : pedido[c] \in Mensajes[c] \cup {Nada}
    /\ conoce \in [Conexiones -> SUBSET Items]
    /\ contestados \in [Conexiones -> Nat] /\ desfasado \in [Conexiones -> BOOLEAN]
    /\ \A c \in Conexiones :
          respuesta[c] = Nada \/ respuesta[c].tipo \in {"headers", "block", "tx", "notfound"}

\* The last transactions that came, as many as the memory holds, counting again
\* those that came again.
Recientes ==
    {recibidas[i] : i \in {i \in DOMAIN recibidas : i > Len(recibidas) - Capacidad}}

\* A client that asks for a block that was announced to it, and that the node
\* accepted, gets the whole block, and who asks for a transaction gets it unless as
\* many as the memory holds came after it.  (What was announced but rejected, or
\* did not come, is not found: recibir_nuevos_bloques_txs announces it too.)
LoObtenidoSeEntrega ==
    [][\A c \in Conexiones : pc[c] = "datos" /\ respuesta[c] = Nada /\ respuesta'[c] # Nada =>
           LET r == respuesta'[c]
           IN  /\ r.item \in conoce[c] \cap Bloques => r.tipo = "block" /\ r.entero
               /\ r.item \in Recientes => r.tipo = "tx"]_vars

\* The server implements the promise of Difusion: from when it is registered, a
\* client hears of every block and transaction, in order, once, until it hangs up,
\* whoever else comes and goes (envio_notificaciones_cliente).
Escucha(c) == c \in Range(registro) /\ cliente[c] = "conectado"

Abstracta == INSTANCE Difusion WITH
    Clientes <- Conexiones,
    publicado <- difundidos,
    proximo <- [c \in Conexiones |->
                   IF ~Escucha(c) THEN 0 ELSE IF c \in pendientes THEN tomados ELSE tomados + 1],
    oido <- oidos

Refina == Abstracta!Spec

\* Whoever is registered and stays is told of everything that is announced.
AvisosAlDia ==
    \A c \in Conexiones :
        Escucha(c) ~> \/ cliente[c] = "cerrado"
                      \/ tomados = Len(difundidos) /\ c \notin pendientes

\* A request that was taken ends, whether the client waits for it or not: no
\* handler waits for ever for the mutex that the listener and the other handlers
\* take (recibir_getheaders holds it across a write).
PedidoTermina ==
    \A c \in Conexiones :
        pc[c] \in {"esperar_headers", "headers", "datos"} ~> pc[c] \in {"leer", "fin"}

=============================================================================
