----------------------------- MODULE ThreadPool -----------------------------
(***************************************************************************)
(* The parallel download of the initial block download: ThreadPool and     *)
(* Worker (src/src/threadpool.rs), and block_download, getdata,            *)
(* receive_block_data and guardar_bloque_memoria (src/src/block.rs), which *)
(* each worker runs on its own connection; conectar and handshake          *)
(* (src/src/node.rs, version.rs), which make that connection.              *)
(*                                                                         *)
(* The main thread builds the workers one by one, sends every header down  *)
(* one channel, drops its end and joins the workers.  The workers share    *)
(* the receiving end behind a mutex, and hold the mutex while they block   *)
(* in recv.  A header is identified with its position in the list.         *)
(***************************************************************************)
EXTENDS Naturals, Sequences, FiniteSets

CONSTANTS
    CantThreads,        \* cant_threads
    Total,              \* headers whose blocks are to be downloaded
    CantBlocksPorInv,   \* cant_blocks_por_inv
    CantRetries,        \* cant_retries
    Dns                 \* what the DNS seed may answer: sets of kinds of addresses

\* Of an answer with addresses, and none of IPv4, the code would choose for ever.
ASSUME ThreadPoolAssumption ==
    /\ CantThreads \in Nat /\ Total \in Nat /\ CantBlocksPorInv \in Nat /\ CantRetries \in Nat
    /\ Dns \subseteq {{}, {"ipv4"}, {"ipv4", "ipv6"}}

Workers == 1..CantThreads
Headers == 1..Total
Nadie == 0  \* no worker, or no header

VARIABLES
    \* the main thread
    main,       \* what it does next
    indice,     \* the worker it builds or joins, or the header it sends
    emisor,     \* the sending end of the channel is open
    intentos,   \* the connections that it has still to try for the worker
    server,     \* what the DNS seed answered
    \* the shared channel
    cola,       \* headers sent and not received
    candado,    \* the worker that holds the mutex of the receiving end
    \* the workers
    pc,         \* what each one does next
    header,     \* the header each one is downloading
    conexion,   \* the connection of each one with its peer is open
    \* the outcome
    disco,      \* state of each block's file
    resultado   \* what became of each header (read by the properties only)

llamada == <<intentos, server>>
principal == <<main, indice, emisor, llamada>>
canal == <<cola, candado>>
trabajo == <<pc, header, conexion>>
salida == <<disco, resultado>>
vars == <<principal, canal, trabajo, salida>>

PasosSaludo == {"version", "esperar_version", "verack", "esperar_verack"}
PasosMain == {"inicio", "construir", "conectar", "enviar", "join", "fin_ok", "fin_err", "panico"} \cup PasosSaludo
Finales == {"fin", "error", "panico"}
ConHeader == {"getdata", "block", "crear", "escribir"}
PasosWorker == {"sin_crear", "lock", "recv"} \cup ConHeader \cup Finales
Resultados == {"pendiente", "guardado", "omitido", "perdido"}

Init ==
    /\ main = "inicio" /\ indice = 1 /\ emisor = TRUE /\ intentos = 0 /\ server = {}
    /\ cola = << >> /\ candado = Nadie
    /\ pc = [w \in Workers |-> "sin_crear"]
    /\ header = [w \in Workers |-> Nadie]
    /\ conexion = [w \in Workers |-> FALSE]
    /\ disco = [h \in Headers |-> "no"]
    /\ resultado = [h \in Headers |-> "pendiente"]
-----------------------------------------------------------------------------
(* The main thread. *)

\* ThreadPool::build refuses to build an empty pool.
Empezar ==
    /\ main = "inicio"
    /\ main' = IF CantThreads = 0 THEN "fin_err" ELSE "construir"
    /\ UNCHANGED <<indice, emisor, llamada, canal, trabajo, salida>>

\* Worker::build: conectar asks the DNS seed...
ConsultarDns ==
    /\ main = "construir" /\ main' = "conectar"
    /\ server' \in Dns /\ intentos' = CantRetries
    /\ UNCHANGED <<indice, emisor, canal, trabajo, salida>>

\* Variant: the end of the tries is not an error.
SinConexionesSinError ==
    /\ main = "conectar" /\ intentos = 0 /\ main' = "construir"
    /\ UNCHANGED <<indice, emisor, llamada, canal, trabajo, salida>>

\* ...and gives up after the last try (NoHayConexionesDisponibles)...
SinConexiones ==
    /\ main = "conectar" /\ intentos = 0
    /\ main' = "fin_err" /\ emisor' = FALSE
    /\ UNCHANGED <<indice, llamada, canal, trabajo, salida>>

\* ...or panics, if there is nothing to choose from; the sender is dropped on the way.
SinDirecciones ==
    /\ main = "conectar" /\ intentos > 0 /\ server = {}
    /\ main' = "panico" /\ emisor' = FALSE
    /\ UNCHANGED <<indice, llamada, canal, trabajo, salida>>

\* It chooses until the address is an IPv4 one, and tries to connect.
Conectar ==
    /\ main = "conectar" /\ intentos > 0 /\ "ipv4" \in server
    /\ main' = "version" /\ conexion' = [conexion EXCEPT ![indice] = TRUE]
    /\ intentos' = 0 /\ server' = {}
    /\ UNCHANGED <<indice, emisor, canal, pc, header, salida>>

FallaConectar ==
    /\ main = "conectar" /\ intentos > 0 /\ "ipv4" \in server
    /\ intentos' = intentos - 1
    /\ UNCHANGED <<main, indice, emisor, server, canal, trabajo, salida>>

\* handshake: version and verack are written and then awaited, one after the other; what else
\* comes meanwhile is dropped, and changes nothing here.
Saludar ==
    /\ \/ main = "version"         /\ main' = "esperar_version"
       \/ main = "esperar_version" /\ main' = "verack"
       \/ main = "verack"          /\ main' = "esperar_verack"
    /\ UNCHANGED <<indice, emisor, llamada, canal, trabajo, salida>>

\* The verack came: the thread is spawned.
Construir ==
    /\ main = "esperar_verack"
    /\ pc' = [pc EXCEPT ![indice] = "lock"]
    /\ IF indice = CantThreads THEN main' = "enviar" /\ indice' = 1
                               ELSE main' = "construir" /\ indice' = indice + 1
    /\ UNCHANGED <<emisor, llamada, canal, header, conexion, salida>>

\* The DNS does not answer, or the peer left: the `?` drops the sender, and the threads built so
\* far are left to find the channel closed.
ErrorAlConstruir ==
    /\ \/ main = "construir"
       \/ main \in PasosSaludo /\ ~conexion[indice]
    /\ main' = "fin_err" /\ emisor' = FALSE
    /\ UNCHANGED <<indice, llamada, canal, trabajo, salida>>

\* The receiving end lives as long as one of the threads that share it.
ReceptorVivo == \E w \in Workers : pc[w] \notin Finales

\* Variant: one send too many.
EnviarUnoDeMas ==
    /\ main = "enviar" /\ indice <= Total + 1
    /\ IF ReceptorVivo
          THEN cola' = Append(cola, indice) /\ indice' = indice + 1 /\ UNCHANGED <<main, emisor>>
          ELSE main' = "fin_err" /\ emisor' = FALSE /\ UNCHANGED <<cola, indice>>
    /\ UNCHANGED <<llamada, candado, trabajo, salida>>

\* download_blocks: a send fails when every worker has died.
Enviar ==
    /\ main = "enviar" /\ indice <= Total
    /\ IF ReceptorVivo
          THEN cola' = Append(cola, indice) /\ indice' = indice + 1 /\ UNCHANGED <<main, emisor>>
          ELSE main' = "fin_err" /\ emisor' = FALSE /\ UNCHANGED <<cola, indice>>
    /\ UNCHANGED <<llamada, candado, trabajo, salida>>

\* Variant: the threads joined with the sender alive.
SoltarTarde ==
    /\ main = "enviar" /\ indice > Total
    /\ main' = "join" /\ indice' = 1 /\ UNCHANGED emisor
    /\ UNCHANGED <<llamada, canal, trabajo, salida>>

\* wait_for_threads: drop(self.sender).
SoltarEmisor ==
    /\ main = "enviar" /\ indice > Total
    /\ main' = "join" /\ indice' = 1 /\ emisor' = FALSE
    /\ UNCHANGED <<llamada, canal, trabajo, salida>>

\* A join returns when the thread has ended, however it ended: what the thread
\* returned is dropped, and a panic is only logged.
Join ==
    /\ main = "join" /\ pc[indice] \in Finales
    /\ IF indice = CantThreads THEN main' = "fin_ok" /\ indice' = indice
                               ELSE main' = main /\ indice' = indice + 1
    /\ UNCHANGED <<emisor, llamada, canal, trabajo, salida>>

PasoMain ==
    \/ Empezar
    \/ ConsultarDns \/ SinConexiones \/ SinDirecciones \/ Conectar \/ Saludar \/ Construir
    \/ Enviar \/ SoltarEmisor \/ Join
-----------------------------------------------------------------------------
(* A worker. *)

\* The worker is done with its header, and goes back to the channel or ends.
Resolver(w, r, destino) ==
    /\ pc' = [pc EXCEPT ![w] = destino]
    /\ header' = [header EXCEPT ![w] = Nadie]
    /\ resultado' = [resultado EXCEPT ![header[w]] = r]

Avanzar(w, destino) ==
    /\ pc' = [pc EXCEPT ![w] = destino]
    /\ UNCHANGED <<header, resultado>>

\* receiver.lock()
TomarCandado(w) ==
    /\ pc[w] = "lock" /\ candado = Nadie
    /\ candado' = w
    /\ Avanzar(w, "recv")
    /\ UNCHANGED <<principal, cola, conexion, disco>>

\* Variant: the header left in the channel.
RecibirSinSacar(w) ==
    /\ pc[w] = "recv" /\ cola # << >>
    /\ header' = [header EXCEPT ![w] = Head(cola)]
    /\ cola' = IF Len(cola) > 1 THEN Tail(cola) ELSE cola
    /\ candado' = Nadie
    /\ pc' = [pc EXCEPT ![w] = "getdata"]
    /\ UNCHANGED <<principal, conexion, salida>>

\* recv returns a header; the guard of the mutex dies with the statement.
RecibirHeader(w) ==
    /\ pc[w] = "recv" /\ cola # << >>
    /\ header' = [header EXCEPT ![w] = Head(cola)]
    /\ cola' = Tail(cola)
    /\ candado' = Nadie
    /\ pc' = [pc EXCEPT ![w] = "getdata"]
    /\ UNCHANGED <<principal, conexion, salida>>

\* recv returns an error: the channel is empty and its sender is gone.
CanalCerrado(w) ==
    /\ pc[w] = "recv" /\ cola = << >> /\ ~emisor
    /\ candado' = Nadie
    /\ Avanzar(w, "fin")
    /\ UNCHANGED <<principal, cola, conexion, disco>>

\* getdata takes the last cant_blocks_por_inv headers of a list of one: with
\* more than one the subtraction panics, with none the inventory is empty.
PedirBloque(w) ==
    /\ pc[w] = "getdata"
    /\ IF CantBlocksPorInv > 1 THEN Resolver(w, "perdido", "panico") ELSE Avanzar(w, "block")
    /\ UNCHANGED <<principal, canal, conexion, disco>>

\* A write on a closed connection may fail; `?` ends the thread.
ErrorAlPedir(w) ==
    /\ pc[w] = "getdata" /\ CantBlocksPorInv <= 1 /\ ~conexion[w]
    /\ Resolver(w, "perdido", "error")
    /\ UNCHANGED <<principal, canal, conexion, disco>>

\* The peer sends the block it was asked for.
RecibirBloque(w) ==
    /\ pc[w] = "block" /\ CantBlocksPorInv = 1
    /\ Avanzar(w, "crear")
    /\ UNCHANGED <<principal, canal, conexion, disco>>

\* The peer answers notfound: on with another block.
RecibirNotFound(w) ==
    /\ pc[w] = "block" /\ CantBlocksPorInv = 1
    /\ Resolver(w, "omitido", "lock")
    /\ UNCHANGED <<principal, canal, conexion, disco>>

\* Any other error while the block is awaited is logged by receive_block_data,
\* and the thread takes the next header.
ErrorDeLectura(w) ==
    /\ pc[w] = "block" /\ ~conexion[w]
    /\ Resolver(w, "omitido", "lock")
    /\ UNCHANGED <<principal, canal, conexion, disco>>

\* guardar_bloque_memoria opens the file...
CrearArchivo(w) ==
    /\ pc[w] = "crear"
    /\ disco' = [disco EXCEPT ![header[w]] = IF @ = "no" THEN "parcial" ELSE @]
    /\ Avanzar(w, "escribir")
    /\ UNCHANGED <<principal, canal, conexion>>

\* ...and writes the block.
EscribirBloque(w) ==
    /\ pc[w] = "escribir"
    /\ disco' = [disco EXCEPT ![header[w]] = "completo"]
    /\ Resolver(w, "guardado", "lock")
    /\ UNCHANGED <<principal, canal, conexion>>

\* An error of the disk returns with `?`, and ends the thread.
ErrorDeDisco(w) ==
    /\ pc[w] \in {"crear", "escribir"}
    /\ Resolver(w, "perdido", "error")
    /\ UNCHANGED <<principal, canal, conexion, disco>>

\* The peer of a worker goes away.
CerrarConexion(w) ==
    /\ conexion[w] /\ conexion' = [conexion EXCEPT ![w] = FALSE]
    /\ UNCHANGED <<principal, canal, pc, header, salida>>

PasoWorker(w) ==
    \/ TomarCandado(w) \/ RecibirHeader(w) \/ CanalCerrado(w)
    \/ PedirBloque(w) \/ RecibirBloque(w) \/ RecibirNotFound(w) \/ ErrorDeLectura(w)
    \/ CrearArchivo(w) \/ EscribirBloque(w)

Next ==
    \/ PasoMain \/ FallaConectar \/ ErrorAlConstruir
    \/ \E w \in Workers : PasoWorker(w) \/ ErrorAlPedir(w) \/ ErrorDeDisco(w)
                          \/ CerrarConexion(w)

Spec == Init /\ [][Next]_vars

\* Every thread is scheduled, a free mutex is granted, and a peer answers or
\* hangs up; no error is ever forced.
FairSpec == Spec /\ WF_vars(PasoMain) /\ \A w \in Workers : WF_vars(PasoWorker(w))
-----------------------------------------------------------------------------
(* Properties. *)

\* Every variable keeps its type.
TypeOK ==
    /\ main \in PasosMain /\ indice \in Nat /\ emisor \in BOOLEAN
    /\ intentos \in 0..CantRetries /\ server \in Dns \cup {{}}
    /\ cola \in Seq(Headers) /\ candado \in Workers \cup {Nadie}
    /\ pc \in [Workers -> PasosWorker]
    /\ header \in [Workers -> Headers \cup {Nadie}]
    /\ conexion \in [Workers -> BOOLEAN]
    /\ disco \in [Headers -> {"no", "parcial", "completo"}]
    /\ resultado \in [Headers -> Resultados]

Enviado(h) == \/ main = "join" \/ main = "fin_ok"
              \/ main \in {"enviar", "fin_err"} /\ h < indice

EnCola(h) == \E i \in DOMAIN cola : cola[i] = h
EnManos(h) == {w \in Workers : header[w] = h}

\* Each header that is in the channel is there once, and one that a worker has is its own.
SinRepetidos ==
    /\ \A i, j \in DOMAIN cola : i # j => cola[i] # cola[j]
    /\ \A v, w \in Workers : v # w /\ header[v] # Nadie => header[v] # header[w]

ManosOcupadas == \A w \in Workers : header[w] # Nadie <=> pc[w] \in ConHeader

\* What is in the channel is with nobody, and neither is resolved.
EnUnSoloLado ==
    \A h \in Headers :
        /\ EnCola(h) => EnManos(h) = {} /\ resultado[h] = "pendiente"
        /\ EnManos(h) # {} => resultado[h] = "pendiente"

EnAlgunLado ==
    \A h \in Headers :
        resultado[h] = "pendiente" /\ Enviado(h) /\ main # "fin_err" =>
            EnCola(h) \/ EnManos(h) # {}

\* A header is in one place at a time: not sent yet, in the channel (once), with
\* one worker, or resolved.  However the workers interleave, no block is
\* downloaded twice and no header leaves the channel without an owner.
UnSoloLugar == SinRepetidos /\ ManosOcupadas /\ EnUnSoloLado /\ EnAlgunLado

\* The download ends, and so does every thread that was started: the main thread
\* never waits for a worker that waits for the main thread.
Termina ==
    <>[](/\ main \in {"fin_ok", "fin_err", "panico"}
         /\ \A w \in Workers : pc[w] \in Finales \cup {"sin_crear"})

=============================================================================
