------------------------------ MODULE Listener ------------------------------
(***************************************************************************)
(* The listener thread of the node: recibir_nuevos_bloques_txs             *)
(* (src/src/node.rs) and the message loop it is built on,                  *)
(* handle_specific_message (src/src/message_handler.rs).                   *)
(*                                                                         *)
(* The thread reads one TCP stream.  It waits for an "inv", re-sends it as *)
(* a "getdata", waits for the "block" or the "tx" messages that answer,    *)
(* and discards every other message it meets while it waits.  A block that *)
(* passes the proof of work and the proof of inclusion goes, under the     *)
(* lock of the headers vector, to the GUI, the headers file, the vector,   *)
(* the blocks directory and the wallet, in that order; each of these calls *)
(* may fail, and a failure ends the thread for good.                       *)
(*                                                                         *)
(* A header is identified with its block: the Merkle root binds the two.   *)
(***************************************************************************)
EXTENDS Naturals, Sequences, FiniteSets

CONSTANTS
    Bloques,        \* blocks (and headers) that may exist
    Txns,           \* transactions that may be announced
    Otros,          \* inventory entries of any other type
    Validos,        \* blocks that pass proof_of_work and proof_of_inclusion
    Ilegibles,      \* blocks and transactions whose payload does not parse
    Disponibles,    \* blocks and transactions the remote peer can deliver
    Base,           \* the headers vector when the listener starts
    Inventarios,    \* the inventories the peer may announce
    MaxAnuncios,    \* bound: unsolicited messages the peer sends
    CantMaxTxn,     \* cant_max_txn_memoria
    ServerMode,     \* server_mode
    NotFoundPorItem \* the peer answers every item it lacks with its own notfound

Items == Bloques \cup Txns \cup Otros
Nada == "nada"

ASSUME ItemsAssumption ==
    /\ Bloques \cap Txns = {} /\ Bloques \cap Otros = {} /\ Txns \cap Otros = {}
    /\ Validos \subseteq Bloques
    /\ Ilegibles \subseteq Bloques \cup Txns
    /\ Disponibles \subseteq Bloques \cup Txns
    /\ Nada \notin Items

\* The vector always starts with the genesis header.
ASSUME BaseAssumption == Base \in Seq(Bloques) /\ Base # << >>

ASSUME ConfigAssumption ==
    /\ Inventarios \subseteq Seq(Items)
    /\ MaxAnuncios \in Nat
    /\ CantMaxTxn \in Nat
    /\ ServerMode \in BOOLEAN
    /\ NotFoundPorItem \in BOOLEAN

VARIABLES
    \* the connection with the remote peer
    conectado,  \* FALSE once the peer has closed it
    anuncios,   \* unsolicited messages sent so far
    entrada,    \* messages the peer has sent and the node has not read
    pedidos,    \* items of the getdata messages the peer has not answered
    \* locals of the thread
    pc,         \* what the thread does next; when it waits, the command it waits for
    inv,        \* the inventory being handled
    faltan,     \* iterations left in the loop of recibir_transaccion
    actual,     \* the block or the transaction being handled
    \* state shared with other threads, and the disk
    headers,    \* Arc<Mutex<Vec<BlockHeader>>>
    archivo,    \* lines of the headers file (which leaves the genesis out)
    disco,      \* state of each block's file in the blocks directory
    memoria,    \* txn_memory_server
    \* what went down each channel, oldest first
    gui,        \* CargarBloques events
    eventosBloque, eventosTxn,  \* RecibirBloque and RecibirTxn events
    notif,      \* inventories for the clients of the server
    \* a handler of the server
    vista       \* the headers it saw the last time it held the lock

red == <<conectado, anuncios, entrada, pedidos>>
locales == <<pc, inv, faltan, actual>>
cadena == <<headers, archivo, disco>>
canales == <<gui, eventosBloque, eventosTxn, notif>>
vars == <<red, locales, cadena, memoria, canales, vista>>

Esperas == {"inv", "block", "tx"}
\* Variant: the lock released before the block is stored.
CandadoCorto == {"archivo", "memoria"}

\* The steps of validar_bloque that run with the headers vector locked.
ConCandado == {"archivo", "memoria", "crear", "escribir", "evento"}
Pasos == Esperas \cup
         {"getdata_bloque", "validar", "archivo", "memoria", "crear", "escribir",
          "evento", "getdata_tx", "txn_memoria", "txn_wallet", "notificar", "fin"}

MsgInv(i) == [cmd |-> "inv", inv |-> i]
MsgItem(x) == [cmd |-> IF x \in Bloques THEN "block" ELSE "tx", item |-> x]
MsgNotFound == [cmd |-> "notfound"]
MsgPing == [cmd |-> "ping"]
Mensajes == {MsgInv(i) : i \in Inventarios} \cup {MsgItem(x) : x \in Bloques \cup Txns}
            \cup {MsgNotFound, MsgPing}

EstadosArchivo == {"no", "parcial", "completo"}

\* The vector and the file agree when the thread starts; any subset of the
\* blocks of the initial chain is on disk.
Init ==
    /\ conectado = TRUE /\ anuncios = 0 /\ entrada = << >> /\ pedidos = << >>
    /\ pc = "inv" /\ inv = << >> /\ faltan = 0 /\ actual = Nada
    /\ headers = Base /\ archivo = Tail(Base)
    /\ \E B \in SUBSET {Base[i] : i \in DOMAIN Base} :
          disco = [b \in Bloques |-> IF b \in B THEN "completo" ELSE "no"]
    /\ memoria = << >>
    /\ gui = << >> /\ eventosBloque = << >> /\ eventosTxn = << >> /\ notif = << >>
    /\ vista = Base
-----------------------------------------------------------------------------
(* The remote peer. *)

\* The peer announces an inventory, or sends a ping.
Anunciar ==
    /\ conectado /\ anuncios < MaxAnuncios
    /\ anuncios' = anuncios + 1
    /\ \E m \in {MsgInv(i) : i \in Inventarios} \cup {MsgPing} :
          entrada' = Append(entrada, m)
    /\ UNCHANGED <<conectado, pedidos, locales, cadena, memoria, canales, vista>>

\* The peer answers the oldest item it was asked for.  Entries of other types
\* get no answer; a missing item gets a notfound, unless it shares one.
Responder ==
    /\ conectado /\ pedidos # << >>
    /\ pedidos' = Tail(pedidos)
    /\ LET x == Head(pedidos) IN
          \/ x \in Disponibles /\ entrada' = Append(entrada, MsgItem(x))
          \/ x \notin Disponibles \cup Otros /\ entrada' = Append(entrada, MsgNotFound)
          \/ x \notin Disponibles /\ (x \in Otros \/ ~NotFoundPorItem)
             /\ entrada' = entrada
    /\ UNCHANGED <<conectado, anuncios, locales, cadena, memoria, canales, vista>>

CerrarConexion ==
    /\ conectado /\ conectado' = FALSE
    /\ UNCHANGED <<anuncios, entrada, pedidos, locales, cadena, memoria, canales, vista>>
-----------------------------------------------------------------------------
(* handle_specific_message, and the inv that starts an iteration. *)

Recibe(cmd) == entrada # << >> /\ Head(entrada).cmd = cmd /\ entrada' = Tail(entrada)

\* handle_message: while the thread waits for one command, any other message is
\* dropped (after a pong, for a ping), except a notfound that answers a request.
DescartarMensaje ==
    /\ pc \in Esperas /\ entrada # << >>
    /\ Head(entrada).cmd # pc
    /\ ~(Head(entrada).cmd = "notfound" /\ pc \in {"block", "tx"})
    /\ entrada' = Tail(entrada)
    /\ UNCHANGED <<conectado, anuncios, pedidos, locales, cadena, memoria, canales, vista>>

\* The type of the whole inventory is the type of its first entry.  An empty
\* inventory divides by zero in Inv::from_bytes and kills the thread.
RecibirInv ==
    /\ pc = "inv" /\ Recibe("inv")
    /\ LET i == Head(entrada).inv IN
          IF i = << >> THEN pc' = "fin" /\ inv' = inv
          ELSE \/ i[1] \in Bloques /\ pc' = "getdata_bloque" /\ inv' = i
               \/ i[1] \in Txns /\ pc' = "getdata_tx" /\ inv' = i
               \/ i[1] \in Otros /\ pc' = "inv" /\ inv' = inv
    /\ UNCHANGED <<conectado, anuncios, pedidos, faltan, actual, cadena, memoria,
                   canales, vista>>

\* After a handled inv, it goes to the notification thread of the server; a
\* closed channel is only logged.
Notificar ==
    /\ pc = "notificar"
    /\ pc' = "inv" /\ inv' = << >>
    /\ \/ ServerMode /\ notif' = Append(notif, inv)
       \/ notif' = notif
    /\ UNCHANGED <<red, faltan, actual, cadena, memoria, gui, eventosBloque,
                   eventosTxn, vista>>
-----------------------------------------------------------------------------
(* recibir_bloque and validar_bloque. *)

\* The whole inventory is asked for, but only one "block" is awaited.
PedirBloque ==
    /\ pc = "getdata_bloque" /\ pc' = "block"
    /\ pedidos' = pedidos \o inv
    /\ UNCHANGED <<conectado, anuncios, entrada, inv, faltan, actual, cadena, memoria,
                   canales, vista>>

RecibirBloque ==
    /\ pc = "block" /\ Recibe("block")
    /\ LET b == Head(entrada).item IN
          \/ b \in Ilegibles /\ pc' = "fin" /\ actual' = actual
          \/ b \notin Ilegibles /\ pc' = "validar" /\ actual' = b
    /\ UNCHANGED <<conectado, anuncios, pedidos, inv, faltan, cadena, memoria, canales,
                   vista>>

\* A rejected block is logged; its inv is notified all the same.
RechazarBloque ==
    /\ pc = "validar" /\ actual \notin Validos
    /\ pc' = "notificar" /\ actual' = Nada
    /\ UNCHANGED <<red, inv, faltan, cadena, memoria, canales, vista>>

\* Variant: the GUI told of the height after the push.
AceptarConAlturaNueva ==
    /\ pc = "validar" /\ actual \in Validos
    /\ pc' = "archivo"
    /\ gui' = Append(gui, [bloque |-> actual, altura |-> Len(headers) + 1])
    /\ UNCHANGED <<red, inv, faltan, actual, cadena, memoria, eventosBloque,
                   eventosTxn, notif, vista>>

\* An accepted block: take the lock and tell the GUI the block and its height.
AceptarBloque ==
    /\ pc = "validar" /\ actual \in Validos
    /\ pc' = "archivo"
    /\ gui' = Append(gui, [bloque |-> actual, altura |-> Len(headers)])
    /\ UNCHANGED <<red, inv, faltan, actual, cadena, memoria, eventosBloque,
                   eventosTxn, notif, vista>>

\* Variant: no line for a header whose block is already on disk.
EscribirHeaderNuevo ==
    /\ pc = "archivo" /\ pc' = "memoria"
    /\ archivo' = IF disco[actual] = "no" THEN Append(archivo, actual) ELSE archivo
    /\ UNCHANGED <<red, inv, faltan, actual, headers, disco, memoria, canales, vista>>

\* Variant: the push forgotten.
EscribirSinAgregar ==
    /\ pc = "archivo" /\ pc' = "crear"
    /\ archivo' = Append(archivo, actual)
    /\ UNCHANGED <<red, inv, faltan, actual, headers, disco, memoria, canales, vista>>

\* writeln! of the header in the headers file.
EscribirHeader ==
    /\ pc = "archivo" /\ pc' = "memoria"
    /\ archivo' = Append(archivo, actual)
    /\ UNCHANGED <<red, inv, faltan, actual, headers, disco, memoria, canales, vista>>

\* Variant: the wallet told before the block is stored.
AgregarSinGuardar ==
    /\ pc = "memoria" /\ pc' = "evento"
    /\ headers' = Append(headers, actual)
    /\ UNCHANGED <<red, inv, faltan, actual, archivo, disco, memoria, canales, vista>>

\* push of the header in the shared vector.
AgregarHeader ==
    /\ pc = "memoria" /\ pc' = "crear"
    /\ headers' = Append(headers, actual)
    /\ UNCHANGED <<red, inv, faltan, actual, archivo, disco, memoria, canales, vista>>

\* Variant: the file truncated when it is opened.
CrearTruncando ==
    /\ pc = "crear" /\ pc' = "escribir"
    /\ disco' = [disco EXCEPT ![actual] = "parcial"]
    /\ UNCHANGED <<red, inv, faltan, actual, headers, archivo, memoria, canales, vista>>

\* guardar_bloque_memoria opens the block's file without truncating it...
CrearArchivo ==
    /\ pc = "crear" /\ pc' = "escribir"
    /\ disco' = [disco EXCEPT ![actual] = IF @ = "no" THEN "parcial" ELSE @]
    /\ UNCHANGED <<red, inv, faltan, actual, headers, archivo, memoria, canales, vista>>

\* ...and writes the block into it.
EscribirBloque ==
    /\ pc = "escribir" /\ pc' = "evento"
    /\ disco' = [disco EXCEPT ![actual] = "completo"]
    /\ UNCHANGED <<red, inv, faltan, actual, headers, archivo, memoria, canales, vista>>

\* The wallet is told; the lock is released when validar_bloque returns.
EnviarBloque ==
    /\ pc = "evento" /\ pc' = "notificar"
    /\ eventosBloque' = Append(eventosBloque, actual) /\ actual' = Nada
    /\ UNCHANGED <<red, inv, faltan, cadena, memoria, gui, eventosTxn, notif, vista>>
-----------------------------------------------------------------------------
(* recibir_transaccion. *)

PedirTransacciones ==
    /\ pc = "getdata_tx" /\ pc' = "tx"
    /\ pedidos' = pedidos \o inv
    /\ faltan' = Len(inv)
    /\ UNCHANGED <<conectado, anuncios, entrada, inv, actual, cadena, memoria, canales,
                   vista>>

\* Variant: one iteration too many.
SiguienteDeMas ==
    /\ faltan' = faltan - 1
    /\ pc' = IF faltan = 0 THEN "notificar" ELSE "tx"

\* The end of one iteration of the loop that waits for the transactions.
SiguienteTransaccion ==
    /\ faltan' = faltan - 1
    /\ pc' = IF faltan = 1 THEN "notificar" ELSE "tx"

RecibirTransaccion ==
    /\ pc = "tx" /\ Recibe("tx")
    /\ LET t == Head(entrada).item IN
          \/ t \in Ilegibles /\ pc' = "fin" /\ actual' = actual
          \/ /\ t \notin Ilegibles /\ actual' = t
             /\ pc' = IF ServerMode THEN "txn_memoria" ELSE "txn_wallet"
    /\ UNCHANGED <<conectado, anuncios, pedidos, inv, faltan, cadena, memoria, canales,
                   vista>>

\* add_txn_in_memory: the oldest transaction makes room for the new one.  With a
\* capacity of zero, remove(0) on the empty vector panics.
AgregarTransaccion ==
    /\ pc = "txn_memoria"
    /\ IF Len(memoria) = CantMaxTxn /\ memoria = << >>
          THEN pc' = "fin" /\ memoria' = memoria
          ELSE /\ pc' = "txn_wallet"
               /\ memoria' = Append(IF Len(memoria) = CantMaxTxn THEN Tail(memoria)
                                                                ELSE memoria, actual)
    /\ UNCHANGED <<red, inv, faltan, actual, cadena, canales, vista>>

EnviarTransaccion ==
    /\ pc = "txn_wallet" /\ SiguienteTransaccion
    /\ eventosTxn' = Append(eventosTxn, actual) /\ actual' = Nada
    /\ UNCHANGED <<red, inv, cadena, memoria, gui, eventosBloque, notif, vista>>
-----------------------------------------------------------------------------
(* Errors, and the rest of the program. *)

\* Variant: a notfound does not count as an answer in the transactions' loop.
NotFoundSinContar ==
    /\ Recibe("notfound")
    /\ \/ pc = "block" /\ pc' = "fin"
       \/ pc = "tx" /\ pc' = "tx"
    /\ UNCHANGED <<conectado, anuncios, pedidos, inv, faltan, actual, cadena, memoria,
                   canales, vista>>

\* A notfound ends an iteration of the transactions' loop, which ignores errors;
\* recibir_bloque returns it with `?`, and so does its caller.
RecibirNotFound ==
    /\ Recibe("notfound")
    /\ \/ pc = "block" /\ pc' = "fin" /\ faltan' = faltan
       \/ pc = "tx" /\ SiguienteTransaccion
    /\ UNCHANGED <<conectado, anuncios, pedidos, inv, actual, cadena, memoria, canales,
                   vista>>

\* Reading from a closed connection, once everything sent has been read.
ErrorDeLectura ==
    /\ ~conectado /\ entrada = << >>
    /\ \/ pc \in {"inv", "block"} /\ pc' = "fin" /\ faltan' = faltan
       \/ pc = "tx" /\ SiguienteTransaccion
    /\ UNCHANGED <<red, inv, actual, cadena, memoria, canales, vista>>

\* Variant: an error of guardar_bloque_memoria is logged, and the thread goes on.
FallarYSeguir ==
    /\ pc \in {"crear", "escribir"} /\ pc' = "notificar" /\ actual' = Nada
    /\ UNCHANGED <<red, inv, faltan, cadena, memoria, canales, vista>>

\* Variant: an error of the send to the wallet is logged, and the thread goes on.
FallarElEvento ==
    /\ pc = "evento" /\ pc' = "notificar" /\ actual' = Nada
    /\ UNCHANGED <<red, inv, faltan, cadena, memoria, canales, vista>>

\* Any other call that returns with `?`: a write on a closed connection, a
\* poisoned lock, a closed channel, a full disk.  (ChainSync has the header that
\* is only half written.)
Fallar ==
    /\ \/ ~conectado /\ pc \in {"getdata_bloque", "getdata_tx"}
       \/ pc = "validar" /\ actual \in Validos
       \/ pc \in {"archivo", "crear", "escribir", "evento", "txn_memoria", "txn_wallet"}
    /\ pc' = "fin"
    /\ UNCHANGED <<red, inv, faltan, actual, cadena, memoria, canales, vista>>

\* recibir_getheaders, in a handler of the server, reads the vector under its lock.
LeerHeaders ==
    /\ pc \notin ConCandado /\ vista # headers
    /\ vista' = headers
    /\ UNCHANGED <<red, locales, cadena, memoria, canales>>

PasoListener ==
    \/ DescartarMensaje \/ RecibirInv \/ Notificar
    \/ PedirBloque \/ RecibirBloque \/ RechazarBloque \/ AceptarBloque
    \/ EscribirHeader \/ AgregarHeader \/ CrearArchivo \/ EscribirBloque \/ EnviarBloque
    \/ PedirTransacciones \/ RecibirTransaccion \/ AgregarTransaccion
    \/ EnviarTransaccion \/ RecibirNotFound \/ ErrorDeLectura

Next ==
    \/ Anunciar \/ Responder \/ CerrarConexion
    \/ PasoListener \/ Fallar \/ LeerHeaders

Spec == Init /\ [][Next]_vars

\* The thread is scheduled by the operating system, and the peer answers what
\* it is asked; failures, announcements and readers are never forced.
FairSpec == Spec /\ WF_vars(PasoListener) /\ WF_vars(Responder)
-----------------------------------------------------------------------------
(* Properties. *)

\* Every variable keeps its type.
TypeOK ==
    /\ conectado \in BOOLEAN /\ anuncios \in 0..MaxAnuncios
    /\ entrada \in Seq(Mensajes) /\ pedidos \in Seq(Items)
    /\ pc \in Pasos /\ inv \in Seq(Items) /\ faltan \in Nat
    /\ actual \in Bloques \cup Txns \cup {Nada}
    /\ headers \in Seq(Bloques) /\ archivo \in Seq(Bloques)
    /\ disco \in [Bloques -> EstadosArchivo]
    /\ memoria \in Seq(Txns)
    /\ gui \in Seq([bloque : Bloques, altura : Nat])
    /\ eventosBloque \in Seq(Bloques) /\ eventosTxn \in Seq(Txns)
    /\ notif \in Seq(Seq(Items)) /\ vista \in Seq(Bloques)

Nuevos == Len(headers) - Len(Base)  \* headers the listener has added

\* The headers file is the vector without its genesis, except between the write
\* of a header and its push: whatever error ends the thread, the next start of
\* the node loads exactly the headers the other threads saw (validar_bloque).
ArchivoSigueAMemoria ==
    /\ Len(archivo) = Len(headers) - 1 + (IF pc = "memoria" THEN 1 ELSE 0)
    /\ \A i \in 1..Len(headers) - 1 : archivo[i] = headers[i + 1]

\* Of the headers the listener added, only the last can lack its complete block
\* file, and only while it is being stored or after the failure that ended the
\* thread (validar_bloque pushes the header before guardar_bloque_memoria).
BloquesRespaldados ==
    \A i \in Len(Base) + 1..Len(headers) :
        \/ disco[headers[i]] = "completo"
        \/ i = Len(headers) /\ pc \in {"crear", "escribir", "fin"}

\* The wallet hears of the new blocks in the order of the chain, each once, each
\* after its file is complete, and it is never more than one block behind: no
\* block enters the chain before the previous one was handed over.
EventosEnOrden ==
    /\ Len(eventosBloque) \in {Nuevos - 1, Nuevos}
    /\ Len(eventosBloque) = Nuevos \/ pc \in {"crear", "escribir", "evento", "fin"}
    /\ \A i \in 1..Len(eventosBloque) :
          /\ eventosBloque[i] = headers[Len(Base) + i]
          /\ disco[eventosBloque[i]] = "completo"

\* The height the GUI shows for a block is its index in the vector, although the
\* event is sent before the header is pushed; only an error in between leaves
\* the GUI with one block the chain does not have.
AlturasCoinciden ==
    /\ Len(gui) \in {Nuevos, Nuevos + 1}
    /\ Len(gui) = Nuevos \/ pc \in {"archivo", "memoria", "fin"}
    /\ \A i \in 1..Len(gui) :
          /\ gui[i].altura = Len(Base) + i - 1
          /\ i <= Nuevos => gui[i].bloque = headers[gui[i].altura + 1]

\* A handler of the server that locks the vector never sees a header whose block
\* it could not deliver, as long as no error has ended the listener: the lock
\* spans the push and the write of the block (validar_bloque).
VistaRespaldada ==
    pc # "fin" =>
        \A i \in Len(Base) + 1..Len(vista) : disco[vista[i]] = "completo"

EsPrefijo(s, t) == Len(s) <= Len(t) /\ \A i \in 1..Len(s) : s[i] = t[i]

\* No step of the thread shortens or rewrites the chain, in memory or in the
\* file, nor damages a block file that was complete: a block received again is
\* written over its own file without truncating it, so obtain_utxo, which reads
\* the directory at the same time, never meets half of it.
NadaSePierde ==
    [][/\ EsPrefijo(headers, headers') /\ EsPrefijo(archivo, archivo')
       /\ \A b \in Bloques : disco[b] = "completo" => disco'[b] = "completo"]_vars

\* The listener implements the log that the rest of the node relies on.
Abstracta == INSTANCE CadenaPublicada WITH
    cadena <- headers,
    guardados <- {b \in Bloques : disco[b] = "completo"},
    publicados <- Len(Base) + Len(eventosBloque)

Refina == Abstracta!Spec

(* The next two hold for a peer that sends one-block inventories and           *)
(* inventories of transactions only, and answers every item it is asked for.  *)

\* The thread always gets back to waiting for an inv (or has ended): it never
\* waits forever for an answer that will not come; no read has a timeout.
InvSeAtiende == pc \notin {"inv", "fin"} ~> pc \in {"inv", "fin"}

\* A valid block that the peer announces, once its inv is taken, gets into the
\* chain and onto the disk, unless an error ends the thread.
BloqueSeGuarda ==
    \A b \in Validos \cap Disponibles :
        pc = "getdata_bloque" /\ inv = <<b>> ~>
            \/ pc = "fin"
            \/ disco[b] = "completo" /\ \E i \in DOMAIN headers : headers[i] = b

=============================================================================
