----------------------------- MODULE ChainSync -----------------------------
(***************************************************************************)
(* How the local chain follows the peer's, across the deaths of the        *)
(* process: iniciar_nodo (src/src/main.rs), initial_block_download         *)
(* (src/src/node.rs), actualizar_header_blockchain and guardar_headers     *)
(* (src/src/block_header.rs), getheaders_loop (src/src/getheaders.rs) and  *)
(* obtener_headers_validos_fecha (src/src/block.rs).                       *)
(*                                                                         *)
(* The process loads the headers file, asks for the headers that follow    *)
(* page by page, saves each one, downloads the blocks of the new ones, and *)
(* listens for more.  It may be killed at any point, and main turns every  *)
(* error on this path into exit(1); what is left is the headers file and   *)
(* the blocks directory, from which the next process starts.               *)
(*                                                                         *)
(* ThreadPool has the detail of the download and Listener that of the      *)
(* listener: here the peer sends valid blocks only.                        *)
(***************************************************************************)
EXTENDS Naturals, Sequences, FiniteSets

CONSTANTS
    Red,            \* the peer's chain, oldest first; it starts with the genesis
    LargoInicial,   \* the part of it that exists when the node first starts
    Recientes,      \* blocks whose time is at least timestamp_bloque_inicial
    MaxPagina,      \* headers in a full page of getheaders (2000)
    CantThreads,    \* cant_threads
    AlturaInicial,  \* height_bloque_inicial
    MaxCaidas,      \* bound: times the process is killed
    LineaPartida    \* the process may end between the two writes of a writeln!

Rango(s) == {s[i] : i \in DOMAIN s}
Bloques == Rango(Red)
Desconocido == "desconocido"    \* the hash of a line that is not a header
Nada == [cmd |-> "nada"]

ASSUME ChainSyncAssumption ==
    /\ Red \in Seq(Bloques) /\ \A i, j \in DOMAIN Red : i # j => Red[i] # Red[j]
    /\ LargoInicial \in 1..Len(Red) /\ Recientes \subseteq Bloques
    /\ MaxPagina \in Nat \ {0} /\ CantThreads \in Nat \ {0}
    /\ AlturaInicial \in Nat /\ MaxCaidas \in Nat
    /\ LineaPartida \in BOOLEAN

VARIABLES
    \* the peer and the connection
    largo,      \* length of the part of Red that exists
    pedido,     \* the request the peer has not answered
    entrada,    \* messages the node has not read
    \* the disk
    archivo,    \* lines of the headers file, each the headers written in it
    abierta,    \* its last line lacks the newline
    disco,      \* state of each block's file
    \* the process
    pc,
    headers,    \* the vector of headers
    indice,     \* indice_ultimo_header
    pagina,     \* headers received and not saved
    llena,      \* the page they came in was full
    porBajar,   \* blocks left to download
    utxo,       \* obtain_utxo is done
    \* read by the properties only
    omitidos,   \* blocks that no peer delivered
    perdidos,   \* blocks whose announcement was dropped while another was awaited
    caidas      \* times the process was killed

conexion == <<largo, pedido, entrada>>
lineas == <<archivo, abierta>>
proceso == <<pc, headers, indice, pagina, llena, porBajar, utxo>>
historia == <<omitidos, perdidos, caidas>>
vars == <<conexion, lineas, disco, proceso, historia>>

Escuchando == {"inv", "block", "hex_bloque", "linea_bloque", "crear", "escribir"}
Pasos == {"inicio", "headers", "hex", "linea", "fechas", "bajar"} \cup Escuchando

MsgInv(b) == [cmd |-> "inv", bloque |-> b]
MsgBlock(b) == [cmd |-> "block", bloque |-> b]
MsgHeaders(p) == [cmd |-> "headers", pagina |-> p]
Pedir(cmd, b) == [cmd |-> cmd, desde |-> b]

Init ==
    /\ largo = LargoInicial /\ pedido = Nada /\ entrada = << >>
    /\ archivo = << >> /\ abierta = FALSE
    /\ disco = [b \in Bloques |-> "no"]
    /\ pc = "inicio" /\ headers = << >> /\ indice = 0 /\ pagina = << >>
    /\ llena = FALSE /\ porBajar = {} /\ utxo = FALSE
    /\ omitidos = {} /\ perdidos = {} /\ caidas = 0
-----------------------------------------------------------------------------
(* The peer. *)

\* A new block joins the peer's chain, and it tells the node if there is one.
Minar ==
    /\ largo < Len(Red)
    /\ largo' = largo + 1
    /\ entrada' = IF pc = "inicio" THEN entrada ELSE Append(entrada, MsgInv(Red[largo + 1]))
    /\ UNCHANGED <<pedido, lineas, disco, proceso, historia>>

\* The headers after the one asked for, or after the genesis if it is unknown.
Posteriores(b) ==
    LET k == IF b \in Bloques THEN CHOOSE i \in DOMAIN Red : Red[i] = b ELSE 1
    IN  SubSeq(Red, k + 1, IF k + MaxPagina < largo THEN k + MaxPagina ELSE largo)

Responder ==
    /\ pedido # Nada /\ pedido' = Nada
    /\ entrada' = Append(entrada, IF pedido.cmd = "headers"
                                  THEN MsgHeaders(Posteriores(pedido.desde))
                                  ELSE MsgBlock(pedido.desde))
    /\ UNCHANGED <<largo, lineas, disco, proceso, historia>>
-----------------------------------------------------------------------------
(* The headers file. *)

\* The first write of writeln!: the digits, after whatever the last line holds.
EscribirHeader(b) ==
    /\ archivo' = IF abierta THEN [archivo EXCEPT ![Len(archivo)] = Append(@, b)]
                             ELSE Append(archivo, <<b>>)
    /\ abierta' = TRUE

\* The second one.
EscribirFinDeLinea == abierta' = FALSE /\ archivo' = archivo

\* Of each line, from_bytes reads one header and ignores the rest.
HeadersDe(a) == <<Red[1]>> \o [i \in DOMAIN a |-> a[i][1]]

\* Variant: the headers asked for from the genesis whatever the file holds.
HashGenesis(a) == Red[1]

\* The hash of the last line: that of a header only if the line holds just one.
UltimoHash(a) ==
    IF a = << >> THEN Red[1]
    ELSE IF Len(a[Len(a)]) = 1 THEN a[Len(a)][1] ELSE Desconocido
-----------------------------------------------------------------------------
(* The start of the process. *)

\* Variant: the index computed from the lines, without the case of none.
ArrancarSinCaso ==
    /\ pc = "inicio" /\ pc' = "headers"
    /\ headers' = HeadersDe(archivo)
    /\ indice' = Len(archivo) - 1
    /\ pedido' = Pedir("headers", UltimoHash(archivo))
    /\ UNCHANGED <<largo, entrada, lineas, disco, pagina, llena, porBajar, utxo, historia>>

\* iniciar_nodo connects, and actualizar_header_blockchain loads the file and
\* asks for the first page.
Arrancar ==
    /\ pc = "inicio" /\ pc' = "headers"
    /\ headers' = HeadersDe(archivo)
    /\ indice' = IF archivo = << >> THEN 0 ELSE Len(headers')
    /\ pedido' = Pedir("headers", UltimoHash(archivo))
    /\ UNCHANGED <<largo, entrada, lineas, disco, pagina, llena, porBajar, utxo, historia>>

Recibe(cmd) == entrada # << >> /\ Head(entrada).cmd = cmd /\ entrada' = Tail(entrada)

\* While it waits for a command, the node drops the others: an announcement that
\* comes before a page is in that page, one that comes before a block is lost.
Descartar ==
    /\ pc \in {"headers", "block"} /\ entrada # << >> /\ Head(entrada).cmd # pc
    /\ entrada' = Tail(entrada)
    /\ perdidos' = IF pc = "block" /\ Head(entrada).cmd = "inv"
                   THEN perdidos \cup {Head(entrada).bloque} ELSE perdidos
    /\ UNCHANGED <<largo, pedido, lineas, disco, proceso, omitidos, caidas>>

RecibirPagina ==
    /\ pc = "headers" /\ Recibe("headers") /\ pc' = "hex"
    /\ pagina' = Head(entrada).pagina /\ llena' = (Len(pagina') = MaxPagina)
    /\ UNCHANGED <<largo, pedido, lineas, disco, headers, indice, porBajar, utxo, historia>>

\* guardar_headers, one header at a time.
GuardarHeader ==
    /\ pc = "hex" /\ pagina # << >> /\ pc' = "linea"
    /\ EscribirHeader(Head(pagina))
    /\ UNCHANGED <<conexion, disco, headers, indice, pagina, llena, porBajar, utxo, historia>>

AgregarHeader ==
    /\ pc = "linea" /\ pc' = "hex"
    /\ EscribirFinDeLinea
    /\ headers' = Append(headers, Head(pagina)) /\ pagina' = Tail(pagina)
    /\ UNCHANGED <<conexion, disco, indice, llena, porBajar, utxo, historia>>

\* Variant: the last page taken for an incomplete one.
UltimaSiempre ==
    /\ pc = "hex" /\ pagina = << >>
    /\ pc' = "fechas" /\ pedido' = pedido
    /\ UNCHANGED <<largo, entrada, lineas, disco, headers, indice, pagina, llena, porBajar,
                   utxo, historia>>

\* getheaders_loop asks for another page after a full one.
FinDePagina ==
    /\ pc = "hex" /\ pagina = << >>
    /\ IF llena THEN pc' = "headers" /\ pedido' = Pedir("headers", headers[Len(headers)])
                ELSE pc' = "fechas" /\ pedido' = pedido
    /\ UNCHANGED <<largo, entrada, lineas, disco, headers, indice, pagina, llena, porBajar,
                   utxo, historia>>

\* Variant: the index taken for that of the last header already known.
DesdeElUltimo ==
    LET recientes == {i \in DOMAIN headers : headers[i] \in Recientes}
        primero == CHOOSE i \in recientes : \A j \in recientes : i <= j
        desde == IF primero > indice + 2 THEN primero ELSE indice + 2
    IN  IF recientes = {} THEN Rango(headers)
        ELSE {headers[i] : i \in {j \in DOMAIN headers : j >= desde}}

\* obtener_headers_validos_fecha: from the first recent header on, or from the
\* first header that is not in the file if that is later; without a recent
\* header, from the genesis on.
HeadersValidosFecha ==
    LET recientes == {i \in DOMAIN headers : headers[i] \in Recientes}
        primero == CHOOSE i \in recientes : \A j \in recientes : i <= j
        desde == IF primero > indice + 1 THEN primero ELSE indice + 1
    IN  IF recientes = {} THEN Rango(headers)
        ELSE {headers[i] : i \in {j \in DOMAIN headers : j >= desde}}

ElegirBloques ==
    /\ pc = "fechas" /\ pc' = "bajar"
    /\ porBajar' = HeadersValidosFecha
    /\ UNCHANGED <<conexion, lineas, disco, headers, indice, pagina, llena, utxo, historia>>

\* The pool stores a block, or its peer does not deliver it.
BajarBloque ==
    /\ pc = "bajar"
    /\ \E b \in porBajar :
          /\ porBajar' = porBajar \ {b}
          /\ \/ disco' = [disco EXCEPT ![b] = "completo"] /\ omitidos' = omitidos
             \/ omitidos' = omitidos \cup {b} /\ disco' = disco
    /\ UNCHANGED <<conexion, lineas, pc, headers, indice, pagina, llena, utxo, perdidos, caidas>>

\* The process ends; its connection and its memory go with it.
Terminar ==
    /\ pc \in {"linea", "linea_bloque"} => LineaPartida
    /\ pc' = "inicio" /\ headers' = << >> /\ indice' = 0 /\ pagina' = << >>
    /\ llena' = FALSE /\ porBajar' = {} /\ utxo' = FALSE
    /\ pedido' = Nada /\ entrada' = << >> /\ largo' = largo

\* The download is over: the GUI gets the headers from height_bloque_inicial on
\* (a slice that panics if there are not so many) and the listener is started.
Escuchar ==
    /\ pc = "bajar" /\ porBajar = {}
    /\ IF AlturaInicial > Len(headers) THEN Terminar
       ELSE pc' = "inv" /\ UNCHANGED <<conexion, headers, indice, pagina, llena, porBajar, utxo>>
    /\ UNCHANGED <<lineas, disco, historia>>

\* Variant: the files looked up by header, and a missing one taken for an error.
UtxoDeLosHeaders ==
    /\ pc \in Escuchando /\ ~utxo
    /\ IF \E b \in Rango(headers) : disco[b] # "completo" THEN Terminar
       ELSE utxo' = TRUE /\ UNCHANGED <<conexion, pc, headers, indice, pagina, llena, porBajar>>
    /\ UNCHANGED <<lineas, disco, historia>>

\* The directory of the blocks: save_block creates it with the first file.
HayDirectorio == \E b \in Bloques : disco[b] # "no"

\* obtain_utxo reads every block file while the listener runs; a directory that
\* does not exist cannot be read, half a block does not parse, and both end the
\* process.
ObtenerUtxo ==
    /\ pc \in Escuchando /\ ~utxo
    /\ IF ~HayDirectorio \/ \E b \in Bloques : disco[b] = "parcial" THEN Terminar
       ELSE utxo' = TRUE /\ UNCHANGED <<conexion, pc, headers, indice, pagina, llena, porBajar>>
    /\ UNCHANGED <<lineas, disco, historia>>
-----------------------------------------------------------------------------
(* The listener. *)

RecibirInv ==
    /\ pc = "inv" /\ Recibe("inv") /\ pc' = "block"
    /\ pedido' = Pedir("block", Head(entrada).bloque)
    /\ UNCHANGED <<largo, lineas, disco, headers, indice, pagina, llena, porBajar, utxo, historia>>

RecibirBloque ==
    /\ pc = "block" /\ Recibe("block") /\ pc' = "hex_bloque"
    /\ pagina' = <<Head(entrada).bloque>>
    /\ UNCHANGED <<largo, pedido, lineas, disco, headers, indice, llena, porBajar, utxo, historia>>

GuardarHeaderDeBloque ==
    /\ pc = "hex_bloque" /\ pc' = "linea_bloque"
    /\ EscribirHeader(pagina[1])
    /\ UNCHANGED <<conexion, disco, headers, indice, pagina, llena, porBajar, utxo, historia>>

AgregarHeaderDeBloque ==
    /\ pc = "linea_bloque" /\ pc' = "crear"
    /\ EscribirFinDeLinea /\ headers' = Append(headers, pagina[1])
    /\ UNCHANGED <<conexion, disco, indice, pagina, llena, porBajar, utxo, historia>>

CrearArchivo ==
    /\ pc = "crear" /\ pc' = "escribir"
    /\ disco' = [disco EXCEPT ![pagina[1]] = IF @ = "no" THEN "parcial" ELSE @]
    /\ UNCHANGED <<conexion, lineas, headers, indice, pagina, llena, porBajar, utxo, historia>>

EscribirBloque ==
    /\ pc = "escribir" /\ pc' = "inv" /\ pagina' = << >>
    /\ disco' = [disco EXCEPT ![pagina[1]] = "completo"]
    /\ UNCHANGED <<conexion, lineas, headers, indice, llena, porBajar, utxo, historia>>
-----------------------------------------------------------------------------
\* The process is killed, or an error makes main exit; the workers of the pool
\* may leave the files they were writing unfinished.
Caer ==
    /\ pc # "inicio" /\ caidas < MaxCaidas
    /\ caidas' = caidas + 1
    /\ \E P \in SUBSET porBajar :
          /\ Cardinality(P) <= CantThreads
          /\ disco' = [b \in Bloques |-> IF b \in P /\ disco[b] = "no" THEN "parcial"
                                                                     ELSE disco[b]]
    /\ Terminar
    /\ UNCHANGED <<lineas, omitidos, perdidos>>

PasoNodo ==
    \/ Arrancar \/ Descartar \/ RecibirPagina \/ GuardarHeader \/ AgregarHeader
    \/ FinDePagina \/ ElegirBloques \/ BajarBloque \/ Escuchar
    \/ RecibirInv \/ RecibirBloque \/ GuardarHeaderDeBloque \/ AgregarHeaderDeBloque
    \/ CrearArchivo \/ EscribirBloque

Next == PasoNodo \/ ObtenerUtxo \/ Minar \/ Responder \/ Caer

Spec == Init /\ [][Next]_vars

\* The process is started again whenever it ends, its threads are scheduled, and
\* the peer answers; nothing forces a new block or a death.
FairSpec == Spec /\ WF_vars(PasoNodo) /\ WF_vars(ObtenerUtxo) /\ WF_vars(Responder)
-----------------------------------------------------------------------------
(* Properties. *)

\* Every variable keeps its type.
TypeOK ==
    /\ largo \in LargoInicial..Len(Red)
    /\ pedido \in {Nada} \cup {Pedir("block", b) : b \in Bloques}
                 \cup {Pedir("headers", b) : b \in Bloques \cup {Desconocido}}
    /\ \A i \in DOMAIN entrada : entrada[i].cmd \in {"inv", "block", "headers"}
    /\ archivo \in Seq(Seq(Bloques)) /\ abierta \in BOOLEAN
    /\ disco \in [Bloques -> {"no", "parcial", "completo"}]
    /\ pc \in Pasos /\ headers \in Seq(Bloques) /\ indice \in Nat
    /\ pagina \in Seq(Bloques) /\ llena \in BOOLEAN /\ utxo \in BOOLEAN
    /\ porBajar \subseteq Bloques /\ omitidos \subseteq Bloques /\ perdidos \subseteq Bloques
    /\ caidas \in 0..MaxCaidas

\* The place of a block in the peer's chain.
Lugar(b) == CHOOSE i \in DOMAIN Red : Red[i] = b

\* s has its blocks in the order of the chain, each one once.
EnOrden(s) == \A i, j \in DOMAIN s : i < j => Lugar(s[i]) < Lugar(s[j])

\* s skips no block before its last one, but those whose announcement was lost.
SinSaltos(s) == \A i \in 1..Lugar(s[Len(s)]) : Red[i] \in Rango(s) \cup perdidos

\* Whenever and however often the process dies, the file holds the headers of the
\* peer's chain in order, one per line: the next process continues where the last
\* write left off, no header is saved twice, and none is skipped but those of
\* blocks announced while another block was awaited (guardar_headers).
ArchivoRecupera ==
    /\ EnOrden(HeadersDe(archivo)) /\ SinSaltos(HeadersDe(archivo))
    /\ \A i \in DOMAIN archivo : Len(archivo[i]) = 1
    /\ pc # "inicio" =>
          HeadersDe(archivo) = headers \o (IF pc \in {"linea", "linea_bloque"}
                                           THEN <<pagina[1]>> ELSE << >>)

\* The blocks announced that wait in the socket, and the one asked for or read and
\* not yet among the headers.
Anunciados == {entrada[i].bloque : i \in {j \in DOMAIN entrada : entrada[j].cmd = "inv"}}
EnCurso ==
    {entrada[i].bloque : i \in {j \in DOMAIN entrada : entrada[j].cmd = "block"}}
        \cup {b \in Bloques : pedido = Pedir("block", b)}
        \cup (IF pc \in {"hex_bloque", "linea_bloque"} THEN {pagina[1]} ELSE {})

\* Nothing falls between the synchronisation and the listener: once the loop of
\* getheaders is over, each block of the peer's chain is among the headers, or
\* waits in the socket (during the whole download, if need be), or is being
\* fetched; the only ones that are nowhere were announced while the listener
\* awaited another block.  And what is still to come is not there already.
SinHuecos ==
    pc \in {"fechas", "bajar"} \cup Escuchando =>
        /\ \A i \in 1..largo : Red[i] \in Rango(headers) \cup Anunciados \cup EnCurso \cup perdidos
        /\ Rango(headers) \cap (Anunciados \cup EnCurso) = {}

\* Of the headers the running process added, each one from the configured date
\* on has its block, or is being downloaded or stored, or no peer delivered it:
\* the index handed from the headers to the blocks is off by nothing.
BloquesDelProceso ==
    pc \in {"bajar"} \cup Escuchando =>
        \A i \in indice + 1..Len(headers) :
            (\E j \in 1..i : headers[j] \in Recientes) =>
                \/ disco[headers[i]] = "completo" \/ headers[i] \in porBajar \cup omitidos
                \/ i = Len(headers) /\ pc \in {"crear", "escribir"}

\* Once some block is stored, and unless a death leaves half a block on disk, the
\* node ends up listening, with its wallet loaded and every header of the peer's
\* chain but those lost while a block was awaited.  (With no block stored every
\* start ends in obtain_utxo, until a block is announced in time.)
Sincroniza ==
    <>(\E b \in Bloques : disco[b] = "completo") /\ <>[](\A b \in Bloques : disco[b] # "parcial") =>
        <>[](pc = "inv" /\ utxo /\ \A i \in 1..largo : Red[i] \in Rango(headers) \cup perdidos)

=============================================================================
