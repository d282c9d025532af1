---------------------------- MODULE HeaderIndex ----------------------------
(***************************************************************************)
(* How the server answers getheaders: recibir_getheaders and               *)
(* actualizar_headers_hash_height (src/src/server_messages.rs) over the    *)
(* index that obtener_hash_height_headers builds (src/src/server.rs).      *)
(*                                                                         *)
(* Every client has a handler thread.  The handlers share the headers      *)
(* vector, which the listener extends, and a map from the hash of a header *)
(* to its height, which each request brings up to date first.  Both are    *)
(* behind mutexes that are taken in the same order, twice per request: to  *)
(* update the map, and to build and write the answer.                      *)
(*                                                                         *)
(* Heights count from 0, as in the code: height n is headers[n + 1].  The  *)
(* vector may hold a header twice, since the listener does not look.       *)
(***************************************************************************)
EXTENDS Naturals, Sequences, FiniteSets

CONSTANTS
    Bloques,        \* headers, identified with their hashes
    Handlers,       \* handler threads, one per client
    Base,           \* the vector when the server starts
    Pedidos,        \* the getheaders a client may send: [desde, hasta]
    MaxHeaders,     \* MAX_HEADERS_POR_MENSAJE
    MaxLargo,       \* bound: length of the vector
    MaxPedidos      \* bound: requests of each client

Nadie == "nadie"

ASSUME HeaderIndexAssumption ==
    /\ Base \in Seq(Bloques) /\ Base # << >>
    /\ IsFiniteSet(Bloques)
    /\ Nadie \notin Handlers
    /\ \A p \in Pedidos : Len(p.desde) \in Nat /\ DOMAIN p.desde = 1..Len(p.desde)
    /\ MaxHeaders \in Nat /\ MaxLargo \in Nat /\ MaxPedidos \in Nat

VARIABLES
    headers,        \* Arc<Mutex<Vec<BlockHeader>>>
    alturas,        \* headers_hash_height
    candadoHeaders, \* who holds the mutex of the vector
    candadoMapa,    \* who holds the mutex of the map
    pc,             \* what each handler does next
    pedido,         \* the request each handler is serving
    respuesta,      \* the headers it is about to send
    hechos,         \* requests read by each handler
    procesados      \* length of the vector at the last update (for the properties)

candados == <<candadoHeaders, candadoMapa>>
handler == <<pc, pedido, respuesta, hechos>>
vars == <<headers, alturas, candados, handler, procesados>>

PasosHandler == {"leer", "act_headers", "act_mapa", "actualizar", "resp_headers",
                 "resp_mapa", "responder", "enviar", "fin"}

Rango(s) == {s[i] : i \in DOMAIN s}
UltimaAltura(s, b) == (CHOOSE i \in DOMAIN s :
                          s[i] = b /\ \A j \in DOMAIN s : s[j] = b => j <= i) - 1

\* obtener_hash_height_headers: of equal headers, the last one inserted stays.
Init ==
    /\ headers = Base
    /\ alturas = [b \in Rango(Base) |-> UltimaAltura(Base, b)]
    /\ candadoHeaders = Nadie /\ candadoMapa = Nadie
    /\ pc = [h \in Handlers |-> "leer"]
    /\ pedido = [h \in Handlers |-> [desde |-> << >>, hasta |-> Nadie]]
    /\ respuesta = [h \in Handlers |-> << >>]
    /\ hechos = [h \in Handlers |-> 0]
    /\ procesados = Len(Base)
-----------------------------------------------------------------------------
\* validar_bloque, in the listener, pushes a header under the mutex.
AgregarHeader ==
    /\ candadoHeaders = Nadie /\ Len(headers) < MaxLargo
    /\ \E b \in Bloques : headers' = Append(headers, b)
    /\ UNCHANGED <<alturas, candados, handler, procesados>>

Avanzar(h, destino) == pc' = [pc EXCEPT ![h] = destino]

\* handlear_peticiones_cliente reads a request...
LeerPedido(h) ==
    /\ pc[h] = "leer" /\ hechos[h] < MaxPedidos
    /\ \E p \in Pedidos : pedido' = [pedido EXCEPT ![h] = p]
    /\ hechos' = [hechos EXCEPT ![h] = @ + 1]
    /\ Avanzar(h, "act_headers")
    /\ UNCHANGED <<headers, alturas, candados, respuesta, procesados>>

\* ...or finds that the client is gone.
ClienteSeVa(h) ==
    /\ pc[h] = "leer" /\ Avanzar(h, "fin")
    /\ UNCHANGED <<headers, alturas, candados, pedido, respuesta, hechos, procesados>>

\* Both functions lock the vector, and then the map.
TomarHeaders(h) ==
    /\ pc[h] \in {"act_headers", "resp_headers"} /\ candadoHeaders = Nadie
    /\ candadoHeaders' = h
    /\ Avanzar(h, IF pc[h] = "act_headers" THEN "act_mapa" ELSE "resp_mapa")
    /\ UNCHANGED <<headers, alturas, candadoMapa, pedido, respuesta, hechos, procesados>>

TomarMapa(h) ==
    /\ pc[h] \in {"act_mapa", "resp_mapa"} /\ candadoMapa = Nadie
    /\ candadoMapa' = h
    /\ Avanzar(h, IF pc[h] = "act_mapa" THEN "actualizar" ELSE "responder")
    /\ UNCHANGED <<headers, alturas, candadoHeaders, pedido, respuesta, hechos, procesados>>

SoltarCandados == candadoHeaders' = Nadie /\ candadoMapa' = Nadie

\* Variant: the slice starts one header too late.
IndexarDesdeLargo(m, s) ==
    LET largo == Cardinality(DOMAIN m)
        nuevos == {i \in DOMAIN s : i > largo + 1}
    IN  IF Len(s) > largo
        THEN [b \in DOMAIN m \cup {s[i] : i \in nuevos} |->
                 IF \E i \in nuevos : s[i] = b THEN UltimaAltura(s, b) ELSE m[b]]
        ELSE m

\* Variant: heights relative to the slice.
IndexarRelativo(m, s) ==
    LET largo == Cardinality(DOMAIN m)
        nuevos == {i \in DOMAIN s : i >= largo}
    IN  IF Len(s) > largo
        THEN [b \in DOMAIN m \cup {s[i] : i \in nuevos} |->
                 IF \E i \in nuevos : s[i] = b THEN UltimaAltura(s, b) - largo ELSE m[b]]
        ELSE m

\* The map with the headers from its own size on (inclusive of the last one it
\* should already hold) indexed again, if the vector is longer than the map.
Indexar(m, s) ==
    LET largo == Cardinality(DOMAIN m)
        nuevos == {i \in DOMAIN s : i >= largo}
    IN  IF Len(s) > largo
        THEN [b \in DOMAIN m \cup {s[i] : i \in nuevos} |->
                 IF \E i \in nuevos : s[i] = b THEN UltimaAltura(s, b) ELSE m[b]]
        ELSE m

\* Variant: the caller's guard of the vector still alive after the update.
ActualizarSinSoltar(h) ==
    /\ pc[h] = "actualizar"
    /\ alturas' = Indexar(alturas, headers)
    /\ procesados' = Len(headers)
    /\ candadoMapa' = Nadie /\ candadoHeaders' = candadoHeaders
    /\ Avanzar(h, "resp_headers")
    /\ UNCHANGED <<headers, pedido, respuesta, hechos>>

\* actualizar_headers_hash_height, with both mutexes; returning releases them.
Actualizar(h) ==
    /\ pc[h] = "actualizar"
    /\ alturas' = Indexar(alturas, headers)
    /\ procesados' = Len(headers)
    /\ SoltarCandados /\ Avanzar(h, "resp_headers")
    /\ UNCHANGED <<headers, pedido, respuesta, hechos>>

\* Variant: the stopping header left out.
RespuestaSinHasta(p, m, s) ==
    LET conocidos == {i \in DOMAIN p.desde : p.desde[i] \in DOMAIN m}
        primero == p.desde[CHOOSE i \in conocidos : \A j \in conocidos : i <= j]
        desde == m[primero] + 1
        tope == {n \in 0..MaxHeaders :
                    /\ desde + n <= Len(s)
                    /\ n > 0 => primero # p.hasta
                    /\ \A k \in 1..n : s[desde + k] # p.hasta}
    IN  IF conocidos = {} THEN << >>
        ELSE SubSeq(s, desde + 1, desde + CHOOSE n \in tope : \A k \in tope : k <= n)

\* The headers after the first known starting hash, up to the stopping hash or
\* the end of the vector, and never more than MaxHeaders; none if no starting
\* hash is known, or if it is the stopping hash.
Respuesta(p, m, s) ==
    LET conocidos == {i \in DOMAIN p.desde : p.desde[i] \in DOMAIN m}
        primero == p.desde[CHOOSE i \in conocidos : \A j \in conocidos : i <= j]
        desde == m[primero] + 1
        tope == {n \in 0..MaxHeaders :
                    /\ desde + n <= Len(s)
                    /\ n > 0 => primero # p.hasta
                    /\ \A k \in 1..n - 1 : s[desde + k] # p.hasta}
    IN  IF conocidos = {} THEN << >>
        ELSE SubSeq(s, desde + 1, desde + CHOOSE n \in tope : \A k \in tope : k <= n)

\* recibir_getheaders builds the answer with both mutexes...
Responder(h) ==
    /\ pc[h] = "responder"
    /\ respuesta' = [respuesta EXCEPT ![h] = Respuesta(pedido[h], alturas, headers)]
    /\ Avanzar(h, "enviar")
    /\ UNCHANGED <<headers, alturas, candados, pedido, hechos, procesados>>

\* ...and keeps them while it writes to the client; an error ends the handler.
Enviar(h) ==
    /\ pc[h] = "enviar"
    /\ SoltarCandados
    /\ Avanzar(h, "leer") \/ Avanzar(h, "fin")
    /\ respuesta' = [respuesta EXCEPT ![h] = << >>]
    /\ UNCHANGED <<headers, alturas, pedido, hechos, procesados>>

PasoHandler(h) == \/ TomarHeaders(h) \/ TomarMapa(h) \/ Actualizar(h)
                  \/ Responder(h) \/ Enviar(h)

Next ==
    \/ AgregarHeader
    \/ \E h \in Handlers : PasoHandler(h) \/ LeerPedido(h) \/ ClienteSeVa(h)

Spec == Init /\ [][Next]_vars

\* Every thread is scheduled, and a client reads what it asked for or hangs up.
\* Nothing is assumed of the order in which a mutex serves those that wait.
FairSpec == Spec /\ \A h \in Handlers : WF_vars(PasoHandler(h))
-----------------------------------------------------------------------------
(* Properties. *)

\* Every variable keeps its type.
TypeOK ==
    /\ headers \in Seq(Bloques)
    /\ DOMAIN alturas \subseteq Bloques /\ \A b \in DOMAIN alturas : alturas[b] \in Nat
    /\ candadoHeaders \in Handlers \cup {Nadie}
    /\ candadoMapa \in Handlers \cup {Nadie}
    /\ pc \in [Handlers -> PasosHandler]
    /\ \A h \in Handlers : respuesta[h] \in Seq(Bloques)
    /\ hechos \in [Handlers -> 0..MaxPedidos]
    /\ procesados \in 1..Len(headers)

\* The map m is right for the first p headers of the vector v: it holds each of
\* them, at the height of its last occurrence there.
Indice(m, v, p) ==
    /\ DOMAIN m = {v[i] : i \in 1..p}
    /\ \A b \in DOMAIN m :
          /\ m[b] \in Nat /\ m[b] < p /\ v[m[b] + 1] = b
          /\ \A i \in 1..p : v[i] = b => i <= m[b] + 1

\* The map is right for the part of the vector it has seen, although a vector
\* with repeated headers makes the map smaller than the vector and every update
\* starts from the size of the map (actualizar_headers_hash_height).
IndiceCorrecto == Indice(alturas, headers, procesados)

\* A mutex is held by the handler that is using it, and the map is only locked
\* by the handler that holds the vector: the two can never be taken crosswise.
CandadosEnOrden ==
    /\ \A h \in Handlers :
          /\ candadoHeaders = h <=>
                pc[h] \in {"act_mapa", "actualizar", "resp_mapa", "responder", "enviar"}
          /\ candadoMapa = h <=> pc[h] \in {"actualizar", "responder", "enviar"}
    /\ candadoMapa # Nadie => candadoMapa = candadoHeaders

\* What the doc of recibir_getheaders promises of the answer r to the request q:
\* all the headers of the vector v after the first starting hash the node knows,
\* with a maximum, up to the stopping hash; none if it knows no starting hash.
\* A hash is known if it is one of the p headers the map has seen.
Debida(q, r, v, p) ==
    LET vistos == {v[i] : i \in 1..p}
    IN  \/ r = << >> /\ \A i \in DOMAIN q.desde : q.desde[i] \notin vistos
        \/ \E i \in DOMAIN q.desde, k \in 1..p :
              /\ q.desde[i] = v[k]
              /\ \A j \in 1..i - 1 : q.desde[j] \notin vistos
              /\ r = SubSeq(v, k + 1, k + Len(r))
              /\ \A n \in k..k + Len(r) - 1 : v[n] # q.hasta
              /\ \/ Len(r) = MaxHeaders \/ k + Len(r) = Len(v)
                 \/ v[k + Len(r)] = q.hasta

\* While an answer is being sent, it is the one promised (recibir_getheaders).
RespuestaCompleta ==
    \A h \in Handlers :
        pc[h] = "enviar" => Debida(pedido[h], respuesta[h], headers, procesados)

\* Every request that is read is answered (or its client is gone): the two
\* mutexes that each request takes twice never leave handlers waiting in a ring.
PedidoSeResponde == \A h \in Handlers : pc[h] = "act_headers" ~> pc[h] \in {"leer", "fin"}
=============================================================================
