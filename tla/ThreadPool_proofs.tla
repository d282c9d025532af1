------------------------- MODULE ThreadPool_proofs -------------------------
(***************************************************************************)
(* Proofs about ThreadPool, for every value of its constants.              *)
(***************************************************************************)
EXTENDS ThreadPool, TLAPS

LEMMA SeqAppend ==
    ASSUME NEW S, NEW s \in Seq(S), NEW e \in S PROVE Append(s, e) \in Seq(S)
  OBVIOUS

LEMMA SeqTail ==
    ASSUME NEW S, NEW s \in Seq(S), s # << >>
    PROVE  Head(s) \in S /\ Tail(s) \in Seq(S)
  OBVIOUS

TipoInv == TypeOK /\ indice >= 1

LEMMA TipoInvInit == Init => TipoInv
  BY ThreadPoolAssumption
     DEF Init, TipoInv, TypeOK, PasosMain, PasosWorker, Resultados, Nadie

LEMMA TipoInvNext == TipoInv /\ [Next]_vars => TipoInv'
<1> SUFFICES ASSUME TipoInv, [Next]_vars PROVE TipoInv'
  OBVIOUS
<1> USE ThreadPoolAssumption
    DEF TipoInv, TypeOK, PasosMain, PasosSaludo, llamada, principal, canal, trabajo, salida
<1>1. CASE Empezar
  BY <1>1 DEF Empezar
<1>2. CASE ConsultarDns
  BY <1>2 DEF ConsultarDns
<1>3. CASE SinConexiones \/ SinDirecciones \/ ErrorAlConstruir
  BY <1>3 DEF SinConexiones, SinDirecciones, ErrorAlConstruir
<1>4. CASE Conectar
  <2>1. main' \in PasosMain /\ intentos' \in 0..CantRetries /\ server' = {}
    BY <1>4 DEF Conectar
  <2>2. conexion' \in [Workers -> BOOLEAN]
    BY <1>4 DEF Conectar
  <2> QED BY <1>4, <2>1, <2>2 DEF Conectar
<1>5. CASE FallaConectar
  BY <1>5 DEF FallaConectar
<1>6. CASE Saludar
  BY <1>6 DEF Saludar
<1>7. CASE Construir
  <2>1. pc' \in [Workers -> PasosWorker]
    BY <1>7 DEF Construir, PasosWorker
  <2>2. main' \in PasosMain /\ indice' \in Nat /\ indice' >= 1
    BY <1>7 DEF Construir
  <2> QED BY <1>7, <2>1, <2>2 DEF Construir
<1>8. CASE Enviar
  <2>1. /\ cola' \in Seq(Headers)
        /\ indice' \in Nat /\ indice' >= 1
    <3>1. indice \in Headers
      BY <1>8 DEF Enviar, Headers
    <3>2. cola' = cola \/ cola' = Append(cola, indice)
      BY <1>8 DEF Enviar
    <3>3. cola \in Seq(Headers) /\ Append(cola, indice) \in Seq(Headers)
      BY <3>1, SeqAppend
    <3>4. indice' = indice \/ indice' = indice + 1
      BY <1>8 DEF Enviar
    <3>5. indice \in Nat /\ indice >= 1
      OBVIOUS
    <3> HIDE DEF TipoInv
    <3> QED BY <3>2, <3>3, <3>4, <3>5
  <2>2. main' \in PasosMain /\ emisor' \in BOOLEAN
    BY <1>8 DEF Enviar
  <2> QED BY <1>8, <2>1, <2>2 DEF Enviar
<1>9. CASE SoltarEmisor
  <2>1. main' = "join" /\ indice' = 1 /\ emisor' = FALSE
    BY <1>9 DEF SoltarEmisor
  <2>2. UNCHANGED <<intentos, server, cola, candado, pc, header, conexion, disco, resultado>>
    BY <1>9 DEF SoltarEmisor
  <2>3. main' \in PasosMain /\ indice' \in Nat /\ indice' >= 1
    BY <2>1
  <2>4. emisor' \in BOOLEAN
    BY <2>1, Zenon
  <2> QED BY <2>2, <2>3, <2>4
<1>10. CASE Join
  <2>1. main' \in PasosMain /\ indice' \in Nat /\ indice' >= 1
    BY <1>10 DEF Join
  <2> QED BY <1>10, <2>1 DEF Join
<1>11. ASSUME NEW w \in Workers, TomarCandado(w) PROVE TipoInv'
  BY <1>11 DEF TomarCandado, Avanzar, PasosWorker
<1>12. ASSUME NEW w \in Workers, RecibirHeader(w) PROVE TipoInv'
  <2>1. Head(cola) \in Headers /\ Tail(cola) \in Seq(Headers)
    BY <1>12, SeqTail DEF RecibirHeader
  <2> QED BY <1>12, <2>1 DEF RecibirHeader, PasosWorker, ConHeader
<1>13. ASSUME NEW w \in Workers, CanalCerrado(w) PROVE TipoInv'
  BY <1>13 DEF CanalCerrado, Avanzar, PasosWorker, Finales
<1>14. ASSUME NEW w \in Workers, PedirBloque(w) \/ RecibirBloque(w) PROVE TipoInv'
  BY <1>14 DEF PedirBloque, RecibirBloque, Avanzar, Resolver, PasosWorker, Finales, ConHeader, Resultados
<1>15. ASSUME NEW w \in Workers,
              ErrorAlPedir(w) \/ RecibirNotFound(w) \/ ErrorDeLectura(w) \/ ErrorDeDisco(w)
       PROVE  TipoInv'
  BY <1>15 DEF ErrorAlPedir, RecibirNotFound, ErrorDeLectura, ErrorDeDisco, Resolver,
               PasosWorker, Finales, Resultados
<1>16. ASSUME NEW w \in Workers, CrearArchivo(w) PROVE TipoInv'
  BY <1>16 DEF CrearArchivo, Avanzar, PasosWorker, ConHeader
<1>17. ASSUME NEW w \in Workers, EscribirBloque(w) PROVE TipoInv'
  BY <1>17 DEF EscribirBloque, Resolver, PasosWorker, Resultados
<1>18. ASSUME NEW w \in Workers, CerrarConexion(w) PROVE TipoInv'
  BY <1>18 DEF CerrarConexion
<1>19. CASE UNCHANGED vars
  BY <1>19 DEF vars
<1> QED
  BY <1>1, <1>2, <1>3, <1>4, <1>5, <1>6, <1>7, <1>8, <1>9, <1>10, <1>11, <1>12, <1>13, <1>14,
     <1>15, <1>16, <1>17, <1>18, <1>19
  DEF Next, PasoMain, PasoWorker

\* Every variable keeps its type, however many workers and headers there are.
THEOREM TipoCorrecto == Spec => []TypeOK
<1>1. TipoInv => TypeOK
  BY DEF TipoInv
<1> QED BY TipoInvInit, TipoInvNext, <1>1, PTL DEF Spec
-----------------------------------------------------------------------------
\* What is known of the headers is known of those that were sent only.
SoloLoEnviado ==
    \A h \in Headers : EnCola(h) \/ EnManos(h) # {} \/ resultado[h] # "pendiente" => Enviado(h)

\* While the pool is built, the thread of a worker to come has not started.
Construyendo == {"inicio", "construir", "conectar"} \cup PasosSaludo
PorConstruir == main \in Construyendo => \A w \in Workers : w >= indice => pc[w] = "sin_crear"

LugarInv == TipoInv /\ UnSoloLugar /\ SoloLoEnviado /\ PorConstruir

\* The part of it that says where each header is, of the three variables that tell.
EnManosDe(h) == \E w \in Workers : header[w] = h

LEMMA EnManosEs == \A h : EnManos(h) # {} <=> EnManosDe(h)
  BY DEF EnManos, EnManosDe

LEMMA LugarInvInit == Init => LugarInv
<1> SUFFICES ASSUME Init PROVE LugarInv
  OBVIOUS
<1>1. TipoInv
  BY TipoInvInit
<1>2. /\ \A h : ~EnCola(h)
      /\ \A h \in Headers : ~EnManosDe(h) /\ resultado[h] = "pendiente" /\ ~Enviado(h)
  BY ThreadPoolAssumption DEF Init, EnCola, EnManosDe, Enviado, Headers, Nadie
<1>3. SinRepetidos /\ ManosOcupadas
  BY DEF Init, SinRepetidos, ManosOcupadas, ConHeader
<1>4. EnUnSoloLado /\ EnAlgunLado /\ SoloLoEnviado
  BY <1>2, EnManosEs DEF EnUnSoloLado, EnAlgunLado, SoloLoEnviado
<1>5. PorConstruir
  BY DEF Init, PorConstruir
<1> QED BY <1>1, <1>3, <1>4, <1>5 DEF LugarInv, UnSoloLugar

\* A step that moves no header, and after which as much was sent as before.
LEMMA SinMover ==
    ASSUME UnSoloLugar, SoloLoEnviado, UNCHANGED <<cola, header, resultado>>,
           main = "fin_err" => main' = "fin_err",
           \A h \in Headers : Enviado(h) => Enviado(h)',
           \A h \in Headers : Enviado(h)' /\ main' # "fin_err" => Enviado(h),
           \A w \in Workers : pc'[w] \in ConHeader <=> pc[w] \in ConHeader
    PROVE  UnSoloLugar' /\ SoloLoEnviado'
<1>1. \A h : (EnCola(h)' <=> EnCola(h)) /\ EnManos(h)' = EnManos(h)
  BY DEF EnCola, EnManos
<1>2. SinRepetidos' /\ ManosOcupadas'
  BY DEF UnSoloLugar, SinRepetidos, ManosOcupadas
<1>3. EnUnSoloLado' /\ EnAlgunLado'
  BY <1>1 DEF UnSoloLugar, EnUnSoloLado, EnAlgunLado
<1>4. SoloLoEnviado'
  BY <1>1 DEF SoloLoEnviado
<1> QED BY <1>2, <1>3, <1>4 DEF UnSoloLugar

\* A worker is done with its header.
LEMMA AlResolver ==
    ASSUME LugarInv, UNCHANGED <<cola, main, indice>>, NEW w \in Workers, NEW r \in Resultados,
           NEW destino, Resolver(w, r, destino), pc[w] \in ConHeader, r # "pendiente",
           destino \notin ConHeader
    PROVE  UnSoloLugar' /\ SoloLoEnviado' /\ PorConstruir'
<1>t. /\ header \in [Workers -> Headers \cup {Nadie}] /\ pc \in [Workers -> PasosWorker]
      /\ resultado \in [Headers -> Resultados]
  BY DEF LugarInv, TipoInv, TypeOK
<1>1. PICK g \in Headers : g = header[w] /\ g # Nadie
  BY <1>t DEF LugarInv, UnSoloLugar, ManosOcupadas
<1>2. /\ pc' = [pc EXCEPT ![w] = destino]
      /\ header' = [header EXCEPT ![w] = Nadie]
      /\ resultado' = [resultado EXCEPT ![g] = r]
  BY <1>1 DEF Resolver
<1>3. \A h \in Headers : (EnCola(h)' <=> EnCola(h)) /\ (Enviado(h)' <=> Enviado(h))
  BY DEF EnCola, Enviado
<1>4. Nadie \notin Headers
  BY ThreadPoolAssumption DEF Nadie, Headers
<1>5. \A v \in Workers : v # w => header[v] # g
  BY <1>1 DEF LugarInv, UnSoloLugar, SinRepetidos
<1>6. \A h \in Headers : h # g => (EnManosDe(h)' <=> EnManosDe(h)) /\ resultado'[h] = resultado[h]
  BY <1>t, <1>1, <1>2, <1>4 DEF EnManosDe
<1>7. ~EnManosDe(g)' /\ EnManosDe(g) /\ resultado'[g] = r
  BY <1>t, <1>1, <1>2, <1>4, <1>5 DEF EnManosDe
<1>8. \A h : (EnManos(h)' # {} <=> EnManosDe(h)') /\ (EnManos(h) # {} <=> EnManosDe(h))
  BY DEF EnManos, EnManosDe
<1>9. ~EnCola(g) /\ Enviado(g)
  BY <1>1, <1>7, <1>8 DEF LugarInv, UnSoloLugar, EnUnSoloLado, SoloLoEnviado
<1>10. SinRepetidos'
  BY <1>t, <1>2 DEF LugarInv, UnSoloLugar, SinRepetidos
<1>11. ManosOcupadas'
  BY <1>t, <1>2 DEF LugarInv, UnSoloLugar, ManosOcupadas
<1>12. EnUnSoloLado'
  BY <1>3, <1>6, <1>7, <1>8, <1>9 DEF LugarInv, UnSoloLugar, EnUnSoloLado
<1>13. EnAlgunLado'
  BY <1>3, <1>6, <1>7, <1>8 DEF LugarInv, UnSoloLugar, EnAlgunLado
<1>14. SoloLoEnviado'
  BY <1>3, <1>6, <1>7, <1>8, <1>9 DEF LugarInv, SoloLoEnviado
<1>15. PorConstruir'
  <2>1. pc[w] # "sin_crear"
    BY DEF ConHeader
  <2> QED BY <1>t, <1>2, <2>1 DEF LugarInv, PorConstruir
<1> QED BY <1>10, <1>11, <1>12, <1>13, <1>14, <1>15 DEF UnSoloLugar

LEMMA AlEnviar == LugarInv /\ Enviar => UnSoloLugar' /\ SoloLoEnviado' /\ PorConstruir'
<1> SUFFICES ASSUME LugarInv, Enviar PROVE UnSoloLugar' /\ SoloLoEnviado' /\ PorConstruir'
  OBVIOUS
<1>t. /\ cola \in Seq(Headers) /\ header \in [Workers -> Headers \cup {Nadie}]
      /\ indice \in Headers /\ main = "enviar" /\ UNCHANGED <<header, resultado, pc>>
  BY ThreadPoolAssumption DEF LugarInv, TipoInv, TypeOK, Enviar, Headers, trabajo, salida
<1>p. PorConstruir'
  BY <1>t DEF PorConstruir, Construyendo, PasosSaludo, Enviar
<1>m. ManosOcupadas'
  BY <1>t DEF LugarInv, UnSoloLugar, ManosOcupadas
<1>1. CASE main' = "fin_err"
  <2>1. UNCHANGED <<cola, indice>>
    BY <1>t, <1>1 DEF Enviar
  <2>2. \A h : Enviado(h)' <=> Enviado(h)
    BY <1>t, <1>1, <2>1 DEF Enviado
  <2> QED BY <1>t, <1>p, <1>1, <2>1, <2>2, SinMover DEF LugarInv
<1>2. CASE main' = "enviar"
  <2>1. cola' = Append(cola, indice) /\ indice' = indice + 1
    BY <1>t, <1>2 DEF Enviar
  <2>2. \A h \in Headers : /\ Enviado(h) <=> h < indice
                           /\ Enviado(h)' <=> h < indice \/ h = indice
    BY <1>t, <1>2, <2>1 DEF Enviado, Headers
  <2>3. ~EnCola(indice) /\ EnManos(indice) = {} /\ resultado[indice] = "pendiente"
    BY <1>t, <2>2 DEF LugarInv, SoloLoEnviado, Headers
  <2>4. \A h : EnCola(h)' <=> EnCola(h) \/ h = indice
    BY <1>t, <2>1 DEF EnCola
  <2>5. \A h : EnManos(h)' = EnManos(h)
    BY <1>t DEF EnManos
  <2>6. SinRepetidos'
    BY <1>t, <2>1, <2>3 DEF LugarInv, UnSoloLugar, SinRepetidos, EnCola
  <2>7. EnUnSoloLado' /\ EnAlgunLado'
    BY <1>t, <1>2, <2>2, <2>3, <2>4, <2>5 DEF LugarInv, UnSoloLugar, EnUnSoloLado, EnAlgunLado
  <2>8. SoloLoEnviado'
    BY <1>t, <2>2, <2>4, <2>5 DEF LugarInv, SoloLoEnviado
  <2> QED BY <1>p, <1>m, <2>6, <2>7, <2>8 DEF UnSoloLugar
<1> QED BY <1>t, <1>1, <1>2 DEF Enviar

LEMMA AlRecibir ==
    ASSUME LugarInv, NEW w \in Workers, RecibirHeader(w)
    PROVE  UnSoloLugar' /\ SoloLoEnviado' /\ PorConstruir'
<1>t. /\ cola \in Seq(Headers) /\ header \in [Workers -> Headers \cup {Nadie}]
      /\ pc \in [Workers -> PasosWorker] /\ UNCHANGED <<main, indice, resultado>>
      /\ pc[w] = "recv" /\ cola # << >>
  BY DEF LugarInv, TipoInv, TypeOK, RecibirHeader, principal, salida
<1>1. PICK g \in Headers : g = Head(cola)
  BY <1>t, SeqTail
<1>2. /\ header' = [header EXCEPT ![w] = g] /\ cola' = Tail(cola)
      /\ pc' = [pc EXCEPT ![w] = "getdata"]
  BY <1>1 DEF RecibirHeader
<1>3. header[w] = Nadie
  BY <1>t DEF LugarInv, UnSoloLugar, ManosOcupadas, ConHeader
<1>4. /\ cola = <<g>> \o cola' /\ cola' \in Seq(Headers)
      /\ \A i \in DOMAIN cola' : i + 1 \in DOMAIN cola /\ cola'[i] = cola[i + 1]
      /\ 1 \in DOMAIN cola /\ cola[1] = g
      /\ \A i \in DOMAIN cola : i # 1 => i - 1 \in DOMAIN cola' /\ cola[i] = cola'[i - 1]
  BY <1>t, <1>1, <1>2
<1>5. \A i, j \in DOMAIN cola : i # j => cola[i] # cola[j]
  BY DEF LugarInv, UnSoloLugar, SinRepetidos
<1>6. EnCola(g)
  BY <1>4 DEF EnCola
<1>7. EnManos(g) = {} /\ resultado[g] = "pendiente" /\ Enviado(g)
  BY <1>1, <1>6 DEF LugarInv, UnSoloLugar, EnUnSoloLado, SoloLoEnviado
<1>8. Nadie \notin Headers
  BY ThreadPoolAssumption DEF Nadie, Headers
<1>9. ~EnCola(g)' /\ EnManos(g)' # {}
  <2>1. ~EnCola(g)'
    <3> SUFFICES ASSUME NEW i \in DOMAIN cola', cola'[i] = g PROVE FALSE
      BY DEF EnCola
    <3>1. i + 1 \in DOMAIN cola /\ cola[i + 1] = g /\ i + 1 # 1
      BY <1>4
    <3> QED BY <1>4, <1>5, <3>1
  <2>2. header'[w] = g
    BY <1>t, <1>2
  <2> QED BY <2>1, <2>2 DEF EnManos
<1>10. \A h \in Headers : h # g => (EnCola(h)' <=> EnCola(h)) /\ EnManos(h)' = EnManos(h)
  <2> SUFFICES ASSUME NEW h \in Headers, h # g
               PROVE  (EnCola(h)' <=> EnCola(h)) /\ EnManos(h)' = EnManos(h)
    OBVIOUS
  <2>1. EnCola(h)' => EnCola(h)
    <3> SUFFICES ASSUME NEW i \in DOMAIN cola', cola'[i] = h PROVE EnCola(h)
      BY DEF EnCola
    <3>1. i + 1 \in DOMAIN cola /\ cola[i + 1] = h
      BY <1>4
    <3> QED BY <3>1 DEF EnCola
  <2>2. EnCola(h) => EnCola(h)'
    <3> SUFFICES ASSUME NEW i \in DOMAIN cola, cola[i] = h PROVE EnCola(h)'
      BY DEF EnCola
    <3>1. i - 1 \in DOMAIN cola' /\ cola'[i - 1] = h
      BY <1>4
    <3> QED BY <3>1 DEF EnCola
  <2>3. EnManos(h)' = EnManos(h)
    BY <1>t, <1>2, <1>3, <1>8 DEF EnManos
  <2> QED BY <2>1, <2>2, <2>3
<1>11. \A h : Enviado(h)' <=> Enviado(h)
  BY <1>t DEF Enviado
<1>12. SinRepetidos'
  <2>1. ASSUME NEW i \in DOMAIN cola', NEW j \in DOMAIN cola', i # j PROVE cola'[i] # cola'[j]
    <3>1. i + 1 \in DOMAIN cola /\ j + 1 \in DOMAIN cola /\ i + 1 # j + 1
      BY <1>4, <2>1
    <3> QED BY <1>4, <1>5, <3>1
  <2>2. ASSUME NEW u \in Workers, NEW v \in Workers, u # v, header'[u] # Nadie
        PROVE  header'[u] # header'[v]
    <3>1. \A x \in Workers : header[x] # g
      BY <1>7 DEF EnManos
    <3>2. header[u] # Nadie => header[u] # header[v]
      BY <2>2 DEF LugarInv, UnSoloLugar, SinRepetidos
    <3>3. /\ header'[u] = (IF u = w THEN g ELSE header[u])
          /\ header'[v] = (IF v = w THEN g ELSE header[v])
      BY <1>t, <1>2
    <3> QED BY <2>2, <3>1, <3>2, <3>3
  <2> QED BY <2>1, <2>2 DEF SinRepetidos
<1>13. ManosOcupadas'
  <2>1. ASSUME NEW v \in Workers PROVE header'[v] # Nadie <=> pc'[v] \in ConHeader
    <3>1. CASE v = w
      BY <1>t, <1>1, <1>2, <1>8, <3>1 DEF ConHeader
    <3>2. CASE v # w
      BY <1>t, <1>2, <3>2 DEF LugarInv, UnSoloLugar, ManosOcupadas
    <3> QED BY <3>1, <3>2
  <2> QED BY <2>1 DEF ManosOcupadas
<1>14. EnUnSoloLado' /\ EnAlgunLado'
  BY <1>t, <1>7, <1>9, <1>10, <1>11 DEF LugarInv, UnSoloLugar, EnUnSoloLado, EnAlgunLado
<1>15. SoloLoEnviado'
  BY <1>t, <1>7, <1>10, <1>11 DEF LugarInv, SoloLoEnviado
<1>16. PorConstruir'
  <2>1. \A v \in Workers : pc[v] = "sin_crear" => pc'[v] = "sin_crear"
    BY <1>t, <1>2
  <2> QED BY <1>t, <2>1 DEF LugarInv, PorConstruir
<1> QED BY <1>12, <1>13, <1>14, <1>15, <1>16 DEF UnSoloLugar

LEMMA LugarInvNext == LugarInv /\ [Next]_vars => LugarInv'
<1> SUFFICES ASSUME LugarInv, [Next]_vars PROVE LugarInv'
  OBVIOUS
<1>t. TipoInv /\ TipoInv'
  BY TipoInvNext DEF LugarInv
<1>h. /\ indice \in Nat /\ pc \in [Workers -> PasosWorker]
      /\ \A h \in Headers : h \in Nat
  BY <1>t, ThreadPoolAssumption DEF TipoInv, TypeOK, Headers
<1> SUFFICES UnSoloLugar' /\ SoloLoEnviado' /\ PorConstruir'
  BY <1>t DEF LugarInv
<1>1. CASE Empezar \/ ConsultarDns \/ SinConexiones \/ SinDirecciones \/ Conectar \/ FallaConectar
           \/ Saludar \/ ErrorAlConstruir
  <2>1. /\ UNCHANGED <<cola, header, resultado, pc, indice>>
        /\ main \in Construyendo /\ main' \in Construyendo \cup {"fin_err", "panico"}
    BY <1>1 DEF Empezar, ConsultarDns, SinConexiones, SinDirecciones, Conectar, FallaConectar,
                Saludar, ErrorAlConstruir, Construyendo, PasosSaludo, llamada, canal, trabajo, salida
  <2>2. /\ main # "fin_err" /\ \A h \in Headers : ~Enviado(h)
        /\ \A h \in Headers : Enviado(h)' => main' = "fin_err"
    BY <2>1 DEF Enviado, Construyendo, PasosSaludo
  <2>3. PorConstruir'
    BY <2>1 DEF LugarInv, PorConstruir
  <2> QED BY <2>1, <2>2, <2>3, SinMover DEF LugarInv
<1>2. CASE Construir
  <2>1. /\ UNCHANGED <<cola, header, resultado>> /\ main = "esperar_verack"
        /\ pc' = [pc EXCEPT ![indice] = "lock"]
        /\ \/ main' = "enviar" /\ indice' = 1
           \/ main' = "construir" /\ indice' = indice + 1
    BY <1>2 DEF Construir, canal, salida
  <2>2. main \in Construyendo
    BY <2>1 DEF Construyendo, PasosSaludo
  <2>3. /\ main # "fin_err" /\ \A h \in Headers : ~Enviado(h) /\ ~Enviado(h)'
    BY <1>h, <2>1 DEF Enviado, Headers
  <2>4. \A w \in Workers : pc'[w] \in ConHeader <=> pc[w] \in ConHeader
    <3>1. \A w \in Workers : w = indice => pc[w] = "sin_crear"
      BY <1>h, <2>2 DEF LugarInv, PorConstruir, Workers
    <3> QED BY <1>h, <2>1, <3>1 DEF ConHeader
  <2>5. PorConstruir'
    <3>1. CASE main' = "enviar"
      BY <3>1 DEF PorConstruir, Construyendo, PasosSaludo
    <3>2. CASE indice' = indice + 1
      <4> SUFFICES ASSUME NEW w \in Workers, w >= indice + 1 PROVE pc'[w] = "sin_crear"
        BY <3>2 DEF PorConstruir
      <4>1. w >= indice /\ w # indice
        BY <1>h DEF Workers
      <4> QED BY <1>h, <2>1, <2>2, <4>1 DEF LugarInv, PorConstruir
    <3> QED BY <2>1, <3>1, <3>2
  <2> QED BY <2>1, <2>3, <2>4, <2>5, SinMover DEF LugarInv
<1>3. CASE Enviar
  BY <1>3, AlEnviar
<1>4. CASE SoltarEmisor \/ Join
  <2>1. /\ UNCHANGED <<cola, header, resultado, pc>> /\ main # "fin_err"
        /\ main' \in {"join", "fin_ok"}
    BY <1>4 DEF SoltarEmisor, Join, canal, trabajo, salida
  <2>2. \A h \in Headers : Enviado(h) /\ Enviado(h)'
    <3>1. \A h \in Headers : Enviado(h)
      <4>1. CASE SoltarEmisor
        BY <1>h, <4>1, ThreadPoolAssumption DEF SoltarEmisor, Enviado, Headers
      <4>2. CASE Join
        BY <4>2 DEF Join, Enviado
      <4> QED BY <1>4, <4>1, <4>2
    <3> QED BY <2>1, <3>1 DEF Enviado
  <2>3. PorConstruir'
    BY <2>1 DEF PorConstruir, Construyendo, PasosSaludo
  <2> QED BY <2>1, <2>2, <2>3, SinMover DEF LugarInv
<1>5. ASSUME NEW w \in Workers, RecibirHeader(w) PROVE UnSoloLugar' /\ SoloLoEnviado' /\ PorConstruir'
  BY <1>5, AlRecibir
<1>6. ASSUME NEW w \in Workers,
             \/ TomarCandado(w) \/ CanalCerrado(w) \/ CrearArchivo(w) \/ CerrarConexion(w)
             \/ RecibirBloque(w) \/ (PedirBloque(w) /\ ~(CantBlocksPorInv > 1))
      PROVE  UnSoloLugar' /\ SoloLoEnviado' /\ PorConstruir'
  <2>1. /\ UNCHANGED <<cola, header, resultado, main, indice>>
        /\ \/ pc' = pc
           \/ \E d : /\ pc' = [pc EXCEPT ![w] = d] /\ pc[w] # "sin_crear"
                     /\ pc[w] \in ConHeader <=> d \in ConHeader
    BY <1>6 DEF TomarCandado, CanalCerrado, CrearArchivo, CerrarConexion, RecibirBloque, PedirBloque,
                Avanzar, ConHeader, principal, canal, salida
  <2>2. \A v \in Workers : /\ pc'[v] \in ConHeader <=> pc[v] \in ConHeader
                           /\ pc[v] = "sin_crear" => pc'[v] = "sin_crear"
    BY <1>h, <2>1
  <2>3. \A h : Enviado(h)' <=> Enviado(h)
    BY <2>1 DEF Enviado
  <2>4. PorConstruir'
    BY <2>1, <2>2 DEF LugarInv, PorConstruir
  <2> QED BY <2>1, <2>2, <2>3, <2>4, SinMover DEF LugarInv
<1>7. ASSUME NEW w \in Workers,
             \/ ErrorAlPedir(w) \/ RecibirNotFound(w) \/ ErrorDeLectura(w) \/ ErrorDeDisco(w)
             \/ EscribirBloque(w) \/ (PedirBloque(w) /\ CantBlocksPorInv > 1)
      PROVE  UnSoloLugar' /\ SoloLoEnviado' /\ PorConstruir'
  <2>1. UNCHANGED <<cola, main, indice>> /\ pc[w] \in ConHeader
    <3>1. UNCHANGED <<cola, main, indice>>
      BY <1>7 DEF ErrorAlPedir, RecibirNotFound, ErrorDeLectura, ErrorDeDisco, EscribirBloque,
                  PedirBloque, principal, canal
    <3>2. pc[w] \in {"getdata", "block", "crear", "escribir"}
      BY <1>7 DEF ErrorAlPedir, RecibirNotFound, ErrorDeLectura, ErrorDeDisco, EscribirBloque,
                  PedirBloque
    <3> QED BY <3>1, <3>2 DEF ConHeader
  <2>2. PICK r \in Resultados, d \in {"lock", "error", "panico"} :
            Resolver(w, r, d) /\ r # "pendiente"
    <3>1. \/ Resolver(w, "perdido", "error") \/ Resolver(w, "omitido", "lock")
          \/ Resolver(w, "guardado", "lock") \/ Resolver(w, "perdido", "panico")
      BY <1>7 DEF ErrorAlPedir, RecibirNotFound, ErrorDeLectura, ErrorDeDisco, EscribirBloque,
                  PedirBloque
    <3> QED BY <3>1 DEF Resultados
  <2>3. d \notin ConHeader
    BY DEF ConHeader
  <2> QED BY <2>1, <2>2, <2>3, AlResolver
<1>8. CASE UNCHANGED vars
  <2>1. UNCHANGED <<cola, header, resultado, main, indice, pc>>
    BY <1>8 DEF vars, principal, canal, trabajo, salida
  <2>2. \A h : Enviado(h)' <=> Enviado(h)
    BY <2>1 DEF Enviado
  <2>3. PorConstruir'
    BY <2>1 DEF LugarInv, PorConstruir
  <2> QED BY <2>1, <2>2, <2>3, SinMover DEF LugarInv
<1> QED
  BY <1>1, <1>2, <1>3, <1>4, <1>5, <1>6, <1>7, <1>8 DEF Next, PasoMain, PasoWorker

\* Of all the headers each is in one place: a header that is sent has one owner at
\* most, and none is downloaded twice or left behind, whichever workers die.
THEOREM LugarCorrecto == Spec => []UnSoloLugar
<1>1. LugarInv => UnSoloLugar
  BY DEF LugarInv
<1> QED BY LugarInvInit, LugarInvNext, <1>1, PTL DEF Spec
=============================================================================
