------------------------- MODULE ChainSync_proofs -------------------------
(***************************************************************************)
(* Proofs about ChainSync: its types; what the file holds over any deaths, *)
(* and what is lost between the synchronisation and the listener, for      *)
(* every chain, page size, number of deaths and order of the               *)
(* announcements, when no death divides a writeln!.                        *)
(***************************************************************************)
EXTENDS ChainSync, FiniteSetTheorems, SequenceTheorems, TLAPS

LEMMA Constantes ==
    /\ Red \in Seq(Bloques) /\ Len(Red) \in Nat /\ Len(Red) >= 1 /\ LargoInicial \in 1..Len(Red)
    /\ MaxPagina \in Nat /\ MaxPagina >= 1
    /\ \A i \in 1..Len(Red) : Red[i] \in Bloques
    /\ \A i, j \in 1..Len(Red) : Red[i] = Red[j] => i = j
  BY ChainSyncAssumption

LEMMA Mensajes ==
    /\ \A b : MsgInv(b).cmd = "inv" /\ MsgInv(b).bloque = b
    /\ \A b : MsgBlock(b).cmd = "block" /\ MsgBlock(b).bloque = b
    /\ \A p : MsgHeaders(p).cmd = "headers" /\ MsgHeaders(p).pagina = p
    /\ \A c, b : Pedir(c, b).cmd = c /\ Pedir(c, b).desde = b
    /\ Nada.cmd = "nada"
  BY DEF MsgInv, MsgBlock, MsgHeaders, Pedir, Nada

\* What the peer sends.
Mensaje == {MsgInv(b) : b \in Bloques} \cup {MsgBlock(b) : b \in Bloques}
              \cup {MsgHeaders(p) : p \in Seq(Bloques)}

\* TypeOK with the messages, and with what each step of the process has at hand.
TipoInv ==
    /\ largo \in LargoInicial..Len(Red) /\ entrada \in Seq(Mensaje)
    /\ pedido \in {Nada} \cup {Pedir("block", b) : b \in Bloques}
                 \cup {Pedir("headers", b) : b \in Bloques \cup {Desconocido}}
    /\ archivo \in Seq(Seq(Bloques) \ {<< >>}) /\ abierta \in BOOLEAN
    /\ abierta => archivo # << >>
    /\ disco \in [Bloques -> {"no", "parcial", "completo"}]
    /\ pc \in Pasos /\ headers \in Seq(Bloques) /\ indice \in Nat
    /\ pc # "inicio" => headers # << >>
    /\ pagina \in Seq(Bloques) /\ llena \in BOOLEAN /\ utxo \in BOOLEAN
    /\ pc \in {"linea", "hex_bloque", "linea_bloque"} => pagina # << >>
    /\ porBajar \subseteq Bloques /\ omitidos \subseteq Bloques /\ perdidos \subseteq Bloques
    /\ caidas \in 0..MaxCaidas

LEMMA TipoDePosteriores ==
    ASSUME NEW b, largo \in LargoInicial..Len(Red)
    PROVE  Posteriores(b) \in Seq(Bloques)
<1> DEFINE j == IF b \in Bloques THEN CHOOSE i \in DOMAIN Red : Red[i] = b ELSE 1
           n == IF j + MaxPagina < largo THEN j + MaxPagina ELSE largo
<1>1. j \in 1..Len(Red)
  <2>1. b \in Bloques => \E i \in DOMAIN Red : Red[i] = b
    BY DEF Bloques, Rango
  <2> QED BY <2>1, Constantes
<1>2. Posteriores(b) = SubSeq(Red, j + 1, n)
  BY DEF Posteriores
<1> HIDE DEF j
<1>3. n \in Nat /\ n <= Len(Red) /\ largo \in Nat
  BY <1>1, Constantes
<1> HIDE DEF n
<1>4. SubSeq(Red, j + 1, n) \in Seq(Bloques)
  BY <1>1, <1>3, Constantes
<1> QED BY <1>2, <1>4

LEMMA TipoDeLectura ==
    ASSUME NEW a \in Seq(Seq(Bloques) \ {<< >>})
    PROVE  /\ HeadersDe(a) \in Seq(Bloques) /\ Len(HeadersDe(a)) = Len(a) + 1 /\ HeadersDe(a) # << >>
           /\ UltimoHash(a) \in Bloques \cup {Desconocido}
<1> DEFINE t == [i \in DOMAIN a |-> a[i][1]]
<1>1. \A i \in DOMAIN a : a[i] \in Seq(Bloques) /\ a[i] # << >> /\ a[i][1] \in Bloques
  <2> TAKE i \in DOMAIN a
  <2>1. a[i] \in Seq(Bloques) \ {<< >>}
    OBVIOUS
  <2>2. \A s \in Seq(Bloques) : s # << >> => s[1] \in Bloques
    OBVIOUS
  <2> QED BY <2>1, <2>2
<1>2. t \in Seq(Bloques) /\ Len(t) = Len(a) /\ Len(a) \in Nat
  BY <1>1, SMTT(30)
<1>3. <<Red[1]>> \in Seq(Bloques) /\ Len(<<Red[1]>>) = 1
  BY Constantes
<1> HIDE DEF t
<1>4. <<Red[1]>> \o t \in Seq(Bloques) /\ Len(<<Red[1]>> \o t) = 1 + Len(a)
  BY <1>2, <1>3, ConcatProperties
<1>5. HeadersDe(a) = <<Red[1]>> \o t
  BY DEF HeadersDe, t
<1>6. UltimoHash(a) \in Bloques \cup {Desconocido}
  BY <1>1, Constantes DEF UltimoHash
<1> QED BY <1>2, <1>4, <1>5, <1>6

LEMMA TipoDeEscritura ==
    ASSUME TipoInv, NEW b \in Bloques, EscribirHeader(b)
    PROVE  /\ archivo' \in Seq(Seq(Bloques) \ {<< >>}) /\ archivo' # << >> /\ abierta' = TRUE
<1> DEFINE S == Seq(Bloques) \ {<< >>}
<1>1. archivo \in Seq(S) /\ abierta \in BOOLEAN /\ (abierta => archivo # << >>)
  BY DEF TipoInv
<1>2. <<b>> \in S
  OBVIOUS
<1>3. CASE abierta
  <2> DEFINE n == Len(archivo)
             l == Append(archivo[n], b)
  <2>1. n \in 1..n /\ archivo[n] \in S /\ archivo # << >>
    BY <1>1, <1>3
  <2>2. l \in S
    BY <2>1
  <2>3. archivo' = [archivo EXCEPT ![n] = l]
    BY <1>3 DEF EscribirHeader
  <2> HIDE DEF l, S
  <2>4. archivo' \in Seq(S) /\ Len(archivo') = n
    BY <1>1, <2>1, <2>2, <2>3
  <2>5. archivo' # << >>
    BY <2>1, <2>4
  <2> QED BY <2>4, <2>5 DEF EscribirHeader, S
<1>4. CASE ~abierta
  <2>1. archivo' = Append(archivo, <<b>>) /\ abierta' = TRUE
    BY <1>4 DEF EscribirHeader
  <2> HIDE DEF S
  <2>2. archivo' \in Seq(S) /\ Len(archivo') = Len(archivo) + 1 /\ Len(archivo) \in Nat
    BY <1>1, <1>2, <2>1
  <2> QED BY <2>1, <2>2 DEF S
<1> QED BY <1>1, <1>3, <1>4

LEMMA TipoDeCola ==
    ASSUME TipoInv, entrada # << >>
    PROVE  /\ Tail(entrada) \in Seq(Mensaje)
           /\ Head(entrada).cmd \in {"inv", "block"} => Head(entrada).bloque \in Bloques
           /\ Head(entrada).cmd = "headers" => Head(entrada).pagina \in Seq(Bloques)
<1>1. entrada \in Seq(Mensaje) /\ Head(entrada) \in Mensaje
  BY DEF TipoInv
<1>2. Tail(entrada) \in Seq(Mensaje)
  BY <1>1
<1> QED BY <1>1, <1>2, Mensajes DEF Mensaje

LEMMA TipoDeTerminar ==
    ASSUME TipoInv, Terminar, UNCHANGED lineas,
           disco' \in [Bloques -> {"no", "parcial", "completo"}],
           omitidos' \subseteq Bloques, perdidos' \subseteq Bloques, caidas' \in 0..MaxCaidas
    PROVE  TipoInv'
<1>1. entrada' \in Seq(Mensaje) /\ headers' \in Seq(Bloques) /\ pagina' \in Seq(Bloques)
  BY DEF Terminar
<1>2. archivo' = archivo /\ abierta' = abierta /\ largo' = largo
  BY DEF Terminar, lineas
<1>3. pc' = "inicio" /\ indice' = 0 /\ pedido' = Nada /\ llena' = FALSE /\ utxo' = FALSE /\ porBajar' = {}
  BY DEF Terminar
<1> QED BY <1>1, <1>2, <1>3 DEF TipoInv, Pasos

LEMMA TipoInvInit == Init => TipoInv
<1> SUFFICES ASSUME Init PROVE TipoInv
  OBVIOUS
<1>1. largo \in LargoInicial..Len(Red) /\ caidas \in 0..MaxCaidas
  BY Constantes, ChainSyncAssumption DEF Init
<1>2. disco \in [Bloques -> {"no", "parcial", "completo"}]
  BY DEF Init
<1>3. /\ entrada \in Seq(Mensaje) /\ headers \in Seq(Bloques) /\ pagina \in Seq(Bloques)
      /\ archivo \in Seq(Seq(Bloques) \ {<< >>})
  BY DEF Init
<1> QED BY <1>1, <1>2, <1>3 DEF Init, TipoInv, Pasos

LEMMA TipoInvNext == TipoInv /\ [Next]_vars => TipoInv'
<1> SUFFICES ASSUME TipoInv, [Next]_vars PROVE TipoInv'
  OBVIOUS
<1>1. CASE Arrancar
  BY <1>1, TipoDeLectura DEF TipoInv, Arrancar, lineas, historia, Pasos
<1>2. CASE Descartar
  <2>1. perdidos' \subseteq Bloques /\ entrada' \in Seq(Mensaje)
    BY <1>2, TipoDeCola DEF TipoInv, Descartar
  <2> QED BY <1>2, <2>1 DEF TipoInv, Descartar, lineas, proceso
<1>3. CASE RecibirPagina
  <2>1. llena' \in BOOLEAN
    BY <1>3, Zenon DEF RecibirPagina
  <2>2. pagina' \in Seq(Bloques) /\ entrada' \in Seq(Mensaje)
    BY <1>3, TipoDeCola DEF RecibirPagina, Recibe
  <2> QED BY <1>3, <2>1, <2>2 DEF TipoInv, RecibirPagina, lineas, historia, Pasos
<1>4. CASE GuardarHeader
  <2>1. Head(pagina) \in Bloques
    BY <1>4 DEF TipoInv, GuardarHeader
  <2>2. /\ archivo' \in Seq(Seq(Bloques) \ {<< >>}) /\ archivo' # << >> /\ abierta' = TRUE
    BY <1>4, <2>1, TipoDeEscritura DEF GuardarHeader
  <2> QED BY <1>4, <2>2 DEF TipoInv, GuardarHeader, conexion, historia, Pasos
<1>5. CASE AgregarHeader
  <2>1. pagina # << >> /\ headers \in Seq(Bloques) /\ pagina \in Seq(Bloques)
    BY <1>5 DEF TipoInv, AgregarHeader
  <2>2. headers' = Append(headers, Head(pagina)) /\ pagina' = Tail(pagina)
    BY <1>5 DEF AgregarHeader
  <2>3. headers' \in Seq(Bloques) /\ headers' # << >> /\ pagina' \in Seq(Bloques)
    BY <2>1, <2>2
  <2> QED BY <1>5, <2>3 DEF TipoInv, AgregarHeader, EscribirFinDeLinea, conexion, historia, Pasos
<1>6. CASE FinDePagina
  <2>1. headers[Len(headers)] \in Bloques
    BY <1>6 DEF TipoInv, FinDePagina
  <2> QED BY <1>6, <2>1 DEF TipoInv, FinDePagina, lineas, historia, Pasos
<1>7. CASE ElegirBloques
  <2>1. HeadersValidosFecha \subseteq Rango(headers)
    <3> DEFINE recientes == {i \in DOMAIN headers : headers[i] \in Recientes}
               primero == CHOOSE i \in recientes : \A j \in recientes : i <= j
               desde == IF primero > indice + 1 THEN primero ELSE indice + 1
    <3>1. HeadersValidosFecha = IF recientes = {} THEN Rango(headers)
                                ELSE {headers[i] : i \in {j \in DOMAIN headers : j >= desde}}
      BY Zenon DEF HeadersValidosFecha
    <3> HIDE DEF recientes, desde
    <3> QED BY <3>1 DEF Rango
  <2>2. Rango(headers) \subseteq Bloques
    BY DEF TipoInv, Rango
  <2> QED BY <1>7, <2>1, <2>2 DEF TipoInv, ElegirBloques, conexion, lineas, historia, Pasos
<1>8. CASE BajarBloque
  <2>1. /\ porBajar' \subseteq Bloques /\ omitidos' \subseteq Bloques
        /\ disco' \in [Bloques -> {"no", "parcial", "completo"}]
    BY <1>8 DEF TipoInv, BajarBloque
  <2> QED BY <1>8, <2>1 DEF TipoInv, BajarBloque, conexion, lineas
<1>9. CASE Escuchar
  <2>1. CASE Terminar
    BY <1>9, <2>1, TipoDeTerminar DEF TipoInv, Escuchar, historia
  <2>2. CASE ~Terminar
    BY <1>9, <2>2 DEF TipoInv, Escuchar, conexion, lineas, historia, Pasos, Escuchando
  <2> QED BY <2>1, <2>2
<1>10. CASE RecibirInv
  <2>1. Head(entrada).bloque \in Bloques /\ entrada' \in Seq(Mensaje)
    BY <1>10, TipoDeCola DEF RecibirInv, Recibe
  <2> QED BY <1>10, <2>1 DEF TipoInv, RecibirInv, lineas, historia, Pasos, Escuchando
<1>11. CASE RecibirBloque
  <2>1. Head(entrada).bloque \in Bloques /\ entrada' \in Seq(Mensaje)
    BY <1>11, TipoDeCola DEF RecibirBloque, Recibe
  <2>2. pagina' \in Seq(Bloques) /\ pagina' # << >>
    BY <1>11, <2>1 DEF RecibirBloque
  <2> QED BY <1>11, <2>1, <2>2 DEF TipoInv, RecibirBloque, lineas, historia, Pasos, Escuchando
<1>12. CASE GuardarHeaderDeBloque
  <2>1. pagina[1] \in Bloques
    BY <1>12 DEF TipoInv, GuardarHeaderDeBloque
  <2>2. /\ archivo' \in Seq(Seq(Bloques) \ {<< >>}) /\ archivo' # << >> /\ abierta' = TRUE
    BY <1>12, <2>1, TipoDeEscritura DEF GuardarHeaderDeBloque
  <2> QED BY <1>12, <2>2 DEF TipoInv, GuardarHeaderDeBloque, conexion, historia, Pasos, Escuchando
<1>13. CASE AgregarHeaderDeBloque
  <2>1. pagina[1] \in Bloques /\ headers \in Seq(Bloques)
    BY <1>13 DEF TipoInv, AgregarHeaderDeBloque
  <2>2. headers' \in Seq(Bloques) /\ headers' # << >>
    BY <1>13, <2>1 DEF AgregarHeaderDeBloque
  <2> QED BY <1>13, <2>2 DEF TipoInv, AgregarHeaderDeBloque, EscribirFinDeLinea, conexion, historia,
                             Pasos, Escuchando
<1>14. CASE CrearArchivo
  <2>1. disco' \in [Bloques -> {"no", "parcial", "completo"}]
    BY <1>14 DEF TipoInv, CrearArchivo
  <2> QED BY <1>14, <2>1 DEF TipoInv, CrearArchivo, conexion, lineas, historia, Pasos, Escuchando
<1>15. CASE EscribirBloque
  <2>1. disco' \in [Bloques -> {"no", "parcial", "completo"}]
    BY <1>15 DEF TipoInv, EscribirBloque
  <2> QED BY <1>15, <2>1 DEF TipoInv, EscribirBloque, conexion, lineas, historia, Pasos, Escuchando
<1>16. CASE ObtenerUtxo
  <2>1. CASE Terminar
    BY <1>16, <2>1, TipoDeTerminar DEF TipoInv, ObtenerUtxo, historia
  <2>2. CASE ~Terminar
    BY <1>16, <2>2 DEF TipoInv, ObtenerUtxo, conexion, lineas, historia
  <2> QED BY <2>1, <2>2
<1>17. CASE Minar
  <2>1. largo' \in LargoInicial..Len(Red) /\ largo' = largo + 1
    BY <1>17, Constantes DEF TipoInv, Minar
  <2>2. Red[largo'] \in Bloques
    BY <2>1, Constantes
  <2>3. MsgInv(Red[largo']) \in Mensaje
    BY <2>2 DEF Mensaje
  <2>4. entrada' \in Seq(Mensaje)
    BY <1>17, <2>1, <2>3 DEF TipoInv, Minar
  <2> QED BY <1>17, <2>1, <2>4 DEF TipoInv, Minar, lineas, proceso, historia
<1>18. CASE Responder
  <2>1. CASE pedido.cmd = "headers"
    <3>1. MsgHeaders(Posteriores(pedido.desde)) \in Mensaje
      BY TipoDePosteriores DEF TipoInv, Mensaje
    <3>2. entrada' \in Seq(Mensaje)
      BY <1>18, <2>1, <3>1 DEF TipoInv, Responder
    <3> QED BY <1>18, <3>2 DEF TipoInv, Responder, lineas, proceso, historia
  <2>2. CASE pedido.cmd # "headers"
    <3>1. pedido.desde \in Bloques
      BY <1>18, <2>2, Mensajes DEF TipoInv, Responder
    <3>2. MsgBlock(pedido.desde) \in Mensaje
      BY <3>1 DEF Mensaje
    <3>3. entrada' \in Seq(Mensaje)
      BY <1>18, <2>2, <3>2 DEF TipoInv, Responder
    <3> QED BY <1>18, <3>3 DEF TipoInv, Responder, lineas, proceso, historia
  <2> QED BY <2>1, <2>2
<1>19. CASE Caer
  <2>1. disco' \in [Bloques -> {"no", "parcial", "completo"}]
    BY <1>19 DEF TipoInv, Caer
  <2>2. caidas' \in 0..MaxCaidas
    BY <1>19, ChainSyncAssumption DEF TipoInv, Caer
  <2> QED BY <1>19, <2>1, <2>2, TipoDeTerminar DEF TipoInv, Caer
<1>20. CASE UNCHANGED vars
  BY <1>20 DEF TipoInv, vars, conexion, lineas, proceso, historia
<1> QED BY <1>1, <1>2, <1>3, <1>4, <1>5, <1>6, <1>7, <1>8, <1>9, <1>10, <1>11, <1>12, <1>13,
           <1>14, <1>15, <1>16, <1>17, <1>18, <1>19, <1>20 DEF Next, PasoNodo

LEMMA TipoDeTipoInv == TipoInv => TypeOK
<1> SUFFICES ASSUME TipoInv PROVE TypeOK
  OBVIOUS
<1>1. \A i \in DOMAIN entrada : entrada[i].cmd \in {"inv", "block", "headers"}
  <2> TAKE i \in DOMAIN entrada
  <2>1. entrada[i] \in Mensaje
    BY DEF TipoInv
  <2> QED BY <2>1, Mensajes DEF Mensaje
<1>2. archivo \in Seq(Seq(Bloques))
  BY DEF TipoInv
<1> QED BY <1>1, <1>2 DEF TipoInv, TypeOK
-----------------------------------------------------------------------------
\* A set of positions that is not empty has a first one.
LEMMA MinimoExiste ==
    ASSUME NEW n \in Nat, NEW T \in SUBSET (1..n), T # {}
    PROVE  \E x \in T : \A y \in T : x <= y
<1> DEFINE Menores(x) == {y \in T : y < x}
           F == {Menores(x) : x \in T}
<1>1. F \subseteq FiniteSubsetsOf(1..n)
  <2>1. F \subseteq SUBSET (1..n)
    OBVIOUS
  <2>2. IsFiniteSet(1..n)
    BY FS_Interval
  <2> QED BY <2>1, <2>2, FS_FiniteSubsetsOfFinite
<1>2. PICK M \in F : \A N \in F : <<N, M>> \notin StrictSubsetOrdering(1..n)
  <2>1. F # {}
    OBVIOUS
  <2> HIDE DEF F
  <2> QED BY <1>1, <2>1, FS_StrictSubsetOrderingWellFounded, WFMin
<1>3. PICK x \in T : M = Menores(x)
  BY <1>2
<1>4. ASSUME NEW y \in T, y < x PROVE FALSE
  <2>1. /\ Menores(y) \subseteq Menores(x) /\ Menores(x) \subseteq 1..n
        /\ y \in Menores(x) /\ y \notin Menores(y)
    <3>1. T \subseteq Nat /\ x \in Nat /\ y \in Nat
      OBVIOUS
    <3>2. \A z \in T : z < y => z < x
      BY <1>4, <3>1
    <3>3. ~(y < y)
      BY <3>1
    <3> QED BY <1>4, <3>2, <3>3
  <2>2. Menores(y) \in F
    OBVIOUS
  <2> HIDE DEF Menores, F
  <2>3. <<Menores(y), Menores(x)>> \in StrictSubsetOrdering(1..n)
    BY <2>1 DEF StrictSubsetOrdering
  <2> QED BY <1>2, <1>3, <2>2, <2>3
<1> QED BY <1>4

\* From the first recent header that the process added on, all are chosen.
LEMMA EleccionCompleta ==
    ASSUME TipoInv, NEW i \in indice + 1..Len(headers),
           NEW j \in 1..i, headers[j] \in Recientes
    PROVE  headers[i] \in HeadersValidosFecha
<1> DEFINE recientes == {k \in DOMAIN headers : headers[k] \in Recientes}
           primero == CHOOSE k \in recientes : \A l \in recientes : k <= l
           desde == IF primero > indice + 1 THEN primero ELSE indice + 1
<1>1. /\ Len(headers) \in Nat /\ indice \in Nat /\ DOMAIN headers = 1..Len(headers)
      /\ i \in 1..Len(headers) /\ j \in recientes
  BY DEF TipoInv
<1>2. primero \in recientes /\ primero <= j
  <2>1. recientes \in SUBSET (1..Len(headers)) /\ recientes # {}
    BY <1>1
  <2> HIDE DEF recientes
  <2>2. \E k \in recientes : \A l \in recientes : k <= l
    BY <1>1, <2>1, MinimoExiste
  <2> QED BY <1>1, <2>2
<1>3. HeadersValidosFecha = IF recientes = {} THEN Rango(headers)
                            ELSE {headers[k] : k \in {l \in DOMAIN headers : l >= desde}}
  BY Zenon DEF HeadersValidosFecha
<1>4. i >= desde
  <2>1. primero \in Nat
    BY <1>1, <1>2
  <2> HIDE DEF primero
  <2> QED BY <1>1, <1>2, <2>1
<1> HIDE DEF recientes, desde
<1> QED BY <1>1, <1>3, <1>4

\* BloquesDelProceso, and what the listener stores is the last header of the vector.
BloquesInv ==
    /\ TipoInv /\ BloquesDelProceso
    /\ pc \in {"crear", "escribir"} => pagina # << >> /\ pagina[1] = headers[Len(headers)]

\* Steps that touch neither the vector nor the blocks to come.
LEMMA BloquesIgual ==
    ASSUME BloquesInv, pc \in {"bajar"} \cup Escuchando, pc' \in {"bajar"} \cup Escuchando,
           pc \in {"crear", "escribir"} => pc' = pc /\ pagina' = pagina,
           pc \notin {"crear", "escribir"} => pc' \notin {"crear", "escribir"},
           UNCHANGED <<headers, indice, disco, porBajar, omitidos>>, TipoInv'
    PROVE  BloquesInv'
<1>1. BloquesDelProceso'
  <2> SUFFICES ASSUME NEW i \in indice + 1..Len(headers), \E j \in 1..i : headers[j] \in Recientes
               PROVE  \/ disco[headers[i]] = "completo" \/ headers[i] \in porBajar \cup omitidos
                      \/ i = Len(headers) /\ pc' \in {"crear", "escribir"}
    BY DEF BloquesDelProceso
  <2>1. \/ disco[headers[i]] = "completo" \/ headers[i] \in porBajar \cup omitidos
        \/ i = Len(headers) /\ pc \in {"crear", "escribir"}
    BY DEF BloquesInv, BloquesDelProceso
  <2> QED BY <2>1
<1>2. pc' \in {"crear", "escribir"} =>
         pagina' # << >> /\ pagina'[1] = headers'[Len(headers')]
  BY DEF BloquesInv
<1> QED BY <1>1, <1>2 DEF BloquesInv

\* Steps after which nothing is claimed.
LEMMA BloquesFuera ==
    ASSUME TipoInv', pc' \notin {"bajar"} \cup Escuchando PROVE BloquesInv'
<1>1. pc' \notin {"crear", "escribir"}
  BY DEF Escuchando
<1> QED BY <1>1 DEF BloquesInv, BloquesDelProceso

LEMMA BloquesInvInit == Init => BloquesInv
  BY TipoInvInit DEF Init, BloquesInv, BloquesDelProceso, Escuchando

LEMMA BloquesInvNext == BloquesInv /\ [Next]_vars => BloquesInv'
<1> SUFFICES ASSUME BloquesInv, [Next]_vars PROVE BloquesInv'
  OBVIOUS
<1>t. TipoInv /\ TipoInv'
  BY TipoInvNext DEF BloquesInv
<1>1. CASE Arrancar \/ RecibirPagina \/ GuardarHeader \/ AgregarHeader \/ FinDePagina
  <2>1. pc' \notin {"bajar"} \cup Escuchando
    BY <1>1 DEF Arrancar, RecibirPagina, GuardarHeader, AgregarHeader, FinDePagina, Escuchando
  <2> QED BY <1>t, <2>1, BloquesFuera
<1>2. CASE Terminar
  <2>1. pc' \notin {"bajar"} \cup Escuchando
    BY <1>2 DEF Terminar, Escuchando
  <2> QED BY <1>t, <2>1, BloquesFuera
<1>3. CASE ElegirBloques
  <2>1. /\ pc' = "bajar" /\ headers' = headers /\ indice' = indice /\ porBajar' = HeadersValidosFecha
    BY <1>3 DEF ElegirBloques
  <2>2. \A i \in indice + 1..Len(headers) :
           (\E j \in 1..i : headers[j] \in Recientes) => headers[i] \in HeadersValidosFecha
    BY <1>t, EleccionCompleta
  <2>3. BloquesDelProceso'
    BY <2>1, <2>2 DEF BloquesDelProceso
  <2> QED BY <1>t, <2>1, <2>3 DEF BloquesInv
<1>4. CASE BajarBloque
  <2>1. /\ pc = "bajar" /\ pc' = "bajar" /\ headers' = headers /\ indice' = indice
        /\ \E b \in porBajar :
              /\ porBajar' = porBajar \ {b}
              /\ \/ disco' = [disco EXCEPT ![b] = "completo"] /\ omitidos' = omitidos
                 \/ omitidos' = omitidos \cup {b} /\ disco' = disco
    BY <1>4 DEF BajarBloque
  <2>2. porBajar \subseteq Bloques /\ disco \in [Bloques -> {"no", "parcial", "completo"}]
    BY <1>t DEF TipoInv
  <2>3. BloquesDelProceso'
    <3> SUFFICES ASSUME NEW i \in indice + 1..Len(headers), \E j \in 1..i : headers[j] \in Recientes
                 PROVE  disco'[headers[i]] = "completo" \/ headers[i] \in porBajar' \cup omitidos'
      BY <2>1 DEF BloquesDelProceso
    <3>1. disco[headers[i]] = "completo" \/ headers[i] \in porBajar \cup omitidos
      BY <2>1 DEF BloquesInv, BloquesDelProceso
    <3>2. headers[i] \in Bloques
      <4>1. headers \in Seq(Bloques) /\ indice \in Nat
        BY <1>t DEF TipoInv
      <4> QED BY <4>1
    <3> QED BY <2>1, <2>2, <3>1, <3>2
  <2> QED BY <1>t, <2>1, <2>3 DEF BloquesInv
<1>5. CASE Escuchar /\ ~Terminar
  BY <1>5, <1>t, BloquesIgual DEF Escuchar, Escuchando, historia
<1>6. CASE ObtenerUtxo /\ ~Terminar
  BY <1>6, <1>t, BloquesIgual DEF ObtenerUtxo, Escuchando, historia
<1>7. CASE RecibirInv \/ RecibirBloque \/ GuardarHeaderDeBloque
  BY <1>7, <1>t, BloquesIgual
     DEF RecibirInv, RecibirBloque, GuardarHeaderDeBloque, Escuchando, historia
<1>8. CASE AgregarHeaderDeBloque
  <2> DEFINE n == Len(headers)
  <2>1. /\ pc = "linea_bloque" /\ pc' = "crear" /\ headers' = Append(headers, pagina[1])
        /\ UNCHANGED <<indice, pagina, disco, porBajar, omitidos>>
    BY <1>8 DEF AgregarHeaderDeBloque, historia
  <2>2. /\ headers \in Seq(Bloques) /\ n \in Nat /\ indice \in Nat /\ pagina # << >>
        /\ pagina[1] \in Bloques
    BY <1>t, <2>1 DEF TipoInv
  <2>3. /\ Len(headers') = n + 1 /\ \A i \in 1..n : headers'[i] = headers[i]
        /\ headers'[n + 1] = pagina[1]
    BY <2>1, <2>2
  <2>4. BloquesDelProceso'
    <3> SUFFICES ASSUME NEW i \in indice + 1..n, \E j \in 1..i : headers'[j] \in Recientes
                 PROVE  disco[headers'[i]] = "completo" \/ headers'[i] \in porBajar \cup omitidos
      BY <2>1, <2>2, <2>3 DEF BloquesDelProceso
    <3>1. i \in 1..n /\ \A j \in 1..i : headers'[j] = headers[j]
      BY <2>2, <2>3
    <3>2. disco[headers[i]] = "completo" \/ headers[i] \in porBajar \cup omitidos
      BY <2>1, <3>1 DEF BloquesInv, BloquesDelProceso, Escuchando
    <3> QED BY <3>1, <3>2
  <2> QED BY <1>t, <2>1, <2>2, <2>3, <2>4 DEF BloquesInv
<1>9. CASE CrearArchivo \/ EscribirBloque
  <2> DEFINE b == headers[Len(headers)]
  <2>1. /\ pc \in {"crear", "escribir"} /\ pagina # << >> /\ pagina[1] = b
        /\ UNCHANGED <<headers, indice, porBajar, omitidos>>
    BY <1>9 DEF BloquesInv, CrearArchivo, EscribirBloque, historia
  <2>2. /\ headers \in Seq(Bloques) /\ headers # << >> /\ b \in Bloques
        /\ disco \in [Bloques -> {"no", "parcial", "completo"}]
    BY <1>t, <2>1 DEF TipoInv
  <2>3. \A i \in indice + 1..Len(headers) :
           (\E j \in 1..i : headers[j] \in Recientes) =>
              \/ disco[headers[i]] = "completo" \/ headers[i] \in porBajar \cup omitidos
              \/ i = Len(headers)
    BY <2>1 DEF BloquesInv, BloquesDelProceso, Escuchando
  <2>4. \A x \in Bloques : disco[x] = "completo" => disco'[x] = "completo"
    BY <1>9, <2>2 DEF CrearArchivo, EscribirBloque
  <2>5. \A i \in indice + 1..Len(headers) : headers[i] \in Bloques
    <3>1. headers \in Seq(Bloques) /\ indice \in Nat
      BY <1>t DEF TipoInv
    <3> QED BY <3>1
  <2>6. CASE CrearArchivo
    <3>1. pc' = "escribir" /\ pagina' = pagina
      BY <2>6 DEF CrearArchivo
    <3>2. BloquesDelProceso'
      BY <2>1, <2>3, <2>4, <2>5, <3>1 DEF BloquesDelProceso
    <3> QED BY <1>t, <2>1, <3>1, <3>2 DEF BloquesInv
  <2>7. CASE EscribirBloque
    <3>1. pc' = "inv" /\ disco'[b] = "completo"
      BY <2>1, <2>2, <2>7 DEF EscribirBloque
    <3>2. BloquesDelProceso'
      BY <2>1, <2>3, <2>4, <2>5, <3>1 DEF BloquesDelProceso
    <3> QED BY <1>t, <3>1, <3>2 DEF BloquesInv
  <2> QED BY <1>9, <2>6, <2>7
<1>10. CASE Descartar \/ Minar \/ Responder \/ UNCHANGED vars
  <2>1. UNCHANGED <<pc, pagina, headers, indice, disco, porBajar, omitidos>>
    BY <1>10 DEF Descartar, Minar, Responder, vars, proceso, historia
  <2>2. CASE pc \in {"bajar"} \cup Escuchando
    BY <1>t, <2>1, <2>2, BloquesIgual
  <2>3. CASE pc \notin {"bajar"} \cup Escuchando
    BY <1>t, <2>1, <2>3, BloquesFuera
  <2> QED BY <2>2, <2>3
<1> QED BY <1>1, <1>2, <1>3, <1>4, <1>5, <1>6, <1>7, <1>8, <1>9, <1>10
        DEF Next, PasoNodo, Caer

LEMMA BloquesSiempre == Spec => []BloquesInv
  BY BloquesInvInit, BloquesInvNext, PTL DEF Spec

-----------------------------------------------------------------------------
\* The runs the theorems about the chain are stated for.
Supuestos == ~LineaPartida

AMedias == {"linea", "linea_bloque"}
Quietos == {"fechas", "bajar", "inv", "crear", "escribir"}

\* The place of the last of s, and what makes s right when the blocks of P are lost.
Tope(s) == Lugar(s[Len(s)])
Sigue(s, P) ==
    /\ s \in Seq(Bloques) /\ s # << >> /\ EnOrden(s)
    /\ \A i \in 1..Tope(s) : Red[i] \in Rango(s) \cup P

\* What is written, and the vector.
Escrito ==
    /\ Sigue(HeadersDe(archivo), perdidos) /\ Tope(HeadersDe(archivo)) <= largo
    /\ \A i \in DOMAIN archivo : Len(archivo[i]) = 1
    /\ abierta <=> pc \in AMedias
    /\ pc # "inicio" =>
          /\ Sigue(headers, perdidos) /\ Tope(headers) <= largo
          /\ HeadersDe(archivo) = IF pc \in AMedias THEN Append(headers, pagina[1]) ELSE headers

\* The last block that no message of e announces, when the chain has l blocks and the
\* message at q (none if q is 0) is an answer.
Vista(e, l, q) == l - Len(e) + (IF q > 0 THEN 1 ELSE 0)

\* The others announce the last blocks of the chain, in order.
Cola(e, l, q) ==
    /\ q \in 0..Len(e) /\ Vista(e, l, q) \in 1..l
    /\ \A i \in 1..Len(e) :
          i # q => e[i] = MsgInv(Red[Vista(e, l, q) + (IF 0 < q /\ q < i THEN i - 1 ELSE i)])

\* p is the page that follows the place u, when the chain had n blocks.
EsPagina(p, u, n) ==
    /\ p \in Seq(Bloques) /\ \A i \in DOMAIN p : p[i] = Red[u + i]
    /\ u <= n /\ Len(p) = IF u + MaxPagina < n THEN MaxPagina ELSE n - u

\* Of the blocks after u up to v, those that are not in W are lost.
Perdidos(u, v, W, P) == \A x \in u + 1..v : x \notin W => Red[x] \in P

\* The request under way and its answer, at each step of the process.
Paso(q) ==
    LET u == Tope(headers)
        v == Vista(entrada, largo, q)
    IN  /\ pc = "inicio" => pedido = Nada /\ entrada = << >>
        /\ pc = "headers" =>
              \/ q = 0 /\ pedido = Pedir("headers", headers[Len(headers)])
              \/ /\ q > 0 /\ pedido = Nada
                 /\ \E p \in Seq(Bloques) :
                       entrada[q] = MsgHeaders(p) /\ EsPagina(p, u, largo - (Len(entrada) - q))
        /\ pc \in {"hex", "linea"} =>
              /\ q = 0 /\ pedido = Nada
              /\ \A i \in DOMAIN pagina : pagina[i] = Red[u + i]
              /\ u + Len(pagina) <= v /\ (~llena => u + Len(pagina) = v)
        /\ pc \in Quietos => q = 0 /\ pedido = Nada /\ u <= v /\ Perdidos(u, v, {}, perdidos)
        /\ pc = "block" =>
              \E w \in u + 1..v :
                 /\ Perdidos(u, v, {w}, perdidos)
                 /\ \/ q = 0 /\ pedido = Pedir("block", Red[w])
                    \/ q > 0 /\ pedido = Nada /\ entrada[q] = MsgBlock(Red[w])
        /\ pc \in {"hex_bloque", "linea_bloque"} =>
              /\ q = 0 /\ pedido = Nada
              /\ \E w \in u + 1..v : pagina = <<Red[w]>> /\ Perdidos(u, v, {w}, perdidos)

Dialogo == \E q \in 0..Len(entrada) : Cola(entrada, largo, q) /\ Paso(q)

CadenaInv == TipoInv /\ Escrito /\ Dialogo
-----------------------------------------------------------------------------
(* The places of the chain. *)

LEMMA LugarDe ==
    /\ \A x \in 1..Len(Red) : Lugar(Red[x]) = x
    /\ \A b \in Bloques : Lugar(b) \in 1..Len(Red) /\ Red[Lugar(b)] = b
<1>1. \A x \in 1..Len(Red) : Lugar(Red[x]) = x
  BY Constantes DEF Lugar
<1>2. \A b \in Bloques : \E i \in 1..Len(Red) : Red[i] = b
  BY Constantes DEF Bloques, Rango
<1> QED BY <1>1, <1>2

\* The last of s is its highest.
LEMMA TopeEsMaximo ==
    ASSUME NEW s, NEW P, Sigue(s, P)
    PROVE  /\ Tope(s) \in 1..Len(Red) /\ s[Len(s)] = Red[Tope(s)]
           /\ \A b \in Rango(s) : Lugar(b) <= Tope(s) /\ Lugar(b) \in 1..Len(Red)
<1> DEFINE n == Len(s)
<1>1. /\ s \in Seq(Bloques) /\ n \in Nat /\ n >= 1 /\ DOMAIN s = 1..n
      /\ \A i \in 1..n : s[i] \in Bloques
      /\ \A i, j \in 1..n : i < j => Lugar(s[i]) < Lugar(s[j])
  BY DEF Sigue, EnOrden
<1>2. \A i \in 1..n : Lugar(s[i]) \in 1..Len(Red)
  BY <1>1, LugarDe
<1>3. Tope(s) = Lugar(s[n]) /\ s[n] = Red[Lugar(s[n])] /\ Lugar(s[n]) \in 1..Len(Red)
  BY <1>1, LugarDe DEF Tope
<1>4. \A i \in 1..n : Lugar(s[i]) <= Lugar(s[n])
  <2>1. n \in Nat /\ n \in 1..n
    BY <1>1
  <2> HIDE DEF n
  <2> TAKE i \in 1..n
  <2>2. i = n \/ i < n
    BY <2>1
  <2>3. Lugar(s[n]) \in Nat /\ Lugar(s[i]) \in Nat
    BY <1>2, <2>1, Constantes
  <2>4. i < n => Lugar(s[i]) < Lugar(s[n])
    BY <1>1, <2>1
  <2> QED BY <2>2, <2>3, <2>4
<1> QED BY <1>1, <1>2, <1>3, <1>4 DEF Rango

\* One more block, when those in between are lost.
LEMMA SigueConUnoMas ==
    ASSUME NEW s, NEW P, Sigue(s, P), NEW w \in 1..Len(Red), w > Tope(s),
           \A x \in Tope(s) + 1..w - 1 : Red[x] \in P
    PROVE  Sigue(Append(s, Red[w]), P) /\ Tope(Append(s, Red[w])) = w
<1> DEFINE n == Len(s)
           t == Append(s, Red[w])
<1>1. s \in Seq(Bloques) /\ n \in Nat /\ DOMAIN s = 1..n /\ Red[w] \in Bloques
  BY Constantes DEF Sigue
<1>2. /\ t \in Seq(Bloques) /\ Len(t) = n + 1 /\ DOMAIN t = 1..n + 1 /\ t # << >>
      /\ t[n + 1] = Red[w] /\ \A i \in 1..n : t[i] = s[i]
  BY <1>1
<1>3. Lugar(t[n + 1]) = w /\ Tope(t) = w
  BY <1>2, LugarDe DEF Tope
<1> HIDE DEF t
<1>4. \A i \in 1..n : Lugar(t[i]) <= Tope(s) /\ Lugar(t[i]) \in Nat /\ Tope(s) \in Nat
  BY <1>1, <1>2, TopeEsMaximo, Constantes DEF Rango
<1>5. EnOrden(t)
  <2> SUFFICES ASSUME NEW i \in 1..n + 1, NEW j \in 1..n + 1, i < j
               PROVE  Lugar(t[i]) < Lugar(t[j])
    BY <1>2 DEF EnOrden
  <2>1. CASE j \in 1..n
    <3>1. i \in 1..n /\ Lugar(s[i]) < Lugar(s[j])
      BY <1>1, <2>1 DEF Sigue, EnOrden
    <3> QED BY <1>2, <2>1, <3>1
  <2>2. CASE j = n + 1
    <3>1. i \in 1..n
      BY <1>1, <2>2
    <3> QED BY <1>3, <1>4, <2>2, <3>1
  <2> QED BY <1>1, <2>1, <2>2
<1>6. \A i \in 1..w : Red[i] \in Rango(t) \cup P
  <2> TAKE i \in 1..w
  <2>1. CASE i <= Tope(s)
    <3>1. Red[i] \in Rango(s) \cup P
      BY <2>1, TopeEsMaximo, Constantes DEF Sigue
    <3>2. Rango(s) \subseteq Rango(t)
      BY <1>1, <1>2 DEF Rango
    <3> QED BY <3>1, <3>2
  <2>2. CASE i = w
    BY <1>1, <1>2, <2>2 DEF Rango
  <2>3. CASE i > Tope(s) /\ i # w
    BY <2>3, TopeEsMaximo, Constantes
  <2> QED BY <2>1, <2>2, <2>3, TopeEsMaximo, Constantes
<1> QED BY <1>2, <1>3, <1>5, <1>6 DEF Sigue, t

\* Losing more blocks breaks nothing.
LEMMA SigueCreciente ==
    ASSUME NEW s, NEW P, NEW Q, Sigue(s, P), P \subseteq Q
    PROVE  Sigue(s, Q)
  BY DEF Sigue

-----------------------------------------------------------------------------
(* The file as it is read. *)

LEMMA Lectura ==
    ASSUME NEW a \in Seq(Seq(Bloques) \ {<< >>})
    PROVE  /\ HeadersDe(a) \in Seq(Bloques) /\ Len(HeadersDe(a)) = Len(a) + 1 /\ Len(a) \in Nat
           /\ HeadersDe(a)[1] = Red[1]
           /\ \A i \in 1..Len(a) : HeadersDe(a)[i + 1] = a[i][1]
<1> DEFINE n == Len(a)
           t == [i \in DOMAIN a |-> a[i][1]]
<1>1. \A i \in 1..n : a[i] \in Seq(Bloques) /\ a[i] # << >> /\ a[i][1] \in Bloques
  <2> TAKE i \in 1..n
  <2>1. a[i] \in Seq(Bloques) \ {<< >>}
    OBVIOUS
  <2>2. \A s \in Seq(Bloques) : s # << >> => s[1] \in Bloques
    OBVIOUS
  <2> QED BY <2>1, <2>2
<1>2. t \in Seq(Bloques) /\ Len(t) = n /\ n \in Nat /\ \A i \in 1..n : t[i] = a[i][1]
  BY <1>1, SMTT(30)
<1>3. <<Red[1]>> \in Seq(Bloques) /\ Len(<<Red[1]>>) = 1
  BY Constantes
<1>4. HeadersDe(a) = <<Red[1]>> \o t
  BY DEF HeadersDe
<1> HIDE DEF t
<1>5. /\ <<Red[1]>> \o t \in Seq(Bloques) /\ Len(<<Red[1]>> \o t) = 1 + n
      /\ \A i \in 1..1 + n : (<<Red[1]>> \o t)[i] = IF i <= 1 THEN <<Red[1]>>[i] ELSE t[i - 1]
  BY <1>2, <1>3, ConcatProperties
<1>6. (<<Red[1]>> \o t)[1] = Red[1]
  BY <1>2, <1>5
<1>7. \A i \in 1..n : (<<Red[1]>> \o t)[i + 1] = a[i][1]
  <2> TAKE i \in 1..n
  <2>1. i + 1 \in 1..1 + n /\ ~(i + 1 <= 1) /\ i + 1 - 1 = i
    BY <1>2
  <2> QED BY <1>2, <1>5, <2>1
<1> QED BY <1>2, <1>4, <1>5, <1>6, <1>7

\* A line more is a header more.
LEMMA LecturaDeOtra ==
    ASSUME NEW a \in Seq(Seq(Bloques) \ {<< >>}), NEW b \in Bloques
    PROVE  HeadersDe(Append(a, <<b>>)) = Append(HeadersDe(a), b)
<1> DEFINE S == Seq(Bloques) \ {<< >>}
           n == Len(a)
           c == Append(a, <<b>>)
           f == HeadersDe(c)
           g == Append(HeadersDe(a), b)
<1>1. <<b>> \in S /\ n \in Nat
  OBVIOUS
<1> HIDE DEF S
<1>2. c \in Seq(S) /\ Len(c) = n + 1 /\ c[n + 1] = <<b>> /\ \A i \in 1..n : c[i] = a[i]
  BY <1>1 DEF S
<1> HIDE DEF c
<1>3. /\ f \in Seq(Bloques) /\ Len(f) = n + 2 /\ f[1] = Red[1]
      /\ \A i \in 1..n + 1 : f[i + 1] = c[i][1]
  BY <1>1, <1>2, Lectura DEF S
<1>4. /\ HeadersDe(a) \in Seq(Bloques) /\ Len(HeadersDe(a)) = n + 1 /\ HeadersDe(a)[1] = Red[1]
      /\ \A i \in 1..n : HeadersDe(a)[i + 1] = a[i][1]
  BY Lectura
<1>5. /\ g \in Seq(Bloques) /\ Len(g) = n + 2 /\ g[n + 2] = b
      /\ \A i \in 1..n + 1 : g[i] = HeadersDe(a)[i]
  BY <1>1, <1>4
<1> HIDE DEF f, g
<1>6. \A i \in 1..n + 2 : f[i] = g[i]
  <2> TAKE i \in 1..n + 2
  <2>1. CASE i = 1
    BY <1>1, <1>3, <1>4, <1>5, <2>1
  <2>2. CASE i = n + 2
    <3>1. c[n + 1][1] = b
      BY <1>2
    <3>2. f[n + 1 + 1] = c[n + 1][1]
      BY <1>1, <1>3
    <3> QED BY <1>1, <1>5, <2>2, <3>1, <3>2
  <2>3. CASE i \in 2..n + 1
    <3>1. i - 1 \in 1..n /\ i - 1 + 1 = i /\ i \in 1..n + 1 /\ i - 1 \in 1..n + 1
      BY <1>1, <2>3
    <3>2. f[i] = c[i - 1][1]
      BY <1>3, <3>1
    <3>3. g[i] = a[i - 1][1]
      BY <1>4, <1>5, <3>1
    <3> QED BY <1>2, <3>1, <3>2, <3>3
  <2> QED BY <1>1, <2>1, <2>2, <2>3
<1>7. f = g
  BY <1>3, <1>5, <1>6, SeqEqual
<1> QED BY <1>7 DEF f, g, c

\* The hash asked for is that of the last header read.
LEMMA UltimoLeido ==
    ASSUME NEW a \in Seq(Seq(Bloques) \ {<< >>}), \A i \in DOMAIN a : Len(a[i]) = 1
    PROVE  UltimoHash(a) = HeadersDe(a)[Len(HeadersDe(a))]
<1>1. CASE a = << >>
  <2>0. Len(a) = 0
    BY <1>1
  <2>1. Len(HeadersDe(a)) = 1 /\ HeadersDe(a)[1] = Red[1]
    <3>1. Len(HeadersDe(a)) = Len(a) + 1 /\ HeadersDe(a)[1] = Red[1]
      BY Lectura
    <3> QED BY <2>0, <3>1
  <2>2. UltimoHash(a) = Red[1]
    BY <1>1 DEF UltimoHash
  <2> QED BY <2>1, <2>2
<1>2. CASE a # << >>
  <2> DEFINE n == Len(a)
  <2>1. n \in 1..n /\ n \in DOMAIN a
    BY <1>2
  <2>2. Len(a[n]) = 1
    BY <2>1
  <2>3. UltimoHash(a) = a[n][1]
    BY <1>2, <2>2 DEF UltimoHash
  <2>4. HeadersDe(a)[n + 1] = a[n][1] /\ Len(HeadersDe(a)) = n + 1
    BY <2>1, Lectura
  <2> QED BY <2>3, <2>4
<1> QED BY <1>1, <1>2
-----------------------------------------------------------------------------
(* The messages that wait. *)

LEMMA ColaVacia ==
    ASSUME NEW e, Len(e) = 0, NEW l \in 1..Len(Red)
    PROVE  Cola(e, l, 0)
<1>1. l \in Nat /\ l >= 1
  BY Constantes
<1>2. Vista(e, l, 0) = l
  BY <1>1 DEF Vista
<1>3. 0 \in 0..Len(e) /\ 1..Len(e) = {}
  OBVIOUS
<1>4. Vista(e, l, 0) \in 1..l
  BY <1>1, <1>2
<1> QED BY <1>3, <1>4 DEF Cola

LEMMA ColaConAviso ==
    ASSUME NEW e \in Seq(Mensaje), NEW l \in 1..Len(Red), NEW q, Cola(e, l, q), l + 1 \in 1..Len(Red)
    PROVE  LET f == Append(e, MsgInv(Red[l + 1]))
           IN  /\ f \in Seq(Mensaje) /\ Len(f) = Len(e) + 1 /\ Cola(f, l + 1, q)
               /\ Vista(f, l + 1, q) = Vista(e, l, q)
               /\ q > 0 => f[q] = e[q]
<1> DEFINE m == MsgInv(Red[l + 1])
           f == Append(e, m)
           n == Len(e)
<1>1. m \in Mensaje /\ n \in Nat /\ l \in Nat /\ q \in 0..n
  BY Constantes DEF Mensaje, Cola
<1> HIDE DEF m
<1>2. f \in Seq(Mensaje) /\ Len(f) = n + 1 /\ f[n + 1] = m /\ \A i \in 1..n : f[i] = e[i]
  BY <1>1
<1> HIDE DEF f
<1>3. Vista(f, l + 1, q) = Vista(e, l, q) /\ Vista(e, l, q) \in 1..l
  BY <1>1, <1>2 DEF Vista, Cola
<1>4. ASSUME NEW i \in 1..n + 1, i # q
      PROVE  f[i] = MsgInv(Red[Vista(e, l, q) + (IF 0 < q /\ q < i THEN i - 1 ELSE i)])
  <2>1. CASE i \in 1..n
    BY <1>2, <1>4, <2>1 DEF Cola
  <2>2. CASE i = n + 1
    <3>1. Vista(e, l, q) + (IF 0 < q /\ q < i THEN i - 1 ELSE i) = l + 1
      <4>1. n \in Nat /\ q \in 0..n /\ l \in Nat /\ Vista(e, l, q) = l - n + (IF q > 0 THEN 1 ELSE 0)
        BY <1>1 DEF Vista
      <4> HIDE DEF n
      <4>2. CASE q > 0
        BY <2>2, <4>1, <4>2
      <4>3. CASE q = 0
        BY <2>2, <4>1, <4>3
      <4> QED BY <4>1, <4>2, <4>3
    <3>2. f[i] = m
      BY <1>2, <2>2
    <3>3. m = MsgInv(Red[Vista(e, l, q) + (IF 0 < q /\ q < i THEN i - 1 ELSE i)])
      BY <3>1 DEF m
    <3> QED BY <3>2, <3>3
  <2> QED BY <1>1, <2>1, <2>2
<1>5. Cola(f, l + 1, q)
  BY <1>1, <1>2, <1>3, <1>4 DEF Cola
<1> QED BY <1>1, <1>2, <1>3, <1>5 DEF f, m

LEMMA ColaConRespuesta ==
    ASSUME NEW e \in Seq(Mensaje), NEW l \in 1..Len(Red), Cola(e, l, 0), NEW m \in Mensaje
    PROVE  LET f == Append(e, m)
               q == Len(e) + 1
           IN  /\ f \in Seq(Mensaje) /\ Len(f) = q /\ q \in 1..Len(f) /\ Cola(f, l, q) /\ f[q] = m
               /\ Vista(f, l, q) = Vista(e, l, 0)
<1> DEFINE f == Append(e, m)
           n == Len(e)
<1>1. n \in Nat /\ l \in Nat
  BY Constantes
<1>2. f \in Seq(Mensaje) /\ Len(f) = n + 1 /\ f[n + 1] = m /\ \A i \in 1..n : f[i] = e[i]
  BY <1>1
<1> HIDE DEF f
<1>3. Vista(f, l, n + 1) = Vista(e, l, 0) /\ Vista(e, l, 0) \in 1..l
  BY <1>1, <1>2 DEF Vista, Cola
<1>4. ASSUME NEW i \in 1..n + 1, i # n + 1
      PROVE  f[i] = MsgInv(Red[Vista(e, l, 0) + (IF 0 < n + 1 /\ n + 1 < i THEN i - 1 ELSE i)])
  <2>1. i \in 1..n /\ ~(n + 1 < i)
    BY <1>1, <1>4
  <2> QED BY <1>2, <2>1 DEF Cola
<1>5. Cola(f, l, n + 1)
  BY <1>1, <1>2, <1>3, <1>4 DEF Cola
<1> QED BY <1>1, <1>2, <1>3, <1>5 DEF f

\* The head of the queue is the answer.
LEMMA ColaSinRespuesta ==
    ASSUME NEW e \in Seq(Mensaje), NEW l \in 1..Len(Red), Cola(e, l, 1)
    PROVE  /\ e # << >> /\ Head(e) = e[1] /\ Tail(e) \in Seq(Mensaje) /\ Len(Tail(e)) = Len(e) - 1
           /\ Cola(Tail(e), l, 0) /\ Vista(Tail(e), l, 0) = Vista(e, l, 1)
<1> DEFINE f == Tail(e)
           n == Len(e)
<1>1. n \in Nat /\ l \in Nat /\ n >= 1 /\ e # << >> /\ Head(e) = e[1]
  BY Constantes DEF Cola
<1>2. f \in Seq(Mensaje) /\ Len(f) = n - 1 /\ \A i \in 1..n - 1 : f[i] = e[i + 1]
  BY <1>1
<1> HIDE DEF f
<1>3. Vista(f, l, 0) = Vista(e, l, 1) /\ Vista(e, l, 1) \in 1..l
  BY <1>1, <1>2 DEF Vista, Cola
<1>4. ASSUME NEW i \in 1..n - 1
      PROVE  f[i] = MsgInv(Red[Vista(e, l, 1) + (IF 0 < 0 /\ 0 < i THEN i - 1 ELSE i)])
  <2>1. i + 1 \in 1..n /\ i + 1 # 1 /\ 1 < i + 1 /\ i + 1 - 1 = i
    BY <1>1
  <2>2. e[i + 1] = MsgInv(Red[Vista(e, l, 1) + (IF 0 < 1 /\ 1 < i + 1 THEN i + 1 - 1 ELSE i + 1)])
    BY <2>1 DEF Cola
  <2> QED BY <1>2, <2>1, <2>2
<1>5. Cola(f, l, 0)
  BY <1>1, <1>2, <1>3, <1>4 DEF Cola
<1> QED BY <1>1, <1>2, <1>3, <1>5 DEF f

\* It is an announcement.
LEMMA ColaSinAviso ==
    ASSUME NEW e \in Seq(Mensaje), NEW l \in 1..Len(Red), NEW q, Cola(e, l, q), q # 1, e # << >>
    PROVE  LET r == IF q = 0 THEN 0 ELSE q - 1
               v == Vista(e, l, q)
           IN  /\ Head(e) = MsgInv(Red[v + 1]) /\ v \in 1..l /\ v + 1 \in 1..l
               /\ Tail(e) \in Seq(Mensaje) /\ Len(Tail(e)) = Len(e) - 1
               /\ Cola(Tail(e), l, r) /\ Vista(Tail(e), l, r) = v + 1
               /\ (r > 0 <=> q > 0) /\ (q > 0 => Tail(e)[r] = e[q])
<1> DEFINE f == Tail(e)
           n == Len(e)
           r == IF q = 0 THEN 0 ELSE q - 1
           v == Vista(e, l, q)
<1>1. n \in Nat /\ l \in Nat /\ n >= 1 /\ Head(e) = e[1] /\ q \in 0..n /\ (q > 0 => q >= 2)
  BY Constantes DEF Cola
<1>2. f \in Seq(Mensaje) /\ Len(f) = n - 1 /\ \A i \in 1..n - 1 : f[i] = e[i + 1]
  BY <1>1
<1> HIDE DEF f
<1>3. v \in 1..l /\ v + 1 \in 1..l /\ Vista(f, l, r) = v + 1 /\ r \in 0..n - 1 /\ (r > 0 <=> q > 0)
  BY <1>1, <1>2 DEF Vista, Cola
<1>4. Head(e) = MsgInv(Red[v + 1])
  <2>1. 1 \in 1..n /\ 1 # q /\ ~(0 < q /\ q < 1)
    BY <1>1
  <2> QED BY <1>1, <2>1 DEF Cola
<1> HIDE DEF v
<1>5. ASSUME NEW i \in 1..n - 1, i # r
      PROVE  f[i] = MsgInv(Red[v + 1 + (IF 0 < r /\ r < i THEN i - 1 ELSE i)])
  <2>1. i + 1 \in 1..n /\ i + 1 # q
    BY <1>1, <1>5
  <2>2. f[i] = MsgInv(Red[v + (IF 0 < q /\ q < i + 1 THEN i + 1 - 1 ELSE i + 1)])
    BY <1>2, <2>1 DEF Cola, v
  <2>3. v + (IF 0 < q /\ q < i + 1 THEN i + 1 - 1 ELSE i + 1)
           = v + 1 + (IF 0 < r /\ r < i THEN i - 1 ELSE i)
    BY <1>1, <1>3
  <2> QED BY <2>2, <2>3
<1>6. Cola(f, l, r)
  <2>1. Len(f) = n - 1 /\ Vista(f, l, r) \in 1..l
    BY <1>2, <1>3
  <2> QED BY <1>3, <1>5, <2>1 DEF Cola
<1>7. q > 0 => f[r] = e[q]
  BY <1>1, <1>2
<1> QED BY <1>2, <1>3, <1>4, <1>6, <1>7 DEF f, v
-----------------------------------------------------------------------------
(* The steps. *)

LEMMA LargoDe ==
    ASSUME TipoInv
    PROVE  largo \in 1..Len(Red) /\ largo \in Nat
  BY Constantes DEF TipoInv

LEMMA CadenaInvInit == Init => CadenaInv
<1> SUFFICES ASSUME Init PROVE CadenaInv
  OBVIOUS
<1>1. TipoInv
  BY TipoInvInit
<1>2. archivo = << >> /\ entrada = << >> /\ pc = "inicio" /\ abierta = FALSE /\ pedido = Nada
  BY DEF Init
<1>3. Len(archivo) = 0 /\ Len(entrada) = 0
  BY <1>2
<1> DEFINE f == HeadersDe(archivo)
<1>4. f \in Seq(Bloques) /\ Len(f) = 1 /\ f[1] = Red[1]
  <2>1. archivo \in Seq(Seq(Bloques) \ {<< >>})
    BY <1>1 DEF TipoInv
  <2>2. f \in Seq(Bloques) /\ Len(f) = Len(archivo) + 1 /\ f[1] = Red[1]
    BY <2>1, Lectura
  <2> QED BY <1>3, <2>2
<1> HIDE DEF f
<1>5. Tope(f) = 1
  BY <1>4, LugarDe, Constantes DEF Tope
<1>6. Sigue(f, perdidos)
  BY <1>4, <1>5 DEF Sigue, EnOrden, Rango
<1>7. Escrito
  BY <1>1, <1>2, <1>3, <1>5, <1>6, LargoDe DEF Escrito, AMedias, f
<1>8. Cola(entrada, largo, 0)
  BY <1>1, <1>3, LargoDe DEF Cola, Vista
<1>9. Paso(0)
  BY <1>2 DEF Paso, Quietos
<1> QED BY <1>1, <1>3, <1>7, <1>8, <1>9 DEF CadenaInv, Dialogo

\* What is written stays right while nothing is written and more is lost.
LEMMA EscritoIgual ==
    ASSUME CadenaInv, UNCHANGED <<archivo, abierta, headers>>, largo' \in Nat, largo' >= largo,
           perdidos \subseteq perdidos', pc' \notin AMedias, pc \notin AMedias,
           pc # "inicio" \/ pc' = "inicio"
    PROVE  Escrito'
<1>1. archivo' = archivo /\ abierta' = abierta /\ headers' = headers
  OBVIOUS
<1>2. /\ Sigue(HeadersDe(archivo), perdidos) /\ Tope(HeadersDe(archivo)) <= largo
      /\ \A i \in DOMAIN archivo : Len(archivo[i]) = 1
      /\ ~abierta
      /\ pc # "inicio" =>
            Sigue(headers, perdidos) /\ Tope(headers) <= largo /\ HeadersDe(archivo) = headers
  BY DEF CadenaInv, Escrito
<1>3. Sigue(HeadersDe(archivo), perdidos') /\ (pc # "inicio" => Sigue(headers, perdidos'))
  BY <1>2, SigueCreciente
<1>4. largo \in Nat /\ Tope(HeadersDe(archivo)) \in Nat /\ (pc # "inicio" => Tope(headers) \in Nat)
  BY <1>2, TopeEsMaximo, LargoDe, Constantes DEF CadenaInv
<1>5. Tope(HeadersDe(archivo)) <= largo' /\ (pc # "inicio" => Tope(headers) <= largo')
  BY <1>2, <1>4
<1> QED BY <1>1, <1>2, <1>3, <1>5 DEF Escrito

\* The step of the dialogue that is left, with what all of them share.
LEMMA TomarPaso ==
    ASSUME CadenaInv
    PROVE  /\ TipoInv /\ largo \in 1..Len(Red) /\ largo \in Nat /\ entrada \in Seq(Mensaje)
           /\ \E q \in 0..Len(entrada) : Cola(entrada, largo, q) /\ Paso(q)
           /\ pc # "inicio" => Tope(headers) \in 1..Len(Red) /\ Tope(headers) <= largo
                               /\ headers[Len(headers)] = Red[Tope(headers)]
  BY LargoDe, TopeEsMaximo DEF CadenaInv, Dialogo, TipoInv, Escrito

\* The end of the process.
LEMMA TerminarInv ==
    ASSUME Supuestos, CadenaInv, TipoInv', Terminar, UNCHANGED <<lineas, perdidos>>
    PROVE  CadenaInv'
<1>1. /\ pc \notin AMedias /\ pc' = "inicio" /\ archivo' = archivo /\ abierta' = abierta
      /\ largo' = largo /\ perdidos' = perdidos /\ pedido' = Nada /\ entrada' = << >>
  BY DEF Supuestos, Terminar, AMedias, lineas
<1>2. ~abierta
  BY <1>1 DEF CadenaInv, Escrito
<1>3. Escrito'
  BY <1>1, <1>2 DEF CadenaInv, Escrito, AMedias
<1>4. Len(entrada') = 0 /\ largo' \in 1..Len(Red) /\ largo' \in Nat
  BY <1>1, TomarPaso
<1>5. Cola(entrada', largo', 0) /\ 0 \in 0..Len(entrada')
  BY <1>4, ColaVacia
<1>6. Paso(0)'
  BY <1>1 DEF Paso, Quietos
<1> QED BY <1>3, <1>4, <1>5, <1>6 DEF CadenaInv, Dialogo

LEMMA MinarInv ==
    ASSUME CadenaInv, TipoInv', Minar
    PROVE  CadenaInv'
<1>1. /\ largo < Len(Red) /\ largo' = largo + 1
      /\ entrada' = IF pc = "inicio" THEN entrada ELSE Append(entrada, MsgInv(Red[largo + 1]))
      /\ UNCHANGED <<pedido, archivo, abierta, pc, headers, pagina, llena, perdidos>>
  BY DEF Minar, lineas, proceso, historia
<1>2. largo \in 1..Len(Red) /\ largo \in Nat /\ entrada \in Seq(Mensaje) /\ largo + 1 \in 1..Len(Red)
  BY <1>1, TomarPaso, Constantes
<1>3. Escrito'
  <2>1. /\ Sigue(HeadersDe(archivo), perdidos) /\ Tope(HeadersDe(archivo)) <= largo
        /\ pc # "inicio" => Sigue(headers, perdidos) /\ Tope(headers) <= largo
    BY DEF CadenaInv, Escrito
  <2>2. Tope(HeadersDe(archivo)) \in Nat /\ (pc # "inicio" => Tope(headers) \in Nat)
    BY <2>1, TopeEsMaximo, Constantes
  <2>3. Tope(HeadersDe(archivo)) <= largo' /\ (pc # "inicio" => Tope(headers) <= largo')
    BY <1>1, <1>2, <2>1, <2>2
  <2> QED BY <1>1, <2>1, <2>3 DEF CadenaInv, Escrito
<1>4. PICK q \in 0..Len(entrada) : Cola(entrada, largo, q) /\ Paso(q)
  BY TomarPaso
<1>5. CASE pc = "inicio"
  <2>1. entrada' = << >> /\ Len(entrada') = 0 /\ entrada = << >> /\ pedido = Nada
    BY <1>1, <1>4, <1>5 DEF Paso
  <2>2. Cola(entrada', largo', 0)
    BY <1>1, <1>2, <2>1 DEF Cola, Vista
  <2>3. Paso(0)'
    BY <1>1, <1>5, <2>1 DEF Paso, Quietos
  <2> QED BY <1>3, <2>1, <2>2, <2>3 DEF CadenaInv, Dialogo
<1>6. CASE pc # "inicio"
  <2>1. /\ Len(entrada') = Len(entrada) + 1 /\ Cola(entrada', largo', q)
        /\ Vista(entrada', largo', q) = Vista(entrada, largo, q)
        /\ q > 0 => entrada'[q] = entrada[q]
    BY <1>1, <1>2, <1>4, <1>6, ColaConAviso
  <2>2. largo' - (Len(entrada') - q) = largo - (Len(entrada) - q) /\ q \in 0..Len(entrada')
    <3>1. Len(entrada) \in Nat /\ q \in 0..Len(entrada)
      BY <1>2
    <3>2. largo' = largo + 1 /\ largo \in Nat /\ Len(entrada') = Len(entrada) + 1
      BY <1>1, <1>2, <2>1
    <3> QED BY <3>1, <3>2
  <2>3. Paso(q)'
    BY <1>1, <1>4, <1>6, <2>1, <2>2 DEF Paso
  <2> QED BY <1>3, <2>1, <2>2, <2>3 DEF CadenaInv, Dialogo
<1> QED BY <1>5, <1>6

\* What the peer answers to a header that it knows is the page that follows it.
LEMMA PaginaCorrecta ==
    ASSUME NEW k \in 1..Len(Red), largo \in 1..Len(Red), k <= largo
    PROVE  Posteriores(Red[k]) \in Seq(Bloques) /\ EsPagina(Posteriores(Red[k]), k, largo)
<1> DEFINE n == IF k + MaxPagina < largo THEN k + MaxPagina ELSE largo
           p == SubSeq(Red, k + 1, n)
           j == IF Red[k] \in Bloques THEN CHOOSE i \in DOMAIN Red : Red[i] = Red[k] ELSE 1
           cola(i) == SubSeq(Red, i + 1, IF i + MaxPagina < largo THEN i + MaxPagina ELSE largo)
<1>1. (CHOOSE i \in DOMAIN Red : Red[i] = Red[k]) = k /\ Red[k] \in Bloques
  BY Constantes
<1>2. j = k
  BY <1>1
<1>3. Posteriores(Red[k]) = cola(j)
  BY DEF Posteriores
<1> HIDE DEF j
<1>4. Posteriores(Red[k]) = p
  BY <1>2, <1>3
<1>5. n \in Nat /\ k <= n /\ n <= Len(Red) /\ largo \in Nat /\ k \in Nat
  BY Constantes
<1>6. /\ p \in Seq(Bloques) /\ Len(p) = n - k
      /\ \A i \in DOMAIN p : p[i] = Red[k + i]
  <2> HIDE DEF n
  <2> QED BY <1>5, Constantes
<1>7. n - k = IF k + MaxPagina < largo THEN MaxPagina ELSE largo - k
  BY <1>5, Constantes
<1> HIDE DEF p, n
<1> QED BY <1>4, <1>6, <1>7 DEF EsPagina

LEMMA ResponderInv ==
    ASSUME CadenaInv, TipoInv', Responder
    PROVE  CadenaInv'
<1> DEFINE m == IF pedido.cmd = "headers" THEN MsgHeaders(Posteriores(pedido.desde))
                                          ELSE MsgBlock(pedido.desde)
           u == Tope(headers)
<1>1. /\ pedido # Nada /\ pedido' = Nada /\ entrada' = Append(entrada, m)
      /\ UNCHANGED <<largo, archivo, abierta, pc, headers, pagina, llena, perdidos>>
  BY DEF Responder, lineas, proceso, historia
<1>2. /\ largo \in 1..Len(Red) /\ largo \in Nat /\ entrada \in Seq(Mensaje)
  BY TomarPaso
<1>3. Escrito'
  BY <1>1 DEF CadenaInv, Escrito
<1>4. PICK q \in 0..Len(entrada) : Cola(entrada, largo, q) /\ Paso(q)
  BY TomarPaso
<1>5. pc \in {"headers", "block"}
  BY <1>1, <1>4 DEF CadenaInv, TipoInv, Pasos, Escuchando, Paso, Quietos
<1>6. q = 0
  BY <1>1, <1>4, <1>5 DEF Paso
<1>r. PICK r \in Nat : r = Len(entrada) + 1
  BY <1>2
<1>7. ASSUME m \in Mensaje
      PROVE  /\ Len(entrada') = r /\ r \in 1..r /\ Cola(entrada', largo, r) /\ entrada'[r] = m
             /\ Vista(entrada', largo, r) = Vista(entrada, largo, 0) /\ r \in Nat
  <2> HIDE DEF m
  <2> QED BY <1>1, <1>2, <1>4, <1>6, <1>7, <1>r, ColaConRespuesta
<1>8. CASE pc = "headers"
  <2>1. /\ pedido = Pedir("headers", headers[Len(headers)]) /\ u \in 1..Len(Red) /\ u <= largo
        /\ headers[Len(headers)] = Red[u]
    BY <1>4, <1>6, <1>8, TomarPaso DEF Paso
  <2>2. m = MsgHeaders(Posteriores(Red[u]))
    BY <2>1, Mensajes
  <2>3. PICK p \in Seq(Bloques) : p = Posteriores(Red[u]) /\ EsPagina(p, u, largo)
    BY <1>2, <2>1, PaginaCorrecta
  <2>4. m = MsgHeaders(p) /\ m \in Mensaje
    BY <2>2, <2>3 DEF Mensaje
  <2> HIDE DEF m, u
  <2>a. /\ Len(entrada') = r /\ r \in 1..r /\ Cola(entrada', largo, r) /\ entrada'[r] = m
        /\ Vista(entrada', largo, r) = Vista(entrada, largo, 0) /\ r \in Nat
    BY <1>7, <2>4
  <2>5. largo - (Len(entrada') - r) = largo /\ r > 0 /\ r \in 0..Len(entrada')
    BY <1>2, <2>a
  <2>6. Paso(r)'
    BY <1>1, <2>a, <1>8, <2>3, <2>4, <2>5 DEF Paso, Quietos, u
  <2> QED BY <1>1, <1>3, <2>a, <2>5, <2>6 DEF CadenaInv, Dialogo
<1>9. CASE pc = "block"
  <2>1. PICK w \in u + 1..Vista(entrada, largo, 0) :
           Perdidos(u, Vista(entrada, largo, 0), {w}, perdidos) /\ pedido = Pedir("block", Red[w])
    BY <1>1, <1>4, <1>6, <1>9 DEF Paso
  <2>2. w \in 1..Len(Red)
    <3>1. Vista(entrada, largo, 0) \in 1..largo /\ u \in 1..Len(Red)
      BY <1>4, <1>6, <1>9, TomarPaso DEF Cola
    <3> QED BY <1>2, <3>1, Constantes
  <2>3. m = MsgBlock(Red[w]) /\ m \in Mensaje
    BY <2>1, <2>2, Mensajes, Constantes DEF Mensaje
  <2> HIDE DEF m, u
  <2>a. /\ Len(entrada') = r /\ r \in 1..r /\ Cola(entrada', largo, r) /\ entrada'[r] = m
        /\ Vista(entrada', largo, r) = Vista(entrada, largo, 0) /\ r \in Nat
    BY <1>7, <2>3
  <2>4. r > 0 /\ r \in 0..Len(entrada')
    BY <2>a
  <2>5. Paso(r)'
    BY <1>1, <2>a, <1>9, <2>1, <2>3, <2>4 DEF Paso, Quietos, u
  <2> QED BY <1>1, <1>3, <2>a, <2>4, <2>5 DEF CadenaInv, Dialogo
<1> QED BY <1>5, <1>8, <1>9

LEMMA ArrancarInv ==
    ASSUME CadenaInv, TipoInv', Arrancar
    PROVE  CadenaInv'
<1> DEFINE f == HeadersDe(archivo)
<1>1. /\ pc = "inicio" /\ pc' = "headers" /\ largo' = largo /\ entrada' = entrada
      /\ archivo' = archivo /\ abierta' = abierta /\ headers' = f /\ perdidos' = perdidos
      /\ pedido' = Pedir("headers", UltimoHash(archivo))
  BY DEF Arrancar, lineas, historia
<1>2. PICK q \in 0..Len(entrada) : Cola(entrada, largo, q) /\ Paso(q)
  BY TomarPaso
<1>3. Len(entrada) = 0 /\ q = 0
  BY <1>1, <1>2 DEF Paso
<1>4. /\ Sigue(f, perdidos) /\ Tope(f) <= largo /\ ~abierta
      /\ \A i \in DOMAIN archivo : Len(archivo[i]) = 1
  BY <1>1 DEF CadenaInv, Escrito, AMedias
<1>5. archivo \in Seq(Seq(Bloques) \ {<< >>})
  BY DEF CadenaInv, TipoInv
<1>6. UltimoHash(archivo) = f[Len(f)]
  BY <1>4, <1>5, UltimoLeido
<1>7. Escrito'
  BY <1>1, <1>4 DEF Escrito, AMedias
<1> HIDE DEF f
<1>8. Paso(0)'
  BY <1>1, <1>6 DEF Paso, Quietos
<1> QED BY <1>1, <1>2, <1>3, <1>7, <1>8 DEF CadenaInv, Dialogo

\* An announcement dropped before a page is in the page; one dropped before a block
\* is lost.
LEMMA DescartarInv ==
    ASSUME CadenaInv, TipoInv', Descartar
    PROVE  CadenaInv'
<1> DEFINE u == Tope(headers)
           h == Head(entrada)
<1>1. /\ pc \in {"headers", "block"} /\ entrada # << >> /\ h.cmd # pc
      /\ entrada' = Tail(entrada)
      /\ perdidos' = IF pc = "block" /\ h.cmd = "inv" THEN perdidos \cup {h.bloque} ELSE perdidos
      /\ UNCHANGED <<largo, pedido, archivo, abierta, pc, headers, pagina, llena>>
  BY DEF Descartar, lineas, proceso
<1>2. /\ largo \in 1..Len(Red) /\ largo \in Nat /\ entrada \in Seq(Mensaje)
      /\ u \in 1..Len(Red) /\ u <= largo
  BY <1>1, TomarPaso
<1>3. Escrito'
  BY <1>1, <1>2, EscritoIgual DEF AMedias
<1>4. PICK q \in 0..Len(entrada) : Cola(entrada, largo, q) /\ Paso(q)
  BY TomarPaso
<1>5. q # 1
  <2> SUFFICES ASSUME q = 1 PROVE FALSE
    OBVIOUS
  <2>1. h = entrada[1]
    BY <1>2, <1>4, ColaSinRespuesta
  <2>2. CASE pc = "headers"
    <3>1. PICK p : entrada[1] = MsgHeaders(p)
      BY <1>4, <2>2 DEF Paso
    <3> QED BY <1>1, <2>1, <2>2, <3>1, Mensajes
  <2>3. CASE pc = "block"
    <3>1. PICK b : entrada[1] = MsgBlock(b)
      <4>1. \E w : \/ q = 0 /\ pedido = Pedir("block", Red[w])
                   \/ q > 0 /\ pedido = Nada /\ entrada[q] = MsgBlock(Red[w])
        BY <1>4, <2>3, Zenon DEF Paso
      <4> QED BY <4>1
    <3> QED BY <1>1, <2>1, <2>3, <3>1, Mensajes
  <2> QED BY <1>1, <2>2, <2>3
<1> DEFINE r == IF q = 0 THEN 0 ELSE q - 1
           v == Vista(entrada, largo, q)
<1>6. /\ h = MsgInv(Red[v + 1]) /\ v \in 1..largo /\ v + 1 \in 1..largo
      /\ Len(entrada') = Len(entrada) - 1 /\ Cola(entrada', largo, r)
      /\ Vista(entrada', largo, r) = v + 1
      /\ (r > 0 <=> q > 0) /\ (q > 0 => entrada'[r] = entrada[q])
  BY <1>1, <1>2, <1>4, <1>5, ColaSinAviso
<1>7. r \in 0..Len(entrada') /\ Len(entrada) \in Nat
  BY <1>4, <1>6 DEF Cola
<1> HIDE DEF h
<1>8. CASE pc = "headers"
  <2>1. perdidos' = perdidos
    BY <1>1, <1>8
  <2>2. q > 0 => largo - (Len(entrada') - r) = largo - (Len(entrada) - q)
    BY <1>2, <1>6, <1>7
  <2> HIDE DEF r, v
  <2>3. q = 0 => r = 0
    BY DEF r
  <2>4. Paso(r)'
    BY <1>1, <1>4, <1>6, <1>8, <2>1, <2>2, <2>3 DEF Paso, Quietos
  <2> QED BY <1>1, <1>3, <1>6, <1>7, <2>4 DEF CadenaInv, Dialogo
<1>9. CASE pc = "block"
  <2>1. perdidos' = perdidos \cup {Red[v + 1]}
    BY <1>1, <1>6, <1>9, Mensajes
  <2>2. PICK w \in u + 1..v :
           /\ Perdidos(u, v, {w}, perdidos)
           /\ \/ q = 0 /\ pedido = Pedir("block", Red[w])
              \/ q > 0 /\ pedido = Nada /\ entrada[q] = MsgBlock(Red[w])
    BY <1>4, <1>9 DEF Paso
  <2>3. w \in u + 1..v + 1 /\ Perdidos(u, v + 1, {w}, perdidos')
    <3>1. v \in Nat /\ u \in Nat
      BY <1>2, <1>6, Constantes
    <3> HIDE DEF u, v
    <3>2. w \in u + 1..v + 1
      BY <2>2, <3>1
    <3>3. ASSUME NEW x \in u + 1..v + 1, x \notin {w} PROVE Red[x] \in perdidos'
      <4>1. CASE x = v + 1
        BY <2>1, <4>1
      <4>2. CASE x # v + 1
        <5>1. x \in u + 1..v
          BY <3>1, <4>2
        <5>2. Red[x] \in perdidos
          BY <2>2, <3>3, <5>1 DEF Perdidos
        <5> QED BY <2>1, <5>2
      <4> QED BY <4>1, <4>2
    <3> QED BY <3>2, <3>3 DEF Perdidos
  <2> HIDE DEF r, v, u
  <2>4. q = 0 => r = 0
    BY DEF r
  <2>5. Paso(r)'
    BY <1>1, <1>4, <1>6, <1>9, <2>2, <2>3, <2>4 DEF Paso, Quietos, u
  <2> QED BY <1>1, <1>3, <1>6, <1>7, <2>5 DEF CadenaInv, Dialogo
<1> QED BY <1>1, <1>8, <1>9

LEMMA RecibirPaginaInv ==
    ASSUME CadenaInv, TipoInv', RecibirPagina
    PROVE  CadenaInv'
<1> DEFINE u == Tope(headers)
<1>1. /\ pc = "headers" /\ pc' = "hex" /\ entrada # << >> /\ Head(entrada).cmd = "headers"
      /\ entrada' = Tail(entrada) /\ pagina' = Head(entrada).pagina
      /\ UNCHANGED <<largo, pedido, archivo, abierta, headers, perdidos>>
  BY DEF RecibirPagina, Recibe, lineas, historia
<1>2. /\ largo \in 1..Len(Red) /\ largo \in Nat /\ entrada \in Seq(Mensaje)
      /\ u \in 1..Len(Red) /\ u <= largo
  BY <1>1, TomarPaso
<1>3. llena' <=> Len(pagina') = MaxPagina
  BY DEF RecibirPagina
<1>4. Escrito'
  BY <1>1, <1>2, EscritoIgual DEF AMedias
<1>5. PICK q \in 0..Len(entrada) : Cola(entrada, largo, q) /\ Paso(q)
  BY TomarPaso
<1>6. q = 1
  <2> SUFFICES ASSUME q # 1 PROVE FALSE
    OBVIOUS
  <2>1. PICK b : Head(entrada) = MsgInv(b)
    BY <1>1, <1>2, <1>5, ColaSinAviso
  <2> QED BY <1>1, <2>1, Mensajes
<1>7. /\ Head(entrada) = entrada[1] /\ Cola(entrada', largo, 0) /\ Len(entrada') = Len(entrada) - 1
      /\ Vista(entrada', largo, 0) = Vista(entrada, largo, 1) /\ Len(entrada) \in Nat
  BY <1>1, <1>2, <1>5, <1>6, ColaSinRespuesta
<1> DEFINE v == Vista(entrada', largo, 0)
<1>8. v = largo - (Len(entrada) - 1) /\ v \in 1..largo /\ 0 \in 0..Len(entrada')
  BY <1>2, <1>7 DEF Vista, Cola
<1>9. PICK p \in Seq(Bloques) :
         entrada[1] = MsgHeaders(p) /\ EsPagina(p, u, largo - (Len(entrada) - 1)) /\ pedido = Nada
  BY <1>1, <1>5, <1>6 DEF Paso
<1>10. pagina' = p
  BY <1>1, <1>7, <1>9, Mensajes
<1>11. EsPagina(p, u, v) /\ u \in Nat /\ v \in Nat /\ Len(p) \in Nat
  BY <1>2, <1>8, <1>9, Constantes
<1> HIDE DEF u, v
<1>12. u + Len(p) <= v /\ (Len(p) # MaxPagina => u + Len(p) = v)
  BY <1>11, Constantes DEF EsPagina
<1>13. \A i \in DOMAIN p : p[i] = Red[u + i]
  BY <1>11 DEF EsPagina
<1>14. Paso(0)'
  BY <1>1, <1>3, <1>9, <1>10, <1>12, <1>13 DEF Paso, Quietos, u, v
<1> QED BY <1>1, <1>4, <1>7, <1>8, <1>14 DEF CadenaInv, Dialogo

\* The first write of a writeln!: the header of the place w, when those between the
\* last one and it are lost.
LEMMA EscribirInv ==
    ASSUME CadenaInv, NEW w \in 1..Len(Red), EscribirHeader(Red[w]), w > Tope(headers), w <= largo,
           \A x \in Tope(headers) + 1..w - 1 : Red[x] \in perdidos,
           pc \notin AMedias, pc # "inicio", pc' \in AMedias, pagina' = pagina, pagina[1] = Red[w],
           headers' = headers, largo' = largo, perdidos' = perdidos
    PROVE  Escrito'
<1>1. /\ Sigue(headers, perdidos) /\ Tope(headers) <= largo /\ HeadersDe(archivo) = headers /\ ~abierta
      /\ \A i \in DOMAIN archivo : Len(archivo[i]) = 1
      /\ archivo \in Seq(Seq(Bloques) \ {<< >>}) /\ Red[w] \in Bloques
  BY Constantes DEF CadenaInv, Escrito, TipoInv
<1>2. archivo' = Append(archivo, <<Red[w]>>) /\ abierta' = TRUE
  BY <1>1 DEF EscribirHeader
<1>3. HeadersDe(archivo') = Append(headers, Red[w])
  BY <1>1, <1>2, LecturaDeOtra
<1>4. Sigue(Append(headers, Red[w]), perdidos) /\ Tope(Append(headers, Red[w])) = w
  BY <1>1, SigueConUnoMas
<1>5. \A i \in DOMAIN archivo' : Len(archivo'[i]) = 1
  <2> DEFINE n == Len(archivo)
             S == Seq(Bloques) \ {<< >>}
             b == Red[w]
  <2>1. n \in Nat /\ DOMAIN archivo = 1..n /\ archivo \in Seq(S) /\ <<b>> \in S /\ Len(<<b>>) = 1
    BY <1>1
  <2> HIDE DEF S, b
  <2>2. archivo' = Append(archivo, <<b>>)
    BY <1>2 DEF b
  <2>3. /\ DOMAIN archivo' = 1..n + 1 /\ archivo'[n + 1] = <<b>>
        /\ \A i \in 1..n : archivo'[i] = archivo[i]
    BY <2>1, <2>2
  <2>4. \A i \in 1..n + 1 : i = n + 1 \/ i \in 1..n
    BY <2>1
  <2> QED BY <1>1, <2>1, <2>3, <2>4
<1> DEFINE f == Append(headers, Red[w])
<1> HIDE DEF f
<1>6. HeadersDe(archivo') = f /\ Sigue(f, perdidos') /\ Tope(f) <= largo' /\ f = Append(headers', pagina'[1])
  BY <1>3, <1>4 DEF f
<1> QED BY <1>1, <1>2, <1>5, <1>6 DEF Escrito

\* The second one.
LEMMA TerminarLineaInv ==
    ASSUME CadenaInv, EscribirFinDeLinea, pc \in AMedias, pc' \notin AMedias,
           headers' = Append(headers, pagina[1]), largo' = largo, perdidos' = perdidos
    PROVE  Escrito'
<1>1. pc # "inicio"
  BY DEF AMedias
<1>2. /\ Sigue(HeadersDe(archivo), perdidos) /\ Tope(HeadersDe(archivo)) <= largo
      /\ HeadersDe(archivo) = Append(headers, pagina[1])
      /\ \A i \in DOMAIN archivo : Len(archivo[i]) = 1
  BY <1>1 DEF CadenaInv, Escrito
<1>3. archivo' = archivo /\ abierta' = FALSE
  BY DEF EscribirFinDeLinea
<1> QED BY <1>2, <1>3 DEF Escrito

LEMMA GuardarHeaderInv ==
    ASSUME CadenaInv, TipoInv', GuardarHeader
    PROVE  CadenaInv'
<1> DEFINE u == Tope(headers)
<1>1. /\ pc = "hex" /\ pagina # << >> /\ pc' = "linea" /\ EscribirHeader(Head(pagina))
      /\ UNCHANGED <<largo, pedido, entrada, headers, pagina, llena, perdidos>>
  BY DEF GuardarHeader, conexion, historia
<1>2. largo \in 1..Len(Red) /\ largo \in Nat /\ u \in 1..Len(Red) /\ u <= largo
  BY <1>1, TomarPaso
<1>3. PICK q \in 0..Len(entrada) : Cola(entrada, largo, q) /\ Paso(q)
  BY TomarPaso
<1> DEFINE v == Vista(entrada, largo, 0)
<1>4. /\ q = 0 /\ v \in 1..largo /\ pagina \in Seq(Bloques)
      /\ \A i \in DOMAIN pagina : pagina[i] = Red[u + i]
      /\ u + Len(pagina) <= v
  BY <1>1, <1>3 DEF Paso, Cola, CadenaInv, TipoInv
<1>5. Head(pagina) = pagina[1] /\ pagina[1] = Red[u + 1] /\ Len(pagina) >= 1 /\ Len(pagina) \in Nat
  BY <1>1, <1>4
<1> HIDE DEF u, v
<1>6. u + 1 \in 1..Len(Red) /\ u + 1 <= largo /\ u + 1 > u /\ u + 1..u + 1 - 1 = {}
  BY <1>2, <1>4, <1>5, Constantes
<1>7. Escrito'
  <2>1. \A x \in u + 1..(u + 1) - 1 : Red[x] \in perdidos
    BY <1>6
  <2> QED BY <1>1, <1>5, <1>6, <2>1, EscribirInv DEF AMedias, u
<1>8. Paso(0)'
  BY <1>1, <1>3, <1>4 DEF Paso, Quietos
<1> QED BY <1>1, <1>3, <1>4, <1>7, <1>8 DEF CadenaInv, Dialogo

LEMMA AgregarHeaderInv ==
    ASSUME CadenaInv, TipoInv', AgregarHeader
    PROVE  CadenaInv'
<1> DEFINE u == Tope(headers)
<1>1. /\ pc = "linea" /\ pc' = "hex" /\ EscribirFinDeLinea
      /\ headers' = Append(headers, Head(pagina)) /\ pagina' = Tail(pagina)
      /\ UNCHANGED <<largo, pedido, entrada, llena, perdidos>>
  BY DEF AgregarHeader, conexion, historia
<1>2. largo \in 1..Len(Red) /\ largo \in Nat /\ u \in 1..Len(Red) /\ u <= largo
  BY <1>1, TomarPaso
<1>3. PICK q \in 0..Len(entrada) : Cola(entrada, largo, q) /\ Paso(q)
  BY TomarPaso
<1> DEFINE v == Vista(entrada, largo, 0)
<1>4. /\ q = 0 /\ v \in 1..largo /\ pagina \in Seq(Bloques) /\ pagina # << >> /\ pedido = Nada
      /\ \A i \in DOMAIN pagina : pagina[i] = Red[u + i]
      /\ u + Len(pagina) <= v /\ (~llena => u + Len(pagina) = v)
  BY <1>1, <1>3 DEF Paso, Cola, CadenaInv, TipoInv
<1>5. /\ Head(pagina) = pagina[1] /\ pagina[1] = Red[u + 1] /\ Len(pagina) >= 1 /\ Len(pagina) \in Nat
      /\ Len(pagina') = Len(pagina) - 1 /\ \A i \in DOMAIN pagina' : pagina'[i] = Red[u + 1 + i]
  <2>1. /\ Len(pagina') = Len(pagina) - 1 /\ Len(pagina) \in Nat /\ Len(pagina) >= 1
        /\ \A i \in 1..Len(pagina) - 1 : pagina'[i] = pagina[i + 1]
        /\ DOMAIN pagina = 1..Len(pagina) /\ DOMAIN pagina' = 1..Len(pagina) - 1
        /\ Head(pagina) = pagina[1]
    BY <1>1, <1>4
  <2> HIDE DEF u
  <2>2. \A i \in 1..Len(pagina) - 1 : pagina'[i] = Red[u + 1 + i]
    <3> TAKE i \in 1..Len(pagina) - 1
    <3>1. i + 1 \in 1..Len(pagina) /\ u + (i + 1) = u + 1 + i
      BY <1>2, <2>1, Constantes
    <3> QED BY <1>4, <2>1, <3>1 DEF u
  <2>3. 1 \in DOMAIN pagina
    BY <2>1
  <2> QED BY <1>4, <2>1, <2>2, <2>3 DEF u
<1>6. Escrito'
  BY <1>1, <1>5, TerminarLineaInv DEF AMedias
<1>7. Tope(headers') = u + 1
  <2>1. Sigue(headers, perdidos)
    BY <1>1 DEF CadenaInv, Escrito
  <2>2. u + 1 \in 1..Len(Red) /\ u + 1 > u /\ \A x \in u + 1..(u + 1) - 1 : Red[x] \in perdidos
    <3> HIDE DEF u, v
    <3> QED BY <1>2, <1>4, <1>5, Constantes
  <2> QED BY <1>1, <1>5, <2>1, <2>2, SigueConUnoMas
<1> HIDE DEF u, v
<1>8. u + 1 + Len(pagina') <= v /\ (~llena => u + 1 + Len(pagina') = v)
  <2>1. u \in Nat /\ v \in Nat /\ Len(pagina) \in Nat /\ Len(pagina') = Len(pagina) - 1
    BY <1>2, <1>4, <1>5, Constantes
  <2>2. u + 1 + Len(pagina') = u + Len(pagina)
    BY <2>1
  <2> QED BY <1>4, <2>2
<1>9. Paso(0)'
  BY <1>1, <1>4, <1>5, <1>7, <1>8 DEF Paso, Quietos, v
<1> QED BY <1>1, <1>3, <1>4, <1>6, <1>9 DEF CadenaInv, Dialogo

LEMMA FinDePaginaInv ==
    ASSUME CadenaInv, TipoInv', FinDePagina
    PROVE  CadenaInv'
<1> DEFINE u == Tope(headers)
           v == Vista(entrada, largo, 0)
<1>1. /\ pc = "hex" /\ pagina = << >>
      /\ IF llena THEN pc' = "headers" /\ pedido' = Pedir("headers", headers[Len(headers)])
                  ELSE pc' = "fechas" /\ pedido' = pedido
      /\ UNCHANGED <<largo, entrada, archivo, abierta, headers, pagina, llena, perdidos>>
  BY DEF FinDePagina, lineas, historia
<1>2. largo \in 1..Len(Red) /\ largo \in Nat /\ u \in 1..Len(Red) /\ u <= largo
  BY <1>1, TomarPaso
<1>3. PICK q \in 0..Len(entrada) : Cola(entrada, largo, q) /\ Paso(q)
  BY TomarPaso
<1>4. /\ q = 0 /\ v \in 1..largo /\ pedido = Nada /\ Len(pagina) = 0
      /\ u + Len(pagina) <= v /\ (~llena => u + Len(pagina) = v)
  BY <1>1, <1>3 DEF Paso, Cola
<1>5. Escrito'
  BY <1>1, <1>2, EscritoIgual DEF AMedias
<1> HIDE DEF u, v
<1>6. ~llena => u = v
  BY <1>2, <1>4, Constantes
<1>7. u = v => u <= v /\ Perdidos(u, v, {}, perdidos)
  BY <1>2, <1>4, Constantes DEF Perdidos
<1>8. Paso(0)'
  <2>1. CASE llena
    BY <1>1, <1>4, <2>1 DEF Paso, Quietos
  <2>2. CASE ~llena
    BY <1>1, <1>4, <1>6, <1>7, <2>2 DEF Paso, Quietos, u, v
  <2> QED BY <2>1, <2>2
<1> QED BY <1>1, <1>3, <1>4, <1>5, <1>8 DEF CadenaInv, Dialogo

\* Steps between which nothing is under way but announcements.
LEMMA QuietoInv ==
    ASSUME CadenaInv, TipoInv', pc \in Quietos, pc' \in Quietos,
           UNCHANGED <<largo, pedido, entrada, archivo, abierta, headers, perdidos>>
    PROVE  CadenaInv'
<1>1. PICK q \in 0..Len(entrada) : Cola(entrada, largo, q) /\ Paso(q)
  BY TomarPaso
<1>2. largo \in Nat /\ pc # "inicio" /\ pc \notin AMedias /\ pc' \notin AMedias
  BY TomarPaso DEF Quietos, AMedias
<1>3. Escrito'
  BY <1>2, EscritoIgual
<1>4. Paso(q)'
  BY <1>1 DEF Paso, Quietos
<1> QED BY <1>1, <1>3, <1>4 DEF CadenaInv, Dialogo

LEMMA IgualInv ==
    ASSUME CadenaInv, TipoInv',
           UNCHANGED <<largo, pedido, entrada, archivo, abierta, pc, headers, pagina, llena, perdidos>>
    PROVE  CadenaInv'
<1>1. PICK q \in 0..Len(entrada) : Cola(entrada, largo, q) /\ Paso(q)
  BY TomarPaso
<1>2. Escrito'
  BY DEF CadenaInv, Escrito
<1>3. Paso(q)'
  BY <1>1 DEF Paso
<1> QED BY <1>1, <1>2, <1>3 DEF CadenaInv, Dialogo

\* The first of the announcements that wait is taken, and its block asked for.
LEMMA RecibirInvInv ==
    ASSUME CadenaInv, TipoInv', RecibirInv
    PROVE  CadenaInv'
<1> DEFINE u == Tope(headers)
           v == Vista(entrada, largo, 0)
           h == Head(entrada)
<1>1. /\ pc = "inv" /\ pc' = "block" /\ entrada # << >> /\ entrada' = Tail(entrada)
      /\ pedido' = Pedir("block", h.bloque)
      /\ UNCHANGED <<largo, archivo, abierta, headers, pagina, llena, perdidos>>
  BY DEF RecibirInv, Recibe, lineas, historia
<1>2. /\ largo \in 1..Len(Red) /\ largo \in Nat /\ u \in 1..Len(Red) /\ u <= largo
      /\ entrada \in Seq(Mensaje)
  BY <1>1, TomarPaso
<1>3. PICK q \in 0..Len(entrada) : Cola(entrada, largo, q) /\ Paso(q)
  BY TomarPaso
<1>4. q = 0 /\ u <= v /\ Perdidos(u, v, {}, perdidos)
  BY <1>1, <1>3 DEF Paso, Quietos
<1>5. /\ h = MsgInv(Red[v + 1]) /\ v \in 1..largo /\ v + 1 \in 1..largo
      /\ Len(entrada') = Len(entrada) - 1 /\ Cola(entrada', largo, 0)
      /\ Vista(entrada', largo, 0) = v + 1
  BY <1>1, <1>2, <1>3, <1>4, ColaSinAviso
<1>6. Escrito'
  BY <1>1, <1>2, EscritoIgual DEF AMedias
<1>7. pedido' = Pedir("block", Red[v + 1]) /\ 0 \in 0..Len(entrada')
  BY <1>1, <1>5, Mensajes DEF Cola
<1> HIDE DEF u, v
<1>8. v + 1 \in u + 1..v + 1 /\ Perdidos(u, v + 1, {v + 1}, perdidos)
  <2>1. v \in Nat /\ u \in Nat
    BY <1>2, <1>5, Constantes
  <2>2. \A x \in u + 1..v + 1 : x \notin {v + 1} => x \in u + 1..v
    BY <2>1
  <2> QED BY <1>4, <2>1, <2>2 DEF Perdidos
<1>9. PICK w : w = v + 1
  OBVIOUS
<1>10. Paso(0)'
  BY <1>1, <1>5, <1>7, <1>8, <1>9 DEF Paso, Quietos, u
<1> QED BY <1>1, <1>5, <1>6, <1>7, <1>10 DEF CadenaInv, Dialogo

LEMMA RecibirBloqueInv ==
    ASSUME CadenaInv, TipoInv', RecibirBloque
    PROVE  CadenaInv'
<1> DEFINE u == Tope(headers)
<1>1. /\ pc = "block" /\ pc' = "hex_bloque" /\ entrada # << >> /\ Head(entrada).cmd = "block"
      /\ entrada' = Tail(entrada) /\ pagina' = <<Head(entrada).bloque>>
      /\ UNCHANGED <<largo, pedido, archivo, abierta, headers, llena, perdidos>>
  BY DEF RecibirBloque, Recibe, lineas, historia
<1>2. largo \in 1..Len(Red) /\ largo \in Nat /\ entrada \in Seq(Mensaje)
  BY TomarPaso
<1>3. PICK q \in 0..Len(entrada) : Cola(entrada, largo, q) /\ Paso(q)
  BY TomarPaso
<1>4. q = 1
  <2> SUFFICES ASSUME q # 1 PROVE FALSE
    OBVIOUS
  <2>1. PICK b : Head(entrada) = MsgInv(b)
    BY <1>1, <1>2, <1>3, ColaSinAviso
  <2> QED BY <1>1, <2>1, Mensajes
<1>5. /\ Head(entrada) = entrada[1] /\ Cola(entrada', largo, 0) /\ Len(entrada') = Len(entrada) - 1
      /\ Vista(entrada', largo, 0) = Vista(entrada, largo, 1)
  BY <1>1, <1>2, <1>3, <1>4, ColaSinRespuesta
<1>6. PICK w \in u + 1..Vista(entrada, largo, 1) :
         /\ Perdidos(u, Vista(entrada, largo, 1), {w}, perdidos)
         /\ pedido = Nada /\ entrada[1] = MsgBlock(Red[w])
  <2>1. \E w \in u + 1..Vista(entrada, largo, q) :
           /\ Perdidos(u, Vista(entrada, largo, q), {w}, perdidos)
           /\ \/ q = 0 /\ pedido = Pedir("block", Red[w])
              \/ q > 0 /\ pedido = Nada /\ entrada[q] = MsgBlock(Red[w])
    BY <1>1, <1>3, Zenon DEF Paso
  <2>2. q # 0
    BY <1>4
  <2> QED BY <1>4, <2>1, <2>2
<1>7. pagina' = <<Red[w]>> /\ 0 \in 0..Len(entrada')
  BY <1>1, <1>5, <1>6, Mensajes DEF Cola
<1>8. Escrito'
  BY <1>1, <1>2, EscritoIgual DEF AMedias
<1> HIDE DEF u
<1>9. Paso(0)'
  BY <1>1, <1>5, <1>6, <1>7 DEF Paso, Quietos, u
<1> QED BY <1>1, <1>5, <1>7, <1>8, <1>9 DEF CadenaInv, Dialogo

LEMMA GuardarHeaderDeBloqueInv ==
    ASSUME CadenaInv, TipoInv', GuardarHeaderDeBloque
    PROVE  CadenaInv'
<1> DEFINE u == Tope(headers)
           v == Vista(entrada, largo, 0)
<1>1. /\ pc = "hex_bloque" /\ pc' = "linea_bloque" /\ EscribirHeader(pagina[1])
      /\ UNCHANGED <<largo, pedido, entrada, headers, pagina, llena, perdidos>>
  BY DEF GuardarHeaderDeBloque, conexion, historia
<1>2. largo \in 1..Len(Red) /\ largo \in Nat /\ u \in 1..Len(Red) /\ u <= largo
  BY <1>1, TomarPaso
<1>3. PICK q \in 0..Len(entrada) : Cola(entrada, largo, q) /\ Paso(q)
  BY TomarPaso
<1>4. q = 0 /\ v \in 1..largo /\ pedido = Nada
  BY <1>1, <1>3 DEF Paso, Cola
<1>5. PICK w \in u + 1..v : pagina = <<Red[w]>> /\ Perdidos(u, v, {w}, perdidos)
  BY <1>1, <1>3, <1>4 DEF Paso
<1> HIDE DEF u, v
<1>6. w \in 1..Len(Red) /\ w > u /\ w <= largo /\ \A x \in u + 1..w - 1 : x \in u + 1..v /\ x \notin {w}
  BY <1>2, <1>4, Constantes
<1>7. \A x \in u + 1..w - 1 : Red[x] \in perdidos
  BY <1>5, <1>6 DEF Perdidos
<1>8. pagina[1] = Red[w]
  BY <1>5
<1>9. Escrito'
  BY <1>1, <1>6, <1>7, <1>8, EscribirInv DEF AMedias, u
<1>10. Paso(0)'
  BY <1>1, <1>3, <1>4 DEF Paso, Quietos
<1> QED BY <1>1, <1>3, <1>4, <1>9, <1>10 DEF CadenaInv, Dialogo

LEMMA AgregarHeaderDeBloqueInv ==
    ASSUME CadenaInv, TipoInv', AgregarHeaderDeBloque
    PROVE  CadenaInv'
<1> DEFINE u == Tope(headers)
           v == Vista(entrada, largo, 0)
<1>1. /\ pc = "linea_bloque" /\ pc' = "crear" /\ EscribirFinDeLinea
      /\ headers' = Append(headers, pagina[1])
      /\ UNCHANGED <<largo, pedido, entrada, pagina, llena, perdidos>>
  BY DEF AgregarHeaderDeBloque, conexion, historia
<1>2. largo \in 1..Len(Red) /\ largo \in Nat /\ u \in 1..Len(Red) /\ u <= largo
  BY <1>1, TomarPaso
<1>3. PICK q \in 0..Len(entrada) : Cola(entrada, largo, q) /\ Paso(q)
  BY TomarPaso
<1>4. q = 0 /\ v \in 1..largo /\ pedido = Nada
  BY <1>1, <1>3 DEF Paso, Cola
<1>5. PICK w \in u + 1..v : pagina = <<Red[w]>> /\ Perdidos(u, v, {w}, perdidos)
  BY <1>1, <1>3, <1>4 DEF Paso
<1>6. Escrito'
  BY <1>1, TerminarLineaInv DEF AMedias
<1>7. Sigue(headers, perdidos) /\ pagina[1] = Red[w]
  BY <1>1, <1>5 DEF CadenaInv, Escrito
<1>8. /\ w \in 1..Len(Red) /\ w > u /\ w <= v
      /\ \A x \in u + 1..w - 1 : x \in u + 1..v /\ x \notin {w}
      /\ \A x \in w + 1..v : x \in u + 1..v /\ x \notin {w}
  <2> HIDE DEF u, v
  <2> QED BY <1>2, <1>4, Constantes
<1>9. (\A x \in u + 1..w - 1 : Red[x] \in perdidos) /\ Perdidos(w, v, {}, perdidos)
  BY <1>5, <1>8 DEF Perdidos
<1>10. Tope(headers') = w
  BY <1>1, <1>7, <1>8, <1>9, SigueConUnoMas
<1> HIDE DEF u, v
<1>11. Paso(0)'
  BY <1>1, <1>4, <1>8, <1>9, <1>10 DEF Paso, Quietos, v
<1> QED BY <1>1, <1>3, <1>4, <1>6, <1>11 DEF CadenaInv, Dialogo

LEMMA CadenaInvNext == Supuestos /\ CadenaInv /\ [Next]_vars => CadenaInv'
<1> SUFFICES ASSUME Supuestos, CadenaInv, [Next]_vars PROVE CadenaInv'
  OBVIOUS
<1>t. TipoInv'
  BY TipoInvNext DEF CadenaInv
<1>1. CASE Arrancar
  BY <1>1, <1>t, ArrancarInv
<1>2. CASE Descartar
  BY <1>2, <1>t, DescartarInv
<1>3. CASE RecibirPagina
  BY <1>3, <1>t, RecibirPaginaInv
<1>4. CASE GuardarHeader
  BY <1>4, <1>t, GuardarHeaderInv
<1>5. CASE AgregarHeader
  BY <1>5, <1>t, AgregarHeaderInv
<1>6. CASE FinDePagina
  BY <1>6, <1>t, FinDePaginaInv
<1>7. CASE ElegirBloques
  BY <1>7, <1>t, QuietoInv DEF ElegirBloques, Quietos, conexion, lineas, historia
<1>8. CASE BajarBloque
  BY <1>8, <1>t, QuietoInv DEF BajarBloque, Quietos, conexion, lineas
<1>9. CASE Escuchar
  <2>1. CASE Terminar
    BY <1>9, <1>t, <2>1, TerminarInv DEF Escuchar, historia
  <2>2. CASE ~Terminar
    BY <1>9, <1>t, <2>2, QuietoInv DEF Escuchar, Quietos, conexion, lineas, historia
  <2> QED BY <2>1, <2>2
<1>10. CASE RecibirInv
  BY <1>10, <1>t, RecibirInvInv
<1>11. CASE RecibirBloque
  BY <1>11, <1>t, RecibirBloqueInv
<1>12. CASE GuardarHeaderDeBloque
  BY <1>12, <1>t, GuardarHeaderDeBloqueInv
<1>13. CASE AgregarHeaderDeBloque
  BY <1>13, <1>t, AgregarHeaderDeBloqueInv
<1>14. CASE CrearArchivo
  BY <1>14, <1>t, QuietoInv DEF CrearArchivo, Quietos, conexion, lineas, historia
<1>15. CASE EscribirBloque
  BY <1>15, <1>t, QuietoInv DEF EscribirBloque, Quietos, conexion, lineas, historia
<1>16. CASE ObtenerUtxo
  <2>1. CASE Terminar
    BY <1>16, <1>t, <2>1, TerminarInv DEF ObtenerUtxo, historia
  <2>2. CASE ~Terminar
    BY <1>16, <1>t, <2>2, IgualInv DEF ObtenerUtxo, conexion, lineas, historia
  <2> QED BY <2>1, <2>2
<1>17. CASE Minar
  BY <1>17, <1>t, MinarInv
<1>18. CASE Responder
  BY <1>18, <1>t, ResponderInv
<1>19. CASE Caer
  BY <1>19, <1>t, TerminarInv DEF Caer
<1>20. CASE UNCHANGED vars
  BY <1>20, <1>t, IgualInv DEF vars, conexion, lineas, proceso, historia
<1> QED BY <1>1, <1>2, <1>3, <1>4, <1>5, <1>6, <1>7, <1>8, <1>9, <1>10, <1>11, <1>12, <1>13,
           <1>14, <1>15, <1>16, <1>17, <1>18, <1>19, <1>20 DEF Next, PasoNodo

LEMMA CadenaSiempre == Supuestos => (Spec => []CadenaInv)
<1> SUFFICES ASSUME Supuestos PROVE Spec => []CadenaInv
  OBVIOUS
<1>1. CadenaInv /\ [Next]_vars => CadenaInv'
  BY CadenaInvNext
<1> QED BY <1>1, CadenaInvInit, PTL DEF Spec

LEMMA ArchivoDeCadena == CadenaInv => ArchivoRecupera
<1> SUFFICES ASSUME CadenaInv PROVE ArchivoRecupera
  OBVIOUS
<1>1. /\ Sigue(HeadersDe(archivo), perdidos) /\ \A i \in DOMAIN archivo : Len(archivo[i]) = 1
      /\ pc # "inicio" =>
            /\ Sigue(headers, perdidos)
            /\ HeadersDe(archivo) = IF pc \in AMedias THEN Append(headers, pagina[1]) ELSE headers
  BY DEF CadenaInv, Escrito
<1>2. EnOrden(HeadersDe(archivo)) /\ SinSaltos(HeadersDe(archivo))
  BY <1>1 DEF Sigue, SinSaltos, Tope
<1>3. ASSUME pc # "inicio"
      PROVE  HeadersDe(archivo) = headers \o (IF pc \in {"linea", "linea_bloque"}
                                              THEN <<pagina[1]>> ELSE << >>)
  <2>1. headers \in Seq(Bloques) /\ headers \o << >> = headers
    BY <1>1, <1>3, ConcatEmptySeq DEF Sigue
  <2>2. CASE pc \in AMedias
    <3>1. pagina \in Seq(Bloques) /\ pagina # << >>
      BY <2>2 DEF CadenaInv, TipoInv, AMedias
    <3>2. pagina[1] \in Bloques
      BY <3>1
    <3>3. Append(headers, pagina[1]) = headers \o <<pagina[1]>>
      BY <2>1, <3>2, AppendIsConcat
    <3> QED BY <1>1, <1>3, <2>2, <3>3 DEF AMedias
  <2>3. CASE pc \notin AMedias
    BY <1>1, <1>3, <2>1, <2>3 DEF AMedias
  <2> QED BY <2>2, <2>3
<1> QED BY <1>1, <1>2, <1>3 DEF ArchivoRecupera

\* The blocks after those seen wait in the queue, and nothing else is announced.
LEMMA AnunciadosDe ==
    ASSUME TipoInv, NEW q, Cola(entrada, largo, q),
           q > 0 => entrada[q].cmd # "inv"
    PROVE  Anunciados = {Red[x] : x \in Vista(entrada, largo, q) + 1..largo}
<1> DEFINE v == Vista(entrada, largo, q)
           n == Len(entrada)
           en(i) == IF 0 < q /\ q < i THEN i - 1 ELSE i
<1>1. n \in Nat /\ q \in 0..n /\ largo \in Nat /\ v \in 1..largo /\ DOMAIN entrada = 1..n
  BY LargoDe DEF TipoInv, Cola
<1>2. v = largo - n + (IF q > 0 THEN 1 ELSE 0)
  BY DEF Vista
<1>3. \A i \in 1..n : i # q => entrada[i] = MsgInv(Red[v + en(i)])
  BY DEF Cola
<1>4. \A i \in 1..n : (i # q => entrada[i].cmd = "inv" /\ entrada[i].bloque = Red[v + en(i)])
                      /\ (i = q => entrada[i].cmd # "inv")
  BY <1>1, <1>3, Mensajes
<1> HIDE DEF v, n
<1>5. Anunciados = {Red[v + en(i)] : i \in {j \in 1..n : j # q}}
  <2> HIDE DEF en
  <2>1. {j \in DOMAIN entrada : entrada[j].cmd = "inv"} = {j \in 1..n : j # q}
    BY <1>1, <1>4
  <2> QED BY <1>4, <2>1 DEF Anunciados
<1>6. ASSUME NEW i \in 1..n, i # q PROVE v + en(i) \in v + 1..largo
  <2>1. CASE 0 < q /\ q < i
    BY <1>1, <1>2, <2>1
  <2>2. CASE ~(0 < q /\ q < i)
    BY <1>1, <1>2, <1>6, <2>2
  <2> QED BY <2>1, <2>2
<1>7. ASSUME NEW x \in v + 1..largo PROVE \E i \in 1..n : i # q /\ v + en(i) = x
  <2>1. CASE q = 0 \/ x - v < q
    <3>1. x - v \in 1..n /\ x - v # q /\ v + en(x - v) = x
      BY <1>1, <1>2, <2>1
    <3> QED BY <3>1
  <2>2. CASE q > 0 /\ x - v >= q
    <3>1. x - v + 1 \in 1..n /\ x - v + 1 # q /\ v + en(x - v + 1) = x
      BY <1>1, <1>2, <2>2
    <3> QED BY <3>1
  <2> QED BY <1>1, <2>1, <2>2
<1> HIDE DEF en
<1>8. {Red[v + en(i)] : i \in {j \in 1..n : j # q}} = {Red[x] : x \in v + 1..largo}
  BY <1>6, <1>7
<1> QED BY <1>5, <1>8 DEF v

LEMMA HuecosDeCadena == CadenaInv => SinHuecos
<1> DEFINE u == Tope(headers)
<1> SUFFICES ASSUME CadenaInv, pc \in {"fechas", "bajar"} \cup Escuchando
             PROVE  /\ \A i \in 1..largo : Red[i] \in Rango(headers) \cup Anunciados \cup EnCurso \cup perdidos
                    /\ Rango(headers) \cap (Anunciados \cup EnCurso) = {}
  BY DEF SinHuecos
<1>1. pc # "inicio" /\ pc # "headers"
  BY DEF Escuchando
<1>2. /\ largo \in 1..Len(Red) /\ largo \in Nat /\ u \in 1..Len(Red) /\ u <= largo /\ u \in Nat
      /\ entrada \in Seq(Mensaje) /\ TipoInv
  BY <1>1, TomarPaso, Constantes
<1>3. /\ \A i \in 1..u : Red[i] \in Rango(headers) \cup perdidos
      /\ \A b \in Rango(headers) : Lugar(b) <= u /\ Lugar(b) \in Nat
  <2>1. Sigue(headers, perdidos)
    BY <1>1 DEF CadenaInv, Escrito
  <2>2. \A b \in Rango(headers) : Lugar(b) <= u /\ Lugar(b) \in 1..Len(Red)
    BY <2>1, TopeEsMaximo
  <2> QED BY <2>1, <2>2, Constantes DEF Sigue
<1>4. PICK q \in 0..Len(entrada) : Cola(entrada, largo, q) /\ Paso(q)
  BY TomarPaso
<1> DEFINE v == Vista(entrada, largo, q)
<1>5. v \in 1..largo /\ v \in Nat
  BY <1>2, <1>4 DEF Cola
<1>6. q > 0 => pc = "block" /\ \E b : entrada[q] = MsgBlock(b)
  <2>1. q > 0 => pc = "block"
    BY <1>1, <1>4 DEF Paso, Quietos, Escuchando
  <2>2. q > 0 => \E w : \/ q = 0 /\ pedido = Pedir("block", Red[w])
                        \/ q > 0 /\ pedido = Nada /\ entrada[q] = MsgBlock(Red[w])
    BY <1>4, <2>1, Zenon DEF Paso
  <2>3. q > 0 => q # 0
    BY <1>4
  <2> QED BY <2>1, <2>2, <2>3
<1>7. Anunciados = {Red[x] : x \in v + 1..largo}
  BY <1>2, <1>4, <1>6, Mensajes, AnunciadosDe
\* What is under way, W, is enough.
<1>8. ASSUME NEW W \in SUBSET (u + 1..v), u <= v, Perdidos(u, v, W, perdidos),
             EnCurso = {Red[x] : x \in W}
      PROVE  /\ \A i \in 1..largo : Red[i] \in Rango(headers) \cup Anunciados \cup EnCurso \cup perdidos
             /\ Rango(headers) \cap (Anunciados \cup EnCurso) = {}
  <2> HIDE DEF u, v
  <2>1. ASSUME NEW i \in 1..largo
        PROVE  Red[i] \in Rango(headers) \cup Anunciados \cup EnCurso \cup perdidos
    <3>1. i \in 1..u \/ i \in u + 1..v \/ i \in v + 1..largo
      BY <1>2, <1>5
    <3>2. CASE i \in 1..u
      BY <1>3, <3>2
    <3>3. CASE i \in u + 1..v
      BY <1>8, <3>3 DEF Perdidos
    <3>4. CASE i \in v + 1..largo
      BY <1>7, <3>4
    <3> QED BY <3>1, <3>2, <3>3, <3>4
  <2>2. \A b \in Anunciados \cup EnCurso : \E x \in u + 1..largo : b = Red[x]
    <3>1. \A x \in v + 1..largo : x \in u + 1..largo
      BY <1>2, <1>5, <1>8
    <3>2. \A x \in W : x \in u + 1..largo
      BY <1>2, <1>5, <1>8
    <3> QED BY <1>7, <1>8, <3>1, <3>2
  <2>3. \A x \in u + 1..largo : Lugar(Red[x]) > u
    <3> TAKE x \in u + 1..largo
    <3>1. x \in 1..Len(Red) /\ x > u
      BY <1>2, Constantes
    <3> QED BY <3>1, LugarDe
  <2>4. ASSUME NEW b \in Rango(headers), b \in Anunciados \cup EnCurso PROVE FALSE
    <3>1. Lugar(b) > u /\ Lugar(b) <= u /\ Lugar(b) \in Nat
      BY <1>3, <2>2, <2>3, <2>4
    <3> QED BY <1>2, <3>1
  <2> QED BY <2>1, <2>4
<1>9. \A i \in DOMAIN entrada : i # q => entrada[i].cmd = "inv"
  BY <1>2, <1>4, Mensajes DEF Cola
<1>10. q = 0 => {entrada[i].bloque : i \in {j \in DOMAIN entrada : entrada[j].cmd = "block"}} = {}
  <2> SUFFICES ASSUME q = 0 PROVE {j \in DOMAIN entrada : entrada[j].cmd = "block"} = {}
    OBVIOUS
  <2>1. \A i \in DOMAIN entrada : i # q
    BY <1>2
  <2> QED BY <1>9, <2>1
<1>11. pedido = Nada => {b \in Bloques : pedido = Pedir("block", b)} = {}
  BY Mensajes
<1>12. CASE pc \in Quietos
  <2>1. q = 0 /\ pedido = Nada /\ u <= v /\ Perdidos(u, v, {}, perdidos)
    BY <1>4, <1>12 DEF Paso
  <2>2. EnCurso = {Red[x] : x \in {}}
    BY <1>10, <1>11, <1>12, <2>1 DEF EnCurso, Quietos
  <2> QED BY <1>8, <2>1, <2>2
<1>13. CASE pc = "block"
  <2>1. PICK w \in u + 1..v :
           /\ Perdidos(u, v, {w}, perdidos)
           /\ \/ q = 0 /\ pedido = Pedir("block", Red[w])
              \/ q > 0 /\ pedido = Nada /\ entrada[q] = MsgBlock(Red[w])
    BY <1>4, <1>13 DEF Paso
  <2>2. u <= v /\ {w} \in SUBSET (u + 1..v) /\ w \in 1..Len(Red) /\ Red[w] \in Bloques
    <3> HIDE DEF u, v
    <3> QED BY <1>2, <1>5, <2>1, Constantes
  <2>3. EnCurso = {Red[w]}
    <3>1. CASE q = 0 /\ pedido = Pedir("block", Red[w])
      <4>1. {b \in Bloques : pedido = Pedir("block", b)} = {Red[w]}
        BY <2>2, <3>1, Mensajes
      <4> QED BY <1>10, <1>13, <3>1, <4>1 DEF EnCurso
    <3>2. CASE q > 0 /\ pedido = Nada /\ entrada[q] = MsgBlock(Red[w])
      <4>1. {j \in DOMAIN entrada : entrada[j].cmd = "block"} = {q}
        <5>1. q \in DOMAIN entrada /\ entrada[q].cmd = "block"
          BY <1>2, <1>4, <3>2, Mensajes
        <5> QED BY <1>9, <5>1
      <4>2. {entrada[i].bloque : i \in {q}} = {Red[w]}
        BY <3>2, Mensajes
      <4> QED BY <1>11, <1>13, <3>2, <4>1, <4>2 DEF EnCurso
    <3> QED BY <2>1, <3>1, <3>2
  <2>4. EnCurso = {Red[x] : x \in {w}}
    BY <2>3
  <2> QED BY <1>8, <2>1, <2>2, <2>4
<1>14. CASE pc \in {"hex_bloque", "linea_bloque"}
  <2>1. q = 0 /\ pedido = Nada
    BY <1>4, <1>14 DEF Paso
  <2>2. PICK w \in u + 1..v : pagina = <<Red[w]>> /\ Perdidos(u, v, {w}, perdidos)
    BY <1>4, <1>14 DEF Paso
  <2>3. u <= v /\ {w} \in SUBSET (u + 1..v)
    <3> HIDE DEF u, v
    <3> QED BY <1>2, <1>5, <2>2
  <2>4. EnCurso = {Red[x] : x \in {w}}
    <3>1. pagina[1] = Red[w]
      BY <2>2
    <3> QED BY <1>10, <1>11, <1>14, <2>1, <3>1 DEF EnCurso
  <2> QED BY <1>8, <2>2, <2>3, <2>4
<1> QED BY <1>12, <1>13, <1>14 DEF Escuchando, Quietos

\* Every variable of the synchronisation keeps its type, whatever the chain, the
\* points where the process dies and the blocks announced meanwhile: a hash is asked
\* for, a page saved and a header appended only when there is one (actualizar_header_blockchain,
\* getheaders_loop).
THEOREM TipoCorrecto == Spec => []TypeOK
  BY TipoInvInit, TipoInvNext, TipoDeTipoInv, PTL DEF Spec

\* However many times the process dies, at whatever points, and in whatever order the
\* blocks are announced, the headers file holds the peer's chain in order, one header
\* per line, with no gap but the blocks announced while another one was awaited, and the
\* vector in memory is in step with it (guardar_headers, escribir_y_guardar_headers),
\* when no writeln! is cut in two.
THEOREM ArchivoCorrecto == ~LineaPartida => (Spec => []ArchivoRecupera)
  BY CadenaSiempre, ArchivoDeCadena, PTL DEF Supuestos

\* Between the synchronisation and the listener no block of the peer is lost: each
\* one is in the vector, or waits in the socket, or is being taken, or was announced
\* while the listener awaited another block (getheaders_loop, handle_specific_message);
\* and none that is in the vector is still to come.
THEOREM NadaSePierdeEntre == ~LineaPartida => (Spec => []SinHuecos)
  BY CadenaSiempre, HuecosDeCadena, PTL DEF Supuestos

\* Whatever the deaths, the dates and the order of the announcements, a header that
\* the running process added from the configured date on has its block, or the block is
\* to come or was delivered by nobody: the index handed from actualizar_header_blockchain
\* to obtener_headers_validos_fecha leaves no header between the two.
THEOREM BloquesCorrecto == Spec => []BloquesDelProceso
<1>1. BloquesInv => BloquesDelProceso
  BY DEF BloquesInv
<1> QED BY <1>1, BloquesSiempre, PTL
=============================================================================
