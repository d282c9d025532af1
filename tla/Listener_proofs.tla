-------------------------- MODULE Listener_proofs --------------------------
(***************************************************************************)
(* Proofs about Listener, for every value of its constants.                *)
(***************************************************************************)
EXTENDS Listener, TLAPS

LEMMA SeqAppend ==
    ASSUME NEW S, NEW s \in Seq(S), NEW e \in S PROVE Append(s, e) \in Seq(S)
  OBVIOUS

LEMMA SeqTail ==
    ASSUME NEW S, NEW s \in Seq(S), s # << >>
    PROVE  Head(s) \in S /\ Tail(s) \in Seq(S)
  OBVIOUS

\* What each step of the thread knows of its locals.
LocalesOK ==
    /\ pc = "validar" => actual \in Bloques
    /\ pc \in ConCandado => actual \in Bloques
    /\ pc \in {"txn_memoria", "txn_wallet"} => actual \in Txns
    /\ pc \in {"tx", "txn_memoria", "txn_wallet"} => faltan >= 1
    /\ pc = "getdata_tx" => Len(inv) >= 1

TipoInv == TypeOK /\ LocalesOK

LEMMA MensajesTipados ==
    ASSUME NEW m \in Mensajes
    PROVE  /\ m.cmd = "inv" => m.inv \in Seq(Items)
           /\ m.cmd = "block" => m.item \in Bloques
           /\ m.cmd = "tx" => m.item \in Txns
  BY ItemsAssumption, ConfigAssumption DEF Mensajes, MsgInv, MsgItem, MsgNotFound, MsgPing

LEMMA TipoInvInit == Init => TipoInv
  BY ItemsAssumption, BaseAssumption, ConfigAssumption
     DEF Init, TipoInv, TypeOK, LocalesOK, ConCandado, Pasos, Esperas, EstadosArchivo,
         Items, Nada

LEMMA TipoInvNext == TipoInv /\ [Next]_vars => TipoInv'
<1> SUFFICES ASSUME TipoInv, [Next]_vars PROVE TipoInv'
  OBVIOUS
<1> USE DEF TipoInv, TypeOK, LocalesOK, ConCandado, Pasos, Esperas
<1>1. CASE Anunciar
  <2>1. PICK m \in {MsgInv(i) : i \in Inventarios} \cup {MsgPing} : entrada' = Append(entrada, m)
    BY <1>1 DEF Anunciar
  <2>2. entrada' \in Seq(Mensajes)
    BY <2>1 DEF Mensajes
  <2> QED BY <1>1, <2>2, ConfigAssumption DEF Anunciar, locales, cadena, canales
<1>2. CASE Responder
  <2>1. Head(pedidos) \in Items /\ pedidos' \in Seq(Items)
    BY <1>2, SeqTail DEF Responder
  <2>2. entrada' \in Seq(Mensajes)
    <3>1. MsgNotFound \in Mensajes
      BY DEF Mensajes
    <3>2. Head(pedidos) \in Disponibles => MsgItem(Head(pedidos)) \in Mensajes
      BY ItemsAssumption DEF Mensajes
    <3>3. \/ Head(pedidos) \in Disponibles /\ entrada' = Append(entrada, MsgItem(Head(pedidos)))
          \/ entrada' = Append(entrada, MsgNotFound)
          \/ entrada' = entrada
      BY <1>2 DEF Responder
    <3>4. entrada \in Seq(Mensajes)
      OBVIOUS
    <3> HIDE DEF TipoInv
    <3> QED BY <3>1, <3>2, <3>3, <3>4, SeqAppend
  <2> QED BY <1>2, <2>1, <2>2 DEF Responder, locales, cadena, canales
<1>3. CASE CerrarConexion
  BY <1>3 DEF CerrarConexion, locales, cadena, canales
<1>4. CASE DescartarMensaje
  BY <1>4 DEF DescartarMensaje, locales, cadena, canales
<1>5. CASE RecibirInv
  <2>1. Head(entrada) \in Mensajes /\ entrada' \in Seq(Mensajes)
    BY <1>5 DEF RecibirInv, Recibe
  <2>2. Head(entrada).inv \in Seq(Items)
    <3>1. Head(entrada).cmd = "inv"
      BY <1>5 DEF RecibirInv, Recibe
    <3> QED BY <2>1, <3>1, MensajesTipados
  <2>3. \/ pc' = "fin" /\ inv' = inv
        \/ pc' = "inv" /\ inv' = inv
        \/ pc' \in {"getdata_bloque", "getdata_tx"} /\ inv' = Head(entrada).inv
           /\ Len(inv') >= 1
    <3>1. Len(Head(entrada).inv) >= 1 \/ Head(entrada).inv = << >>
      BY <2>2
    <3> QED BY <1>5, <3>1 DEF RecibirInv
  <2> QED BY <1>5, <2>1, <2>2, <2>3 DEF RecibirInv, cadena, canales
<1>6. CASE Notificar
  <2>1. notif' \in Seq(Seq(Items))
    <3>1. Append(notif, inv) \in Seq(Seq(Items))
      BY SeqAppend
    <3> QED BY <1>6, <3>1 DEF Notificar
  <2> QED BY <1>6, <2>1 DEF Notificar, red, cadena
<1>7. CASE PedirBloque
  BY <1>7 DEF PedirBloque, cadena, canales
<1>8. CASE RecibirBloque
  <2>1. Head(entrada) \in Mensajes /\ entrada' \in Seq(Mensajes)
    BY <1>8 DEF RecibirBloque, Recibe
  <2>2. Head(entrada).item \in Bloques
    BY <1>8, <2>1, MensajesTipados DEF RecibirBloque, Recibe
  <2> QED BY <1>8, <2>1, <2>2 DEF RecibirBloque, cadena, canales
<1>9. CASE RechazarBloque
  BY <1>9 DEF RechazarBloque, red, cadena, canales
<1>10. CASE AceptarBloque
  BY <1>10 DEF AceptarBloque, red, cadena
<1>11. CASE EscribirHeader
  BY <1>11 DEF EscribirHeader, red, canales
<1>12. CASE AgregarHeader
  BY <1>12 DEF AgregarHeader, red, canales
<1>13. CASE CrearArchivo
  BY <1>13 DEF CrearArchivo, red, canales, EstadosArchivo
<1>14. CASE EscribirBloque
  BY <1>14 DEF EscribirBloque, red, canales, EstadosArchivo
<1>15. CASE EnviarBloque
  BY <1>15 DEF EnviarBloque, red, cadena
<1>16. CASE PedirTransacciones
  BY <1>16 DEF PedirTransacciones, cadena, canales
<1>17. CASE RecibirTransaccion
  <2>1. Head(entrada) \in Mensajes /\ entrada' \in Seq(Mensajes)
    BY <1>17 DEF RecibirTransaccion, Recibe
  <2>2. Head(entrada).item \in Txns
    BY <1>17, <2>1, MensajesTipados DEF RecibirTransaccion, Recibe
  <2> QED BY <1>17, <2>1, <2>2 DEF RecibirTransaccion, cadena, canales
<1>18. CASE AgregarTransaccion
  <2>1. actual \in Txns /\ faltan >= 1
    BY <1>18 DEF AgregarTransaccion
  <2>2. memoria' \in Seq(Txns)
    <3>1. memoria # << >> => Tail(memoria) \in Seq(Txns)
      OBVIOUS
    <3>2. \/ memoria' = memoria
          \/ memoria # << >> /\ memoria' = Append(Tail(memoria), actual)
          \/ memoria' = Append(memoria, actual)
      BY <1>18 DEF AgregarTransaccion
    <3>3. memoria \in Seq(Txns)
      OBVIOUS
    <3> HIDE DEF TipoInv
    <3> QED BY <2>1, <3>1, <3>2, <3>3, SeqAppend
  <2>3. pc' \in {"fin", "txn_wallet"}
    BY <1>18 DEF AgregarTransaccion
  <2> QED BY <1>18, <2>1, <2>2, <2>3 DEF AgregarTransaccion, red, cadena, canales
<1>19. CASE EnviarTransaccion
  BY <1>19 DEF EnviarTransaccion, SiguienteTransaccion, red, cadena
<1>20. CASE RecibirNotFound
  <2>1. entrada' \in Seq(Mensajes)
    BY <1>20 DEF RecibirNotFound, Recibe
  <2>2. /\ faltan' \in Nat /\ pc' \in {"fin", "notificar", "tx"}
        /\ pc' = "tx" => faltan' >= 1
    BY <1>20, SMTT(30) DEF RecibirNotFound, SiguienteTransaccion
  <2> QED BY <1>20, <2>1, <2>2 DEF RecibirNotFound, cadena, canales
<1>21. CASE ErrorDeLectura
  BY <1>21, SMTT(30) DEF ErrorDeLectura, SiguienteTransaccion, red, cadena, canales
<1>22. CASE Fallar
  BY <1>22 DEF Fallar, red, cadena, canales
<1>23. CASE LeerHeaders
  BY <1>23 DEF LeerHeaders, red, locales, cadena, canales
<1>24. CASE UNCHANGED vars
  BY <1>24 DEF vars, red, locales, cadena, canales
<1> QED
  BY <1>1, <1>2, <1>3, <1>4, <1>5, <1>6, <1>7, <1>8, <1>9, <1>10, <1>11, <1>12, <1>13,
     <1>14, <1>15, <1>16, <1>17, <1>18, <1>19, <1>20, <1>21, <1>22, <1>23, <1>24
     DEF Next, PasoListener

\* Every variable of the listener keeps its type.
THEOREM TipoCorrecto == Spec => []TypeOK
<1>1. TipoInv => TypeOK
  BY DEF TipoInv
<1> QED BY TipoInvInit, TipoInvNext, <1>1, PTL DEF Spec
-----------------------------------------------------------------------------
(* The chain: the headers vector, the headers file, the block files, and what  *)
(* the GUI, the wallet and the handlers of the server know of them.            *)

\* What a block on its way through validar_bloque has already been through.
EnCurso ==
    /\ pc = "memoria" => archivo[Len(archivo)] = actual
    /\ pc \in {"archivo", "memoria"} =>
          Len(gui) = Nuevos + 1 /\ gui[Len(gui)].bloque = actual
    /\ pc \in {"crear", "escribir", "evento"} =>
          /\ Nuevos >= 1 /\ headers[Len(headers)] = actual
          /\ Len(eventosBloque) = Nuevos - 1
    /\ pc = "evento" => disco[actual] = "completo"

CadenaInv ==
    /\ Len(headers) >= Len(Base)
    /\ ArchivoSigueAMemoria /\ BloquesRespaldados /\ EventosEnOrden
    /\ AlturasCoinciden /\ VistaRespaldada
    /\ EnCurso

LEMMA CadenaInvInit == Init => CadenaInv
<1> SUFFICES ASSUME Init PROVE CadenaInv
  OBVIOUS
<1> USE BaseAssumption DEF Init, Nuevos
<1>1. ArchivoSigueAMemoria
  BY DEF ArchivoSigueAMemoria
<1>2. BloquesRespaldados /\ VistaRespaldada
  BY DEF BloquesRespaldados, VistaRespaldada
<1>3. EventosEnOrden /\ AlturasCoinciden
  BY DEF EventosEnOrden, AlturasCoinciden
<1> QED BY <1>1, <1>2, <1>3 DEF CadenaInv, EnCurso

\* A step that leaves the chain alone, and neither enters nor leaves the part of
\* validar_bloque that changes it but through an error, preserves the invariant.
LEMMA PasoAjeno ==
    ASSUME TipoInv, CadenaInv,
           UNCHANGED <<cadena, gui, eventosBloque, vista>>,
           \/ pc' = pc /\ actual' = actual
           \/ pc \notin ConCandado \cup {"fin"} /\ pc' \notin ConCandado
           \/ pc' = "fin" /\ pc # "memoria"
    PROVE  CadenaInv'
<1> USE DEF cadena, ConCandado, Nuevos
<1>1. ArchivoSigueAMemoria'
  BY DEF CadenaInv, ArchivoSigueAMemoria
<1>2. BloquesRespaldados'
  BY DEF CadenaInv, BloquesRespaldados
<1>3. EventosEnOrden'
  BY DEF CadenaInv, EventosEnOrden
<1>4. AlturasCoinciden'
  BY DEF CadenaInv, AlturasCoinciden
<1>5. VistaRespaldada'
  BY DEF CadenaInv, VistaRespaldada
<1>6. EnCurso'
  BY DEF CadenaInv, EnCurso
<1> QED BY <1>1, <1>2, <1>3, <1>4, <1>5, <1>6 DEF CadenaInv

\* Outside the lock, every header the listener added has its block on disk.
LEMMA SinCandado ==
    ASSUME CadenaInv, pc \notin ConCandado, pc # "fin"
    PROVE  \A i \in Len(Base) + 1..Len(headers) : disco[headers[i]] = "completo"
  BY DEF CadenaInv, BloquesRespaldados, ConCandado

LEMMA CadenaInvNext == TipoInv /\ CadenaInv /\ [Next]_vars => CadenaInv'
<1> SUFFICES ASSUME TipoInv, CadenaInv, [Next]_vars PROVE CadenaInv'
  OBVIOUS
<1>t. /\ headers \in Seq(Bloques) /\ archivo \in Seq(Bloques) /\ vista \in Seq(Bloques)
      /\ disco \in [Bloques -> EstadosArchivo]
      /\ gui \in Seq([bloque : Bloques, altura : Nat]) /\ eventosBloque \in Seq(Bloques)
      /\ pc \in ConCandado => actual \in Bloques
      /\ pc = "validar" => actual \in Bloques
      /\ Len(Base) \in Nat /\ Len(Base) >= 1
  BY BaseAssumption DEF TipoInv, TypeOK, LocalesOK
<1>n. /\ Len(headers) \in Nat /\ Len(archivo) \in Nat /\ Len(gui) \in Nat
      /\ Len(eventosBloque) \in Nat /\ Nuevos \in Nat
      /\ Len(Base) \in Nat
  BY <1>t DEF Nuevos, CadenaInv
<1>1. CASE \/ Anunciar \/ Responder \/ CerrarConexion \/ DescartarMensaje
  BY <1>1, PasoAjeno DEF Anunciar, Responder, CerrarConexion, DescartarMensaje,
                         locales, canales
<1>2. CASE \/ RecibirInv \/ Notificar \/ PedirBloque \/ RecibirBloque \/ RechazarBloque
  BY <1>2, PasoAjeno DEF RecibirInv, Notificar, PedirBloque, RecibirBloque,
                         RechazarBloque, locales, canales, ConCandado
<1>3. CASE \/ PedirTransacciones \/ RecibirTransaccion \/ AgregarTransaccion
           \/ EnviarTransaccion
  BY <1>3, PasoAjeno DEF PedirTransacciones, RecibirTransaccion, AgregarTransaccion,
                         EnviarTransaccion, SiguienteTransaccion, canales, ConCandado
<1>4. CASE \/ RecibirNotFound \/ ErrorDeLectura \/ Fallar
  BY <1>4, PasoAjeno DEF RecibirNotFound, ErrorDeLectura, Fallar, SiguienteTransaccion,
                         canales, ConCandado
<1>5. CASE AceptarBloque
  <2> USE <1>5, <1>t DEF AceptarBloque, cadena, Nuevos
  <2>1. ArchivoSigueAMemoria'
    BY DEF CadenaInv, ArchivoSigueAMemoria
  <2>2. BloquesRespaldados' /\ VistaRespaldada'
    BY DEF CadenaInv, BloquesRespaldados, VistaRespaldada
  <2>3. EventosEnOrden'
    BY DEF CadenaInv, EventosEnOrden
  <2>4. AlturasCoinciden' /\ EnCurso'
    <3>1. Len(gui) = Nuevos
      BY DEF CadenaInv, AlturasCoinciden
    <3>2. /\ Len(gui') = Len(gui) + 1
          /\ \A i \in 1..Len(gui) : gui'[i] = gui[i]
          /\ gui'[Len(gui')] = [bloque |-> actual, altura |-> Len(headers)]
      OBVIOUS
    <3>3. Len(headers') = Len(headers) /\ headers' = headers /\ pc' = "archivo" /\ actual' = actual
      OBVIOUS
    <3>4. AlturasCoinciden'
      <4>1. \A i \in 1..Len(gui) :
               /\ gui[i].altura = Len(Base) + i - 1
               /\ i <= Nuevos => gui[i].bloque = headers[gui[i].altura + 1]
        BY DEF CadenaInv, AlturasCoinciden
      <4>0. /\ gui'[Len(gui')].altura = Len(headers)
            /\ Len(headers) \in Nat /\ Len(gui) \in Nat
        BY <3>2
      <4>2. ASSUME NEW i \in 1..Len(gui')
            PROVE  /\ gui'[i].altura = Len(Base) + i - 1
                   /\ i <= Nuevos => gui'[i].bloque = headers[gui'[i].altura + 1]
        <5>1. CASE i \in 1..Len(gui)
          BY <5>1, <4>1, <3>2
        <5>2. CASE i = Len(gui')
          <6> HIDE DEF AceptarBloque
          <6>1. i = Nuevos + 1 /\ gui'[i].altura = Len(headers)
            BY <5>2, <3>1, <3>2, <4>0
          <6> QED BY <6>1, <4>0
        <5> QED BY <5>1, <5>2, <3>2
      <4>3. Len(gui') = Nuevos' + 1 /\ Nuevos' = Nuevos
        BY <3>1, <3>2, <3>3
      <4> QED BY <4>2, <4>3, <3>3 DEF AlturasCoinciden
    <3> QED BY <3>1, <3>2, <3>3, <3>4 DEF EnCurso
  <2> QED BY <2>1, <2>2, <2>3, <2>4 DEF CadenaInv
<1>6. CASE EscribirHeader
  <2> USE <1>6, <1>t DEF EscribirHeader, canales, Nuevos
  <2>1. ArchivoSigueAMemoria' /\ archivo'[Len(archivo')] = actual
    BY DEF CadenaInv, ArchivoSigueAMemoria
  <2>2. BloquesRespaldados' /\ VistaRespaldada'
    BY DEF CadenaInv, BloquesRespaldados, VistaRespaldada
  <2>3. EventosEnOrden' /\ AlturasCoinciden'
    BY DEF CadenaInv, EventosEnOrden, AlturasCoinciden
  <2>4. EnCurso'
    BY <2>1 DEF CadenaInv, EnCurso
  <2> QED BY <2>1, <2>2, <2>3, <2>4 DEF CadenaInv
<1>7. CASE AgregarHeader
  <2> USE <1>7, <1>t DEF AgregarHeader, canales, Nuevos, ConCandado
  <2>0. /\ Len(headers') = Len(headers) + 1 /\ headers'[Len(headers')] = actual
        /\ \A i \in 1..Len(headers) : headers'[i] = headers[i]
    OBVIOUS
  <2>1. ArchivoSigueAMemoria'
    <3>1. /\ Len(archivo) = Len(headers) /\ archivo[Len(archivo)] = actual
          /\ \A i \in 1..Len(headers) - 1 : archivo[i] = headers[i + 1]
      BY DEF CadenaInv, ArchivoSigueAMemoria, EnCurso
    <3>2. ASSUME NEW i \in 1..Len(headers') - 1
          PROVE  archivo[i] = headers'[i + 1]
      <4>1. CASE i = Len(headers)
        BY <4>1, <3>1, <2>0
      <4>2. CASE i \in 1..Len(headers) - 1
        BY <4>2, <3>1, <2>0
      <4> QED BY <4>1, <4>2, <2>0
    <3> QED BY <3>1, <3>2, <2>0 DEF ArchivoSigueAMemoria
  <2>2. BloquesRespaldados'
    <3>1. \A i \in Len(Base) + 1..Len(headers) : disco[headers[i]] = "completo"
      BY DEF CadenaInv, BloquesRespaldados
    <3>2. ASSUME NEW i \in Len(Base) + 1..Len(headers')
          PROVE  disco[headers'[i]] = "completo" \/ i = Len(headers')
      <4>1. CASE i = Len(headers')
        BY <4>1
      <4>2. CASE i \in Len(Base) + 1..Len(headers)
        <5>1. headers'[i] = headers[i]
          BY <2>0, <4>2
        <5> QED BY <3>1, <4>2, <5>1
      <4>3. i = Len(headers') \/ i \in Len(Base) + 1..Len(headers)
        <5>1. Len(headers') = Len(headers) + 1
          BY <2>0
        <5> HIDE DEF AgregarHeader, canales, ConCandado, Nuevos
        <5> HIDE <1>7, <1>t
        <5> QED BY <1>n, <5>1
      <4> QED BY <4>1, <4>2, <4>3
    <3> QED BY <3>2 DEF BloquesRespaldados
  <2>3. VistaRespaldada'
    BY DEF CadenaInv, VistaRespaldada
  <2>4. EventosEnOrden' /\ EnCurso'
    <3>1. Len(eventosBloque) = Nuevos
      BY DEF CadenaInv, EventosEnOrden
    <3> QED BY <2>0, <3>1, SMTT(30) DEF CadenaInv, EventosEnOrden, EnCurso
  <2>5. AlturasCoinciden'
    <3>1. /\ Len(gui) = Nuevos + 1 /\ gui[Len(gui)].bloque = actual
          /\ \A i \in 1..Len(gui) :
               /\ gui[i].altura = Len(Base) + i - 1
               /\ i <= Nuevos => gui[i].bloque = headers[gui[i].altura + 1]
      BY DEF CadenaInv, AlturasCoinciden, EnCurso
    <3>2. ASSUME NEW i \in 1..Len(gui)
          PROVE  gui[i].bloque = headers'[gui[i].altura + 1]
      <4>0. /\ gui[i].altura + 1 = Len(Base) + i
            /\ i <= Nuevos => gui[i].bloque = headers[Len(Base) + i]
        <5>1. /\ gui[i].altura = Len(Base) + i - 1
              /\ i <= Nuevos => gui[i].bloque = headers[gui[i].altura + 1]
          BY <3>1
        <5>2. Len(Base) \in Nat /\ i \in Nat
          BY <1>n
        <5>3. Len(Base) + i - 1 + 1 = Len(Base) + i
          BY <5>2
        <5> QED BY <5>1, <5>3
      <4> HIDE DEF AgregarHeader
      <4>1. CASE i <= Nuevos
        <5>1. Len(Base) + i \in 1..Len(headers)
          BY <4>1
        <5> QED BY <4>0, <4>1, <5>1, <2>0
      <4>2. CASE i = Nuevos + 1
        <5>1. Len(Base) + i = Len(headers')
          BY <4>2, <2>0
        <5> QED BY <4>0, <4>2, <5>1, <3>1, <2>0
      <4>3. i <= Nuevos \/ i = Nuevos + 1
        <5>1. Len(gui) = Nuevos + 1
          BY <3>1
        <5> HIDE DEF Nuevos
        <5> QED BY <1>n, <5>1
      <4> QED BY <4>1, <4>2, <4>3
    <3>3. Len(gui') = Nuevos' /\ gui' = gui
      BY <3>1, <2>0
    <3> QED BY <3>1, <3>2, <3>3 DEF AlturasCoinciden
  <2> QED BY <2>0, <2>1, <2>2, <2>3, <2>4, <2>5 DEF CadenaInv
<1>8. CASE CrearArchivo
  <2> USE <1>8, <1>t DEF CrearArchivo, canales, Nuevos
  <2>0. \A b \in Bloques : disco[b] = "completo" => disco'[b] = "completo"
    OBVIOUS
  <2>1. ArchivoSigueAMemoria' /\ AlturasCoinciden'
    BY DEF CadenaInv, ArchivoSigueAMemoria, AlturasCoinciden
  <2>2. BloquesRespaldados' /\ VistaRespaldada'
    BY <2>0 DEF CadenaInv, BloquesRespaldados, VistaRespaldada
  <2>3. EventosEnOrden' /\ EnCurso'
    BY <2>0 DEF CadenaInv, EventosEnOrden, EnCurso
  <2> QED BY <2>1, <2>2, <2>3 DEF CadenaInv
<1>9. CASE EscribirBloque
  <2> USE <1>9, <1>t DEF EscribirBloque, canales, Nuevos, ConCandado
  <2>0. /\ \A b \in Bloques : disco[b] = "completo" => disco'[b] = "completo"
        /\ disco'[actual] = "completo"
    OBVIOUS
  <2>1. ArchivoSigueAMemoria' /\ AlturasCoinciden'
    BY DEF CadenaInv, ArchivoSigueAMemoria, AlturasCoinciden
  <2>2. BloquesRespaldados' /\ VistaRespaldada'
    BY <2>0 DEF CadenaInv, BloquesRespaldados, VistaRespaldada, EnCurso
  <2>3. EventosEnOrden' /\ EnCurso'
    BY <2>0 DEF CadenaInv, EventosEnOrden, EnCurso
  <2> QED BY <2>1, <2>2, <2>3 DEF CadenaInv
<1>10. CASE EnviarBloque
  <2> USE <1>10, <1>t DEF EnviarBloque, cadena, Nuevos, ConCandado
  <2>1. ArchivoSigueAMemoria' /\ AlturasCoinciden'
    BY DEF CadenaInv, ArchivoSigueAMemoria, AlturasCoinciden
  <2>2. BloquesRespaldados' /\ VistaRespaldada'
    BY DEF CadenaInv, BloquesRespaldados, VistaRespaldada
  <2>3. EventosEnOrden' /\ EnCurso'
    <3>1. /\ Len(eventosBloque) = Nuevos - 1 /\ Nuevos >= 1
          /\ headers[Len(headers)] = actual /\ disco[actual] = "completo"
          /\ \A i \in 1..Len(eventosBloque) :
                /\ eventosBloque[i] = headers[Len(Base) + i]
                /\ disco[eventosBloque[i]] = "completo"
      BY DEF CadenaInv, EventosEnOrden, EnCurso
    <3>2. /\ Len(eventosBloque') = Nuevos /\ eventosBloque'[Nuevos] = actual
          /\ \A i \in 1..Nuevos - 1 : eventosBloque'[i] = eventosBloque[i]
      BY <3>1
    <3>3. ASSUME NEW i \in 1..Nuevos
          PROVE  /\ eventosBloque'[i] = headers[Len(Base) + i]
                 /\ disco[eventosBloque'[i]] = "completo"
      <4> HIDE DEF EnviarBloque
      <4>1. CASE i = Nuevos
        <5>1. Len(Base) + i = Len(headers)
          BY <4>1
        <5> QED BY <4>1, <5>1, <3>1, <3>2
      <4>2. CASE i \in 1..Nuevos - 1
        BY <4>2, <3>1, <3>2
      <4>3. i = Nuevos \/ i \in 1..Nuevos - 1
        BY <1>n
      <4> QED BY <4>1, <4>2, <4>3
    <3> QED BY <3>1, <3>2, <3>3 DEF EventosEnOrden, EnCurso
  <2> QED BY <2>1, <2>2, <2>3 DEF CadenaInv
<1>11. CASE LeerHeaders
  <2> USE <1>11, <1>t DEF LeerHeaders, locales, cadena, canales, Nuevos
  <2>1. VistaRespaldada'
    BY SinCandado DEF VistaRespaldada
  <2>2. ArchivoSigueAMemoria' /\ AlturasCoinciden' /\ BloquesRespaldados'
    BY DEF CadenaInv, ArchivoSigueAMemoria, AlturasCoinciden, BloquesRespaldados
  <2>3. EventosEnOrden' /\ EnCurso'
    BY DEF CadenaInv, EventosEnOrden, EnCurso
  <2> QED BY <2>1, <2>2, <2>3 DEF CadenaInv
<1>12. CASE UNCHANGED vars
  BY <1>12, PasoAjeno DEF vars, locales, canales
<1> QED
  BY <1>1, <1>2, <1>3, <1>4, <1>5, <1>6, <1>7, <1>8, <1>9, <1>10, <1>11, <1>12
     DEF Next, PasoListener

LEMMA CadenaSiempre == Spec => [](TipoInv /\ CadenaInv)
  BY TipoInvInit, TipoInvNext, CadenaInvInit, CadenaInvNext, PTL DEF Spec

\* Whatever error ends the thread, the headers file holds what the memory held.
THEOREM ArchivoCorrecto == Spec => []ArchivoSigueAMemoria
<1>1. CadenaInv => ArchivoSigueAMemoria
  BY DEF CadenaInv
<1> QED BY CadenaSiempre, <1>1, PTL

\* Only the last header added can lack its block (validar_bloque).
THEOREM BloquesCorrectos == Spec => []BloquesRespaldados
<1>1. CadenaInv => BloquesRespaldados
  BY DEF CadenaInv
<1> QED BY CadenaSiempre, <1>1, PTL

\* The wallet hears of every block once, in order, with its file complete.
THEOREM EventosCorrectos == Spec => []EventosEnOrden
<1>1. CadenaInv => EventosEnOrden
  BY DEF CadenaInv
<1> QED BY CadenaSiempre, <1>1, PTL

\* The heights the GUI shows are indices of the headers vector.
THEOREM AlturasCorrectas == Spec => []AlturasCoinciden
<1>1. CadenaInv => AlturasCoinciden
  BY DEF CadenaInv
<1> QED BY CadenaSiempre, <1>1, PTL

\* Under the lock, no handler of the server sees a header without its block.
THEOREM VistaCorrecta == Spec => []VistaRespaldada
<1>1. CadenaInv => VistaRespaldada
  BY DEF CadenaInv
<1> QED BY CadenaSiempre, <1>1, PTL

\* No step takes anything away from the chain, its file or its blocks.
LEMMA PasoNoPierde ==
    TipoInv /\ [Next]_vars =>
        [/\ EsPrefijo(headers, headers') /\ EsPrefijo(archivo, archivo')
         /\ \A b \in Bloques : disco[b] = "completo" => disco'[b] = "completo"]_vars
<1> SUFFICES ASSUME TipoInv, [Next]_vars
             PROVE  /\ EsPrefijo(headers, headers') /\ EsPrefijo(archivo, archivo')
                    /\ \A b \in Bloques : disco[b] = "completo" => disco'[b] = "completo"
  OBVIOUS
<1>t. /\ headers \in Seq(Bloques) /\ archivo \in Seq(Bloques)
      /\ disco \in [Bloques -> EstadosArchivo]
      /\ pc \in ConCandado => actual \in Bloques
  BY DEF TipoInv, TypeOK, LocalesOK
<1>1. ASSUME NEW s \in Seq(Bloques), NEW x \in Bloques
      PROVE  EsPrefijo(s, s) /\ EsPrefijo(s, Append(s, x))
  BY DEF EsPrefijo
<1>0. EsPrefijo(headers, headers) /\ EsPrefijo(archivo, archivo)
  BY <1>t DEF EsPrefijo
<1>2. CASE UNCHANGED cadena
  BY <1>2, <1>0, <1>t DEF cadena
<1>3. CASE EscribirHeader
  <2>1. headers' = headers /\ archivo' = Append(archivo, actual) /\ disco' = disco
        /\ actual \in Bloques
    BY <1>3, <1>t DEF EscribirHeader, ConCandado
  <2> QED BY <2>1, <1>1, <1>t
<1>4. CASE AgregarHeader
  <2>1. headers' = Append(headers, actual) /\ archivo' = archivo /\ disco' = disco
        /\ actual \in Bloques
    BY <1>4, <1>t DEF AgregarHeader, ConCandado
  <2> QED BY <2>1, <1>1, <1>t
<1>5. CASE CrearArchivo \/ EscribirBloque
  <2>1. headers' = headers /\ archivo' = archivo
    BY <1>5 DEF CrearArchivo, EscribirBloque
  <2>2. \A b \in Bloques : disco[b] = "completo" => disco'[b] = "completo"
    BY <1>5, <1>t DEF CrearArchivo, EscribirBloque
  <2> QED BY <2>1, <2>2, <1>0, <1>t
<1>6. EscribirHeader \/ AgregarHeader \/ CrearArchivo \/ EscribirBloque \/ UNCHANGED cadena
  BY DEF Next, PasoListener, vars, Anunciar, Responder, CerrarConexion, DescartarMensaje,
         RecibirInv, Notificar, PedirBloque, RecibirBloque, RechazarBloque, AceptarBloque,
         EnviarBloque, PedirTransacciones, RecibirTransaccion, AgregarTransaccion,
         EnviarTransaccion, RecibirNotFound, ErrorDeLectura, Fallar, LeerHeaders
<1> QED BY <1>2, <1>3, <1>4, <1>5, <1>6

\* The chain only grows, and a complete block file stays complete.
THEOREM SoloCrece == Spec => NadaSePierde
  BY CadenaSiempre, PasoNoPierde, PTL DEF Spec, NadaSePierde
-----------------------------------------------------------------------------
(* The refinement of CadenaPublicada. *)

LEMMA RefinaInit == Init => Abstracta!Init
<1> SUFFICES ASSUME Init PROVE Abstracta!Init
  OBVIOUS
<1>1. PICK B \in SUBSET {Base[i] : i \in DOMAIN Base} :
         disco = [b \in Bloques |-> IF b \in B THEN "completo" ELSE "no"]
  BY DEF Init
<1>2. {b \in Bloques : disco[b] = "completo"} \subseteq {Base[i] : i \in DOMAIN Base}
  BY <1>1
<1>3. headers = Base /\ Len(Base) + Len(eventosBloque) = Len(Base)
  BY BaseAssumption DEF Init
<1> QED BY <1>2, <1>3 DEF Abstracta!Init

LEMMA RefinaNext ==
    TipoInv /\ CadenaInv /\ [Next]_vars => [Abstracta!Next]_(Abstracta!varsCadena)
<1> SUFFICES ASSUME TipoInv, CadenaInv, [Next]_vars
             PROVE  Abstracta!Next \/ UNCHANGED Abstracta!varsCadena
  OBVIOUS
<1>t. /\ headers \in Seq(Bloques) /\ eventosBloque \in Seq(Bloques)
      /\ disco \in [Bloques -> EstadosArchivo]
      /\ pc \in ConCandado => actual \in Bloques
      /\ Len(Base) \in Nat /\ Len(headers) \in Nat /\ Len(eventosBloque) \in Nat
      /\ Len(headers) >= Len(Base)
  BY BaseAssumption DEF TipoInv, TypeOK, LocalesOK, CadenaInv
<1>1. CASE UNCHANGED <<headers, disco, eventosBloque>>
  BY <1>1 DEF Abstracta!varsCadena
<1>2. CASE AgregarHeader
  <2>1. /\ headers' = Append(headers, actual) /\ actual \in Bloques
        /\ disco' = disco /\ eventosBloque' = eventosBloque
    BY <1>2, <1>t DEF AgregarHeader, canales, ConCandado
  <2>2. Len(eventosBloque) = Nuevos
    BY <1>2 DEF AgregarHeader, CadenaInv, EventosEnOrden
  <2>3. Len(Base) + Len(eventosBloque) = Len(headers)
    BY <2>2, <1>t DEF Nuevos
  <2> QED BY <2>1, <2>3 DEF Abstracta!Next, Abstracta!Agregar
<1>3. CASE CrearArchivo
  <2>1. /\ headers' = headers /\ eventosBloque' = eventosBloque
        /\ \A b \in Bloques : disco'[b] = "completo" <=> disco[b] = "completo"
    BY <1>3, <1>t DEF CrearArchivo, canales
  <2> QED BY <2>1 DEF Abstracta!varsCadena
<1>4. CASE EscribirBloque
  <2>1. /\ headers' = headers /\ eventosBloque' = eventosBloque
        /\ disco' = [disco EXCEPT ![actual] = "completo"]
        /\ actual = headers[Len(headers)] /\ actual \in Bloques
        /\ Len(eventosBloque) = Nuevos - 1
    BY <1>4, <1>t DEF EscribirBloque, canales, ConCandado, CadenaInv, EnCurso
  <2>2. {b \in Bloques : disco'[b] = "completo"}
           = {b \in Bloques : disco[b] = "completo"} \cup {headers[Len(headers)]}
    BY <2>1, <1>t
  <2>3. Len(Base) + Len(eventosBloque) < Len(headers)
    BY <2>1, <1>t DEF Nuevos
  <2> QED BY <2>1, <2>2, <2>3 DEF Abstracta!Next, Abstracta!Guardar
<1>5. CASE EnviarBloque
  <2>1. /\ headers' = headers /\ disco' = disco
        /\ eventosBloque' = Append(eventosBloque, actual)
        /\ actual = headers[Len(headers)] /\ actual \in Bloques
        /\ disco[actual] = "completo" /\ Len(eventosBloque) = Nuevos - 1
    BY <1>5, <1>t DEF EnviarBloque, cadena, ConCandado, CadenaInv, EnCurso
  <2>2. /\ Len(Base) + Len(eventosBloque) < Len(headers)
        /\ Len(Base) + Len(eventosBloque') = Len(Base) + Len(eventosBloque) + 1
    BY <2>1, <1>t DEF Nuevos
  <2> QED BY <2>1, <2>2 DEF Abstracta!Next, Abstracta!Publicar
<1>6. \/ AgregarHeader \/ CrearArchivo \/ EscribirBloque \/ EnviarBloque
      \/ UNCHANGED <<headers, disco, eventosBloque>>
  BY DEF Next, PasoListener, vars, cadena, canales, Anunciar, Responder, CerrarConexion,
         DescartarMensaje, RecibirInv, Notificar, PedirBloque, RecibirBloque,
         RechazarBloque, AceptarBloque, EscribirHeader, PedirTransacciones,
         RecibirTransaccion, AgregarTransaccion, EnviarTransaccion, RecibirNotFound,
         ErrorDeLectura, Fallar, LeerHeaders
<1> QED BY <1>1, <1>2, <1>3, <1>4, <1>5, <1>6

\* The listener implements CadenaPublicada.
THEOREM Refinamiento == Spec => Refina
  BY CadenaSiempre, RefinaInit, RefinaNext, PTL DEF Spec, Refina, Abstracta!Spec
=============================================================================
