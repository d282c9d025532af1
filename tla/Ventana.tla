------------------------------- MODULE Ventana -------------------------------
(***************************************************************************)
(* The window and the wallet behind it: what the user does becomes events  *)
(* of one channel, what the wallet does becomes events of another, and the *)
(* accounts go through a file whose text is that of ArchivoCuentas.  Code: *)
(* src/src/gui.rs, gui_events.rs, wallet_events.rs, account.rs, main.rs.   *)
(*                                                                         *)
(* What the outputs are worth, the choice of inputs and the saves that     *)
(* fail are in Wallet.  Here a transfer is accepted or not, a save writes  *)
(* the whole file, and an available balance with its unspent outputs is    *)
(* known by the blocks that it takes into account.  The pending balance,   *)
(* of which every change sends a notice, the state of the start, the list  *)
(* of blocks and the forms are left out.                                   *)
(***************************************************************************)
EXTENDS ArchivoCuentas

CONSTANTS
    Aliases, Etiquetas, \* what the user may type as an alias and as a label
    Direcciones,        \* addresses whose keys are valid
    Pagos,              \* what the user may type to pay to, and the address that each text pays
    Cortas,             \* those of them that decode to fewer bytes than a checksum, or to that of nothing
    Iniciales,          \* accounts in the file at the beginning, if there is one, and their addresses
    Ajenas,             \* transactions of others, and for each who signs and whom it pays
    Propias,            \* names for the transfers of this wallet, in order
    NombresBloques,     \* names for the blocks, in order
    CantPend,           \* CANT_PEND_TXN, which is 5
    MaxAgregadas,       \* bound: accounts that the user adds
    MaxEventos,         \* bound: events queued when the user acts
    MaxVidas            \* bound: processes

ASSUME VentanaAssumption ==
    /\ CantPend \in Nat /\ MaxAgregadas \in Nat /\ MaxEventos \in Nat /\ MaxVidas \in Nat \ {0}
    /\ \A texto \in Aliases \cup Etiquetas \cup DOMAIN Pagos : EsTexto(texto)
    /\ Cortas \subseteq DOMAIN Pagos
    /\ Iniciales \in [DOMAIN Iniciales -> Direcciones]
    /\ DOMAIN Iniciales \subseteq Aliases /\ IsFiniteSet(DOMAIN Iniciales)
    /\ \A t \in DOMAIN Ajenas : Ajenas[t].paga \in Seq(Range(Ajenas[t].paga))
    /\ Propias \in Seq(Range(Propias)) /\ NombresBloques \in Seq(Range(NombresBloques))
    /\ \A i, j \in DOMAIN Propias : i # j => Propias[i] # Propias[j]
    /\ DOMAIN Ajenas \cap Range(Propias) = {}

\* What the text of the file can hold: aliases of one word, labels with some,
\* texts to pay to of one word, if they are long enough to be sent, and no keyword
\* in any of the words of an entry.  The code does not ask for it.
Legible ==
    /\ \A alias \in Aliases : Len(alias) = 1
    /\ \A etiqueta \in Etiquetas : etiqueta # << >> /\ \A palabra \in Range(etiqueta) : Limpia(palabra)
    /\ \A texto \in DOMAIN Pagos \ Cortas : Len(texto) = 1 /\ Limpia(texto[1])
    /\ \A palabra \in Direcciones \cup {Ajenas[t].firma : t \in DOMAIN Ajenas} \cup Range(NombresBloques) :
          Limpia(palabra)
    /\ (DOMAIN Ajenas \cup Range(Propias)) \cap Range(Claves) = {}
    /\ {Palabra("total"), Palabra("importe")} \subseteq Montos

VARIABLES
    txns,       \* transactions of the network: their signer and whom they pay
    directorio, \* the files of the blocks: the transactions of each, in order
    porEnviar,  \* blocks (at most one) written, whose event is not sent yet
    canal,      \* events for the wallet
    avisos,     \* events for the window
    ventana,    \* the widgets: see VentanaNueva
    pc,         \* the main thread
    cuentas,    \* wallets.accounts
    archivo,    \* the wallet file (at most one)
    aplicados,  \* blocks that update_utxo has applied to what obtain_utxo read, in order
    panico,     \* the function whose unwrap, expect or index failed
    agregadas, vidas    \* counters of the bounds

red == <<txns, directorio, porEnviar>>
wallet == <<pc, cuentas, archivo, aplicados>>
limites == <<agregadas, vidas>>
vars == <<red, canal, avisos, ventana, wallet, panico, limites>>

Nada == Palabra("-")
Privada(dir) == Append(dir, "wif")

\* What the window shows of an account: the table, last row first, and the first
\* of the pending transactions.  The rows of the unspent outputs that are in no
\* list, and the available balance, follow from the blocks of saldo.
Filas(tipo, entradas) == Reverse([i \in DOMAIN entradas |-> [tipo |-> tipo, info |-> entradas[i]]])
Mostrar(alias, cuenta, saldo) ==
    LET pendientes == cuenta.listas["SENDING"] \o cuenta.listas["RECEIVING"]
    IN  [de |-> alias,
         filas |-> Filas("Received", cuenta.listas["RECEIVED"]) \o Filas("Sent", cuenta.listas["SENT"]),
         pendientes |-> SubSeq(pendientes, 1, Min({CantPend, Len(pendientes)})), saldo |-> saldo]

\* ActualizarWallet carries a copy of the account, with the outputs that it has
\* after the blocks of saldo; its alias is there for the properties only.
Aviso(alias, cuenta, saldo) == [tipo |-> "cuenta", de |-> alias, cuenta |-> cuenta, saldo |-> saldo]

\* Variant: the pages of the window react from the beginning.
VentanaSensible ==
    [combo |-> << >>, activo |-> 0, sensible |-> TRUE, vista |-> {}, prueba |-> {}, abierta |-> TRUE]

\* The aliases of combo_box_wallets and the row that is selected, if any; whether
\* fixed_send and fixed_transactions react to the user; the account that is shown
\* and what the last Merkle proof was asked for (at most one of each).
VentanaNueva ==
    [combo |-> << >>, activo |-> 0, sensible |-> FALSE, vista |-> {}, prueba |-> {}, abierta |-> TRUE]

\* No file, or one that was saved before anything was sent or received.
ArchivosIniciales ==
    LET cs == [c \in DOMAIN Iniciales |-> CuentaNueva(Iniciales[c], Privada(Iniciales[c]))]
    IN  {{}} \cup {{Guardar(cs, orden)} : orden \in SetToSeqs(DOMAIN cs)}

Init ==
    /\ txns = << >> /\ directorio = << >> /\ porEnviar = {}
    /\ canal = << >> /\ avisos = << >> /\ ventana = VentanaNueva
    /\ pc = "inicio" /\ cuentas = << >> /\ archivo \in ArchivosIniciales /\ aplicados = << >>
    /\ panico = "no" /\ agregadas = 0 /\ vidas = 1

\* The process ends, and with it its memory and its window.
Terminar ==
    /\ pc' = "fin" /\ porEnviar' = {} /\ canal' = << >> /\ avisos' = << >>
    /\ cuentas' = << >> /\ aplicados' = << >> /\ ventana' = VentanaNueva

\* An unwrap, an expect or an index that fails.
Panico(funcion) == panico' = funcion /\ Terminar
-----------------------------------------------------------------------------
(* The user, in the callbacks of the window. *)

UsuarioPuede == ventana.abierta /\ pc # "fin" /\ Len(canal \o avisos) < MaxEventos

\* Variant: the account is asked for before it is added.
PedidosDeAlta(alias, dir) ==
    <<[tipo |-> "cargar", alias |-> alias], [tipo |-> "agregar", alias |-> alias, dir |-> dir]>>

\* The button Add sends the keys, and set_active(0) selects the alias, which asks
\* for its account.
PedidosAlAgregar(alias, dir) ==
    <<[tipo |-> "agregar", alias |-> alias, dir |-> dir], [tipo |-> "cargar", alias |-> alias]>>

\* Add lists the alias before anybody has looked at its keys.
Agregar ==
    /\ UsuarioPuede /\ agregadas < MaxAgregadas /\ agregadas' = agregadas + 1
    /\ \E alias \in Aliases, dir \in Direcciones \cup {Palabra("invalida")} :
          /\ ventana' = [ventana EXCEPT !.combo = <<alias>> \o @, !.activo = 1, !.sensible = TRUE]
          /\ canal' = canal \o PedidosAlAgregar(alias, dir)
    /\ UNCHANGED <<red, avisos, wallet, panico, vidas>>

\* connect_changed, for another row.
Elegir ==
    /\ UsuarioPuede
    /\ \E i \in DOMAIN ventana.combo \ {ventana.activo} :
          /\ ventana' = [ventana EXCEPT !.activo = i, !.sensible = TRUE]
          /\ canal' = Append(canal, [tipo |-> "cargar", alias |-> ventana.combo[i]])
    /\ UNCHANGED <<red, avisos, wallet, panico, limites>>

\* The button Send unwraps the alias that is selected.  Nobody looks at the text
\* to pay to.
Enviar ==
    /\ UsuarioPuede /\ ventana.sensible
    /\ IF ventana.activo = 0 THEN Panico("send")
       ELSE /\ \E etiqueta \in Etiquetas, texto \in DOMAIN Pagos :
                  canal' = Append(canal, [tipo |-> "enviar", alias |-> ventana.combo[ventana.activo],
                                          label |-> etiqueta, dir |-> texto])
            /\ UNCHANGED <<porEnviar, avisos, ventana, pc, cuentas, aplicados, panico>>
    /\ UNCHANGED <<txns, directorio, archivo, limites>>

\* The toggle of a row opens the block of its transaction, if it has one.
PedirPrueba ==
    /\ ventana.abierta /\ pc # "fin" /\ ventana.sensible
    /\ \E v \in ventana.vista : \E fila \in Range(v.filas) :
          LET bloque == fila.info.bloque
              hay == \E i \in DOMAIN directorio : NombresBloques[i] = bloque
          IN  /\ bloque # Nada
              /\ IF ~hay THEN Panico("merkle_proof")
                 ELSE /\ ventana' = [ventana EXCEPT !.prueba = {[txn |-> fila.info.txn, bloque |-> bloque]}]
                      /\ UNCHANGED <<porEnviar, canal, avisos, pc, cuentas, aplicados, panico>>
    /\ UNCHANGED <<txns, directorio, archivo, limites>>

\* The thread of the window ends, and nobody reads what is sent to it any more.
Cerrar ==
    /\ ventana.abierta /\ pc # "fin"
    /\ ventana' = [VentanaNueva EXCEPT !.abierta = FALSE]
    /\ canal' = Append(canal, [tipo |-> "cerrar"]) /\ avisos' = << >>
    /\ UNCHANGED <<red, wallet, panico, limites>>

\* Variant: the list is only what the file has.
ListarSolo(v, aliases) ==
    [v EXCEPT !.combo = Reverse(aliases), !.activo = IF @ = 0 THEN 0 ELSE @ + Len(aliases)]

\* IniciarWallets: the selected row stays selected, further down.
Listar(v, aliases) ==
    [v EXCEPT !.combo = Reverse(aliases) \o @, !.activo = IF @ = 0 THEN 0 ELSE @ + Len(aliases)]

\* recv_gui: what arrives while the window is open changes what it shows.
Atender ==
    /\ ventana.abierta /\ pc # "fin" /\ avisos # << >> /\ avisos' = Tail(avisos)
    /\ LET a == Head(avisos)
       IN  ventana' = IF a.tipo = "cuenta"
                      THEN [ventana EXCEPT !.vista = {Mostrar(a.de, a.cuenta, a.saldo)}, !.prueba = {}]
                      ELSE Listar(ventana, a.aliases)
    /\ UNCHANGED <<red, canal, wallet, panico, limites>>
-----------------------------------------------------------------------------
(* The listener. *)

LlegaTxn ==
    /\ pc # "fin"
    /\ \E t \in DOMAIN Ajenas \ DOMAIN txns :
          /\ txns' = Con(txns, t, Ajenas[t])
          /\ canal' = Append(canal, [tipo |-> "txn", txn |-> t])
    /\ UNCHANGED <<directorio, porEnviar, avisos, ventana, wallet, panico, limites>>

\* validar_bloque writes the block, and then sends it.
LlegaBloque ==
    /\ pc # "fin" /\ porEnviar = {} /\ Len(directorio) < Len(NombresBloques)
    /\ \E ts \in SUBSET (DOMAIN txns \ UNION {Range(directorio[i]) : i \in DOMAIN directorio}) :
          /\ ts # {}
          /\ \E b \in SetToSeqs(ts) : directorio' = Append(directorio, b)
    /\ porEnviar' = {Len(directorio')}
    /\ UNCHANGED <<txns, canal, avisos, ventana, wallet, panico, limites>>

EnviarBloque ==
    /\ \E i \in porEnviar : canal' = Append(canal, [tipo |-> "bloque", bloque |-> i])
    /\ porEnviar' = {}
    /\ UNCHANGED <<txns, directorio, avisos, ventana, wallet, panico, limites>>
-----------------------------------------------------------------------------
(* The main thread. *)

\* cargar_wallets_inicio.  A file that is not there is not an error.
CargarWallets ==
    /\ pc = "inicio"
    /\ \/ /\ archivo = {} /\ pc' = "espera"
          /\ UNCHANGED <<porEnviar, canal, avisos, ventana, cuentas, aplicados, panico>>
       \/ \E texto \in archivo :
            LET lectura == Cargar(texto)
            IN  IF ~lectura.entera THEN Panico("load")
                ELSE /\ pc' = "espera" /\ cuentas' = lectura.cuentas
                     /\ \E orden \in SetToSeqs(DOMAIN lectura.cuentas) :
                           avisos' = Append(avisos, [tipo |-> "iniciar", aliases |-> orden])
                     /\ UNCHANGED <<porEnviar, canal, ventana, aplicados, panico>>
    /\ UNCHANGED <<txns, directorio, archivo, limites>>

\* An event of the wallet is taken from the channel.
Tomar(tipo) == /\ pc = "espera" /\ canal # << >> /\ Head(canal).tipo = tipo
               /\ canal' = Tail(canal)

\* The accounts change and are saved, in any order of their HashMap, if they must.
Cambiar(cs, debeGuardar) ==
    /\ cuentas' = cs
    /\ IF debeGuardar THEN \E orden \in SetToSeqs(DOMAIN cs) : archivo' = {Guardar(cs, orden)}
       ELSE UNCHANGED archivo

Rechazar == UNCHANGED <<cuentas, archivo>>

\* evento_agregar_wallet: keys that are valid, and an alias that is new.
AgregarWallet ==
    /\ Tomar("agregar")
    /\ LET e == Head(canal)
       IN  IF e.dir \in Direcciones /\ e.alias \notin DOMAIN cuentas
           THEN Cambiar(Con(cuentas, e.alias, CuentaNueva(e.dir, Privada(e.dir))), TRUE)
           ELSE Rechazar
    /\ UNCHANGED <<red, avisos, ventana, pc, aplicados, panico, limites>>

\* evento_cargar_wallet
CargarWallet ==
    /\ Tomar("cargar")
    /\ LET alias == Head(canal).alias
       IN  avisos' = IF alias \in DOMAIN cuentas
                     THEN Append(avisos, Aviso(alias, cuentas[alias], aplicados)) ELSE avisos
    /\ UNCHANGED <<red, ventana, wallet, panico, limites>>

\* Variant: the spaces of the label are kept.
EntradaConEspacios(t, etiqueta, monto, dir) ==
    [txn |-> Palabra(t), label |-> etiqueta, monto |-> Palabra(monto), dir |-> dir, bloque |-> Nada]

\* A new entry: of a transfer to a text, or from an address.
Entrada(t, etiqueta, monto, dir) ==
    [txn |-> Palabra(t), label |-> Unida(etiqueta), monto |-> Palabra(monto), dir |-> dir,
     bloque |-> Nada]

\* evento_realizar_trx: pending for the sender, and for one account of this wallet
\* with the address it pays, if any.
ConTransferencia(e, t) ==
    LET emisor == cuentas[e.alias].dir
        conEnvio == [cuentas EXCEPT ![e.alias] =
                        ConEntrada(@, "SENDING", Entrada(t, e.label, "total", e.dir))]
        receptores == {c \in DOMAIN cuentas : <<cuentas[c].dir>> = e.dir}
    IN  IF receptores = {} THEN {conEnvio}
        ELSE {[conEnvio EXCEPT ![c] =
                  ConEntrada(@, "RECEIVING", Entrada(t, e.label, "importe", <<emisor>>))] :
              c \in receptores}

\* generar_txn and broadcast_txn may fail; the transfer may have a change output.
\* A text that does not decode is paid all the same.
RealizarTransferencia ==
    /\ Tomar("enviar")
    /\ LET e == Head(canal)
           usadas == Cardinality(DOMAIN txns \cap Range(Propias))
       IN  \/ Rechazar /\ UNCHANGED <<txns, avisos>>
           \/ /\ e.alias \in DOMAIN cuentas /\ e.dir \notin Cortas /\ usadas < Len(Propias)
              /\ LET t == Propias[usadas + 1]
                     emisor == cuentas[e.alias].dir
                 IN  /\ \E paga \in {<<Pagos[e.dir]>>, <<Pagos[e.dir], emisor>>} :
                           txns' = Con(txns, t, [firma |-> emisor, paga |-> paga])
                     /\ \E cs \in ConTransferencia(e, t) :
                           /\ Cambiar(cs, TRUE)
                           /\ avisos' = Append(avisos, Aviso(e.alias, cs[e.alias], aplicados))
    /\ UNCHANGED <<directorio, porEnviar, ventana, pc, aplicados, panico, limites>>

\* decode_bitcoin_adress cuts a checksum off the end of what the text decodes to,
\* if the sender has enough to come that far.
TransferirACorta ==
    /\ pc = "espera" /\ canal # << >> /\ Head(canal).tipo = "enviar"
    /\ Head(canal).alias \in DOMAIN cuentas /\ Head(canal).dir \in Cortas
    /\ Panico("decode_bitcoin_adress")
    /\ UNCHANGED <<txns, directorio, archivo, limites>>

\* Variant: the window gets its copy before the change.
TocarAntes(estado, alias, nueva) ==
    [cs |-> [estado.cs EXCEPT ![alias] = nueva],
     avisos |-> Append(estado.avisos, Aviso(alias, estado.cs[alias], estado.aplicados)),
     aplicados |-> estado.aplicados]

\* Variant: the outputs of a block come after its pass over the accounts.
TocarSinSaldo(estado, alias, nueva) ==
    [cs |-> [estado.cs EXCEPT ![alias] = nueva],
     avisos |-> Append(estado.avisos, Aviso(alias, nueva, aplicados)),
     aplicados |-> estado.aplicados]

\* An account changes, and the window gets a copy of it.
Tocar(estado, alias, nueva) ==
    [cs |-> [estado.cs EXCEPT ![alias] = nueva],
     avisos |-> Append(estado.avisos, Aviso(alias, nueva, estado.aplicados)),
     aplicados |-> estado.aplicados]

\* Before the pass: a block brings the outputs of every account up to date.
Intactas(evento) ==
    [cs |-> cuentas, avisos |-> avisos,
     aplicados |-> IF evento.tipo = "bloque" THEN Append(aplicados, evento.bloque) ELSE aplicados]

\* For each output of each transaction every account is looked at, in the order of
\* the HashMap.
Visitas(ts, orden) ==
    FlattenSeq([j \in DOMAIN ts |->
        FlattenSeq([i \in DOMAIN txns[ts[j]].paga |->
            [k \in DOMAIN orden |-> [txn |-> ts[j], dir |-> txns[ts[j]].paga[i], cuenta |-> orden[k]]]])])

\* A transaction that pays the account is pending.
Recibida(c, t) ==
    LET firma == txns[t].firma
        etiqueta == Palabra(IF firma = c.dir THEN "Change" ELSE "-")
    IN  ConEntrada(c, "RECEIVING", Entrada(t, <<etiqueta>>, "importe", <<firma>>))

\* The first entry of a transaction goes from a list to another, with its block.
Mover(c, de, a, t, bloque) ==
    LET i == SelectInSeq(c.listas[de], LAMBDA e : e.txn = Palabra(t))
    IN  IF i = 0 THEN c
        ELSE ConEntrada([c EXCEPT !.listas[de] = RemoveAt(@, i)], a,
                        [c.listas[de][i] EXCEPT !.bloque = bloque])

\* update_sending_txn notes the block; update_receiving_txn leaves none.
Confirmar(c, t, bloque) ==
    Mover(Mover(c, "SENDING", "SENT", t, bloque), "RECEIVING", "RECEIVED", t, Nada)

\* What an event makes of an account that its transaction pays.
Pagada(c, t, evento) ==
    IF evento.tipo = "txn" THEN Recibida(c, t) ELSE Confirmar(c, t, NombresBloques[evento.bloque])

\* The pass of an event over the accounts: those that an output pays change.
Recorrer(ts, orden, evento) ==
    LET visitas == Visitas(ts, orden)
        estado[i \in 0..Len(visitas)] ==
            IF i = 0 THEN Intactas(evento)
            ELSE LET e == estado[i - 1]
                     v == visitas[i]
                 IN  IF cuentas[v.cuenta].dir = v.dir
                     THEN Tocar(e, v.cuenta, Pagada(e.cs[v.cuenta], v.txn, evento)) ELSE e
    IN  estado[Len(visitas)]

\* What an event did to the accounts is saved, if it did anything.
Concluir(finales) ==
    \E fin \in finales :
        Cambiar(fin.cs, fin.avisos # avisos) /\ avisos' = fin.avisos /\ aplicados' = fin.aplicados

\* evento_recibir_txn
RecibirTxn ==
    /\ Tomar("txn")
    /\ Concluir({Recorrer(<<Head(canal).txn>>, orden, Head(canal)) : orden \in SetToSeqs(DOMAIN cuentas)})
    /\ UNCHANGED <<red, ventana, pc, panico, limites>>

\* evento_recibir_bloque
RecibirBloque ==
    /\ Tomar("bloque")
    /\ Concluir({Recorrer(directorio[Head(canal).bloque], orden, Head(canal)) :
                 orden \in SetToSeqs(DOMAIN cuentas)})
    /\ UNCHANGED <<red, ventana, pc, panico, limites>>

CerrarWallet ==
    /\ pc = "espera" /\ canal # << >> /\ Head(canal).tipo = "cerrar"
    /\ Terminar
    /\ UNCHANGED <<txns, directorio, archivo, panico, limites>>
-----------------------------------------------------------------------------
(* The process. *)

\* Killed, between two events.
Caer ==
    /\ pc # "fin" /\ Terminar
    /\ UNCHANGED <<txns, directorio, archivo, panico, limites>>

Reiniciar ==
    /\ pc = "fin" /\ vidas < MaxVidas /\ vidas' = vidas + 1 /\ pc' = "inicio"
    /\ UNCHANGED <<red, canal, avisos, ventana, cuentas, archivo, aplicados, panico, agregadas>>

Next ==
    \/ Agregar \/ Elegir \/ Enviar \/ PedirPrueba \/ Cerrar \/ Atender
    \/ LlegaTxn \/ LlegaBloque \/ EnviarBloque
    \/ CargarWallets \/ AgregarWallet \/ CargarWallet \/ RealizarTransferencia \/ TransferirACorta
    \/ RecibirTxn \/ RecibirBloque \/ CerrarWallet
    \/ Caer \/ Reiniciar

Spec == Init /\ [][Next]_vars
-----------------------------------------------------------------------------
(* Properties. *)

EsCuenta(c) == \A s \in Range(Secciones) : \A e \in Range(c.listas[s]) :
                   e.txn \in {Palabra(t) : t \in DOMAIN txns}

\* Every variable keeps its type, and the lists hold transactions of the network.
TypeOK ==
    /\ pc \in {"inicio", "espera", "fin"}
    /\ panico \in {"no", "send", "merkle_proof", "load", "decode_bitcoin_adress"}
    /\ ventana.sensible \in BOOLEAN /\ ventana.abierta \in BOOLEAN
    /\ Range(ventana.combo) \subseteq Aliases /\ ventana.activo \in 0..Len(ventana.combo)
    /\ Cardinality(ventana.vista) <= 1 /\ Cardinality(ventana.prueba) <= 1
    /\ DOMAIN cuentas \subseteq Aliases /\ \A c \in DOMAIN cuentas : EsCuenta(cuentas[c])
    /\ Cardinality(archivo) <= 1
    /\ porEnviar \subseteq DOMAIN directorio /\ Range(aplicados) \subseteq DOMAIN directorio
    /\ agregadas \in 0..MaxAgregadas /\ vidas \in 1..MaxVidas

\* In whatever order the user acts and the events arrive, while what is typed is
\* Legible: nothing fails but the transfer to a text that is too short to be an
\* address.  Something is selected when a transfer is sent, the file is one that
\* the next process can load, and the block of a row is on disk and has its
\* transaction, so that there is a Merkle proof to show
\* (definir_logica_send_transaction, load, definir_logica_merkle_proof).
NadieEntraEnPanico ==
    /\ panico # "no" => panico = "decode_bitcoin_adress" /\ Cortas # {}
    /\ \A p \in ventana.prueba : \E i \in DOMAIN directorio :
          NombresBloques[i] = p.bloque /\ p.txn \in {Palabra(t) : t \in Range(directorio[i])}

\* An output of the block is to the address.
Paga(bloque, dir) == \E j \in DOMAIN directorio[bloque] : dir \in Range(txns[directorio[bloque][j]].paga)

\* A balance after the blocks of saldo is the one that the wallet has, but for
\* blocks that came later and pay nothing to the address.
SaldoAlDia(saldo, dir) ==
    IsPrefix(saldo, aplicados) /\ \A i \in Len(saldo) + 1..Len(aplicados) : ~Paga(aplicados[i], dir)

\* The account in the window, or the last one on its way to it, has the lists that
\* the wallet has, and the balance and unspent outputs but for what is spent by
\* blocks that do not pay it; and when nothing is on its way, an account that is
\* selected has made the window show one (evento_* of wallet_events.rs,
\* connect_changed).
VistaAlDia ==
    pc = "espera" /\ ventana.abierta =>
        LET enCamino == {i \in DOMAIN avisos : avisos[i].tipo = "cuenta"}
            ultimo == avisos[Max(enCamino)]
        IN  IF enCamino # {}
            THEN ultimo.cuenta = cuentas[ultimo.de] /\ SaldoAlDia(ultimo.saldo, ultimo.cuenta.dir)
            ELSE /\ \A v \in ventana.vista : v = Mostrar(v.de, cuentas[v.de], v.saldo)
                                               /\ SaldoAlDia(v.saldo, cuentas[v.de].dir)
                 /\ canal = << >> /\ avisos = << >> /\ ventana.activo # 0 =>
                       ventana.combo[ventana.activo] \notin DOMAIN cuentas \/ ventana.vista # {}

\* What save writes, load reads back: the next process has the accounts of this
\* one, with every transaction in its list (Wallet::save, Wallet::load).
ArchivoSeRecarga ==
    pc = "espera" =>
        IF archivo = {} THEN cuentas = << >>
        ELSE \A texto \in archivo :
                LET lectura == Cargar(texto) IN lectura.entera /\ lectura.cuentas = cuentas

\* If there is a saved file, the accounts are loaded (load).
SiHayArchivoSeCarga == panico # "load"
=============================================================================
