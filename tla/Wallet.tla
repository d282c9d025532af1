------------------------------- MODULE Wallet -------------------------------
(***************************************************************************)
(* The wallet: the start of its set of unspent outputs and of its          *)
(* accounts, its loop of events, and its file, over the failures of a save *)
(* and the deaths of the process.  Code: src/src/wallet_events.rs,         *)
(* wallet.rs, account.rs, wallet_txn.rs, utxo.rs; main.rs for the order of *)
(* the start.                                                              *)
(*                                                                         *)
(* The listener goes on while the wallet starts: it writes a block to the  *)
(* directory, and then sends the event.  While the process is dead the     *)
(* chain grows, and the next start downloads what it missed, without       *)
(* events.  The events of the GUI are taken at any time the loop is        *)
(* waiting: what the user asks for does not depend on when it is queued.   *)
(*                                                                         *)
(* An account is named by its address, which stands for its alias and its  *)
(* keys.  A list of transactions is a bag, amounts are whole numbers, and  *)
(* labels and messages are left out.                                       *)
(***************************************************************************)
EXTENDS Utxo, Bags

CONSTANTS
    Direcciones,    \* addresses of the accounts that may be added
    Destinos,       \* addresses to which the user may transfer
    Iniciales,      \* accounts in the file at the beginning
    Base,           \* the chain at the beginning
    Ajenas,         \* transactions of others that may appear
    Importes, Costos,   \* amounts and fees that the user may ask for
    MaxBloques,         \* bound: length of the chain
    MaxTransferencias,  \* bound: transfers
    MaxPercances        \* bound: saves that fail and deaths of the process

Rango(s) == {s[i] : i \in DOMAIN s}

\* An output of a transaction older than the date from which the node has the
\* chain: nobody in sight makes it.  What such a transaction spent is not looked at.
Antigua(o, txns) == o[1].en = {} /\ o[1] \notin txns \cup Ajenas

\* What the chain spends it has or is older than it; others have not the keys of the
\* accounts.
ASSUME WalletAssumption ==
    /\ Iniciales \subseteq Direcciones
    /\ Base \in Seq(Rango(Base))
    /\ IsFiniteSet(Ajenas) /\ \A i \in DOMAIN Base : IsFiniteSet(Base[i])
    /\ \A t \in Ajenas \cup UNION Rango(Base) :
          IsFiniteSet(DOMAIN t.sal) /\ \A n \in DOMAIN t.sal : t.sal[n].monto \in Nat
    /\ LET base == UNION Rango(Base)
       IN  \A o \in Entradas(base) : o \in Salidas(base) \/ Antigua(o, base)
    /\ \A t \in Ajenas : \A o \in t.en : Dueno(o) \notin Direcciones
    /\ Importes \subseteq Nat \ {0} /\ Costos \subseteq Nat
    /\ MaxBloques \in Nat /\ MaxTransferencias \in Nat
    /\ MaxPercances \in Nat

VARIABLES
    bloques,        \* the chain; its blocks are in the directory
    mempool,        \* transactions that were sent to the network
    porEnviar,      \* blocks (at most one) written, whose event is not sent yet
    eventos,        \* the channel from the listener
    pc,             \* what the main thread does next
    leidos,         \* length of the chain when the directory was opened
    inputs,         \* result of obtain_inputs
    utxos,          \* the set of unspent outputs
    cuentas,        \* wallets.accounts
    previas,        \* the accounts to go back to if the save fails
    nueva,          \* the transfer that was just sent (a set of at most one)
    archivo,        \* accounts in the wallet file; empty if there is none
    roto,           \* the file ends in the middle of a line
    fallo,          \* a save failed in this life
    percances,      \* saves that failed and deaths so far
    hechas,         \* transfers so far
    vistas          \* transactions of the blocks processed in this life

red == <<bloques, mempool, porEnviar>>
inicio == <<leidos, inputs>>
disco == <<archivo, roto>>
cuentaBound == <<fallo, percances, hechas>>
vars == <<red, eventos, pc, inicio, utxos, cuentas, previas, nueva, disco,
          cuentaBound, vistas>>

Pasos == {"abrir", "inputs", "outputs", "cargar", "espera", "transmitida",
          "escribir", "caido"}

Enteras(n) == {bloques[i] : i \in 1..n}

\* The lists of an account, which are what is saved of it besides its name.
SinTxns == [sending |-> EmptyBag, sent |-> EmptyBag,
            receiving |-> EmptyBag, received |-> EmptyBag]
Listas(c) == [sending |-> c.sending, sent |-> c.sent,
              receiving |-> c.receiving, received |-> c.received]
Volcado(cs) == [c \in DOMAIN cs |-> Listas(cs[c])]

\* obtain_account_balance: the unspent outputs of an address.
Propios(us, c) == {o \in us : Dueno(o) = c}

\* What a transfer costs its sender: all it spends, less the change.
Gasto(t) == Suma(t.en) - (IF Len(t.sal) = 2 THEN t.sal[2].monto ELSE 0)

\* update_pending_balance, as a positive number.
Pendiente(sending) ==
    LET gasto(t) == sending[t] * Gasto(t)
    IN  MapThenSumSet(gasto, BagToSet(sending))

\* Variant: the account is added without its balance.
CuentaSinSaldo(c, us, listas) ==
    [utxos |-> {}, pendiente |-> 0,
     sending |-> listas.sending, sent |-> listas.sent,
     receiving |-> listas.receiving, received |-> listas.received]

\* agregar_account, with the lists that the file or nothing gives.
Cuenta(c, us, listas) ==
    [utxos |-> Propios(us, c), pendiente |-> 0,
     sending |-> listas.sending, sent |-> listas.sent,
     receiving |-> listas.receiving, received |-> listas.received]

Init ==
    /\ bloques = Base /\ mempool = {} /\ porEnviar = {} /\ eventos = << >>
    /\ pc = "abrir" /\ leidos = 0 /\ inputs = {} /\ utxos = {}
    /\ cuentas = << >> /\ previas = << >> /\ nueva = {}
    /\ archivo = [c \in Iniciales |-> SinTxns] /\ roto = FALSE
    /\ fallo = FALSE /\ percances = 0 /\ hechas = 0 /\ vistas = {}
-----------------------------------------------------------------------------
(* The network and the listener. *)

\* A block that the rest of the network accepts: transactions that were sent
\* or are of others, in no block yet, that spend nothing twice and only what is
\* unspent, their own block included, or older than the date of the chain.
BloquesPosibles ==
    LET impagos == Impagos(bloques)
        incluidas == UNION Rango(bloques)
        libres == (mempool \cup Ajenas) \ incluidas
    IN  {b \in (SUBSET libres) \ {{}} :
            /\ \A t, u \in b : t # u => t.en \cap u.en = {}
            /\ \A o \in Entradas(b) :
                  o \in impagos \/ o \in Salidas(b) \/ Antigua(o, incluidas)}

\* validar_bloque writes a block; without a process, it waits for the next one.
LlegaBloque ==
    /\ porEnviar = {} /\ Len(bloques) < MaxBloques
    /\ \E b \in BloquesPosibles :
          /\ bloques' = Append(bloques, b)
          /\ porEnviar' = IF pc = "caido" THEN {} ELSE {b}
    /\ UNCHANGED <<mempool, eventos, pc, inicio, utxos, cuentas, previas, nueva, disco,
                   cuentaBound, vistas>>

EnviarBloque ==
    /\ \E b \in porEnviar : eventos' = Append(eventos, [tipo |-> "bloque", bloque |-> b])
    /\ porEnviar' = {}
    /\ UNCHANGED <<bloques, mempool, pc, inicio, utxos, cuentas, previas, nueva, disco,
                   cuentaBound, vistas>>

\* recibir_transaccion, for a transaction of somebody else, announced once.
LlegaTxn ==
    /\ pc # "caido"
    /\ \E t \in Ajenas \ (mempool \cup UNION Rango(bloques)) :
          /\ mempool' = mempool \cup {t}
          /\ eventos' = Append(eventos, [tipo |-> "txn", txn |-> t])
    /\ UNCHANGED <<bloques, porEnviar, pc, inicio, utxos, cuentas, previas, nueva, disco,
                   cuentaBound, vistas>>
-----------------------------------------------------------------------------
(* The start: obtain_utxo and cargar_wallets_inicio. *)

\* Both readings of the directory are opened, and read later: they give what was
\* there when they were opened, and may give what came after.
AbrirDirectorio ==
    /\ pc = "abrir" /\ pc' = "inputs" /\ leidos' = Len(bloques)
    /\ UNCHANGED <<red, eventos, inputs, utxos, cuentas, previas, nueva, disco,
                   cuentaBound, vistas>>

Lecturas == {Enteras(leidos) \cup {bloques[i] : i \in extra} :
                extra \in SUBSET (leidos + 1..Len(bloques))}

LeerInputs ==
    /\ pc = "inputs" /\ pc' = "outputs"
    /\ \E l \in Lecturas : inputs' = ObtenerInputs(l)
    /\ UNCHANGED <<red, eventos, leidos, utxos, cuentas, previas, nueva, disco,
                   cuentaBound, vistas>>

LeerOutputs ==
    /\ pc = "outputs" /\ pc' = "cargar"
    /\ \E l \in Lecturas : utxos' = ObtenerUtxos(inputs, l)
    /\ inputs' = {} /\ leidos' = 0
    /\ UNCHANGED <<red, eventos, cuentas, previas, nueva, disco, cuentaBound, vistas>>

\* load, which does not survive half a line: the main thread panics.
Cargar ==
    /\ pc = "cargar" /\ ~roto /\ pc' = "espera"
    /\ cuentas' = [c \in DOMAIN archivo |-> Cuenta(c, utxos, archivo[c])]
    /\ UNCHANGED <<red, eventos, inicio, utxos, previas, nueva, disco, cuentaBound, vistas>>
-----------------------------------------------------------------------------
(* Saving the accounts. *)

\* An event that ends in a save changes the accounts first.  The events that
\* return the error of the save go back to the accounts of before.
CambiarYGuardar(cs, vuelta) == cuentas' = cs /\ previas' = vuelta /\ pc' = "escribir"

\* save removes the file, creates it again and writes it all.
Escribir ==
    /\ pc = "escribir" /\ pc' = "espera"
    /\ archivo' = Volcado(cuentas) /\ roto' = FALSE /\ previas' = << >>
    /\ UNCHANGED <<red, eventos, inicio, utxos, cuentas, nueva, cuentaBound, vistas>>

Percance == percances < MaxPercances /\ percances' = percances + 1

\* The file is removed and cannot be created: logged, and not an error.
FallaApertura ==
    /\ pc = "escribir" /\ pc' = "espera" /\ Percance
    /\ fallo' = TRUE /\ previas' = << >>
    /\ archivo' = << >> /\ roto' = FALSE
    /\ UNCHANGED <<red, eventos, inicio, utxos, cuentas, nueva, hechas, vistas>>

\* What is on disk if a save stops: the old file, if it was not removed yet, or
\* some of the accounts, and perhaps half a line.
GuardarAMedias ==
    \/ UNCHANGED disco
    \/ /\ \E s \in SUBSET DOMAIN cuentas : archivo' = [c \in s |-> Listas(cuentas[c])]
       /\ roto' \in BOOLEAN

\* The directory cannot be created, or a write fails.
FallaEscritura ==
    /\ pc = "escribir" /\ pc' = "espera" /\ Percance
    /\ GuardarAMedias
    /\ cuentas' = previas /\ previas' = << >> /\ fallo' = TRUE
    /\ UNCHANGED <<red, eventos, inicio, utxos, nueva, hechas, vistas>>
-----------------------------------------------------------------------------
(* The events of the user. *)

\* evento_agregar_wallet
AgregarWallet ==
    /\ pc = "espera"
    /\ \E c \in Direcciones \ DOMAIN cuentas :
          LET cs == [d \in DOMAIN cuentas \cup {c} |->
                        IF d = c THEN Cuenta(c, utxos, SinTxns) ELSE cuentas[d]]
          IN  CambiarYGuardar(cs, cs)
    /\ UNCHANGED <<red, eventos, inicio, utxos, nueva, disco, cuentaBound, vistas>>

\* evento_cargar_wallet
CargarWallet ==
    /\ pc = "espera"
    /\ \E c \in DOMAIN cuentas :
          cuentas' = [cuentas EXCEPT ![c].utxos = Propios(utxos, c),
                                     ![c].pendiente = Pendiente(cuentas[c].sending)]
    /\ UNCHANGED <<red, eventos, pc, inicio, utxos, previas, nueva, disco, cuentaBound, vistas>>

\* calcular_inputs_outputs takes the first output that is enough; if none is,
\* it takes one after another until the sum is.  The order is that of a HashMap.
Selecciones(us, total) ==
    LET solos == {o \in us : Monto(o) >= total}
    IN  IF solos # {} THEN {{o} : o \in solos}
        ELSE {s \in SUBSET us : /\ Suma(s) >= total
                                /\ \E o \in s : Suma(s \ {o}) < total}

Vuelto(gastados, importe, costo) == Suma(gastados) - (importe + costo)

\* Txn::new: the payment, and the change if there is any.  The lock time, in
\* seconds, tells apart two transfers that are otherwise the same.
Transaccion(c, gastados, destino, importe, costo, hora) ==
    LET vuelto == Vuelto(gastados, importe, costo)
        pago == <<[dest |-> destino, monto |-> importe]>>
    IN  [en |-> gastados, hora |-> hora,
         sal |-> IF vuelto > 0 THEN Append(pago, [dest |-> c, monto |-> vuelto]) ELSE pago]

\* evento_realizar_trx: generar_txn and broadcast_txn.  An error of either is
\* logged and changes nothing.
Transmitir ==
    /\ pc = "espera" /\ hechas < MaxTransferencias /\ pc' = "transmitida"
    /\ \E c \in DOMAIN cuentas, d \in Destinos,
          i \in Importes, k \in Costos, hora \in {h \in 0..hechas : hechas <= h + 1} :
          /\ Suma(cuentas[c].utxos) >= i + k
          /\ \E gastados \in Selecciones(cuentas[c].utxos, i + k) :
                nueva' = {[de |-> c, a |-> d, importe |-> i, costo |-> k,
                           txn |-> Transaccion(c, gastados, d, i, k, hora)]}
    /\ mempool' = mempool \cup {n.txn : n \in nueva'}
    /\ hechas' = hechas + 1
    /\ UNCHANGED <<bloques, porEnviar, eventos, inicio, utxos, cuentas, previas, disco,
                   fallo, percances, vistas>>

\* The rest of evento_realizar_trx: pending for the sender and, if it is an
\* account of this wallet, for the receiver; then save, whose error is ignored.
AnotarTransferencia ==
    /\ pc = "transmitida" /\ nueva' = {}
    /\ \E n \in nueva :
          LET uno == SetToBag({n.txn})
              conEnvio == [cuentas EXCEPT
                              ![n.de].sending = @ (+) uno,
                              ![n.de].pendiente = Pendiente(cuentas[n.de].sending (+) uno)]
              cs == IF n.a \in DOMAIN cuentas
                    THEN [conEnvio EXCEPT ![n.a].receiving = @ (+) uno] ELSE conEnvio
          IN  CambiarYGuardar(cs, cs)
    /\ UNCHANGED <<red, eventos, inicio, utxos, disco, cuentaBound, vistas>>
-----------------------------------------------------------------------------
(* The events of the listener. *)

\* How many outputs of a transaction go to an address.
CantSalidas(t, c) == Cardinality({n \in DOMAIN t.sal : t.sal[n].dest = c})

\* Variant: the accounts are changed in memory and not saved.
RecibirTxnSinGuardar ==
    /\ pc = "espera" /\ eventos # << >> /\ Head(eventos).tipo = "txn"
    /\ eventos' = Tail(eventos)
    /\ LET t == Head(eventos).txn
           tocadas == {c \in DOMAIN cuentas : CantSalidas(t, c) > 0}
       IN  cuentas' = [c \in DOMAIN cuentas |->
                          IF c \in tocadas
                          THEN [cuentas[c] EXCEPT !.receiving =
                                   @ (+) [u \in {t} |-> CantSalidas(t, c)]]
                          ELSE cuentas[c]]
    /\ UNCHANGED <<red, pc, inicio, utxos, previas, nueva, disco, cuentaBound, vistas>>

\* evento_recibir_txn: one entry for each output to an account.
RecibirTxn ==
    /\ pc = "espera" /\ eventos # << >> /\ Head(eventos).tipo = "txn"
    /\ eventos' = Tail(eventos)
    /\ LET t == Head(eventos).txn
           tocadas == {c \in DOMAIN cuentas : CantSalidas(t, c) > 0}
           cs == [c \in DOMAIN cuentas |->
                     IF c \in tocadas
                     THEN [cuentas[c] EXCEPT !.receiving = @ (+) [u \in {t} |-> CantSalidas(t, c)]]
                     ELSE cuentas[c]]
       IN  IF tocadas = {} THEN UNCHANGED <<cuentas, previas, pc>>
           ELSE CambiarYGuardar(cs, cuentas)
    /\ UNCHANGED <<red, inicio, utxos, nueva, disco, cuentaBound, vistas>>

\* Variant: one call for each transaction, and not for each of its outputs.
MovidasUnaVez(lista, b, c) ==
    [t \in {t \in b \cap BagToSet(lista) : CantSalidas(t, c) > 0} |-> 1]

\* update_sending_txn and update_receiving_txn, called once for each output of
\* the block to the account, move the first entry of the transaction, if any.
Movidas(lista, b, c) ==
    LET ts == {t \in b \cap BagToSet(lista) : CantSalidas(t, c) > 0}
        cant(t) == IF CantSalidas(t, c) < lista[t] THEN CantSalidas(t, c) ELSE lista[t]
    IN  [t \in ts |-> cant(t)]

\* Variant: the pending balance goes down by what was confirmed.
PendienteTrasResta(cuenta, envios, pagada) == cuenta.pendiente - Pendiente(envios)

PendienteTras(cuenta, envios, pagada) ==
    IF pagada THEN Pendiente(cuenta.sending (-) envios) ELSE cuenta.pendiente

\* An account after a block: its balance, its lists, its pending balance.
CuentaTrasBloque(cuenta, c, b, us) ==
    LET envios == Movidas(cuenta.sending, b, c)
        cobros == Movidas(cuenta.receiving, b, c)
    IN  [utxos |-> Propios(us, c),
         sending |-> cuenta.sending (-) envios, sent |-> cuenta.sent (+) envios,
         receiving |-> cuenta.receiving (-) cobros, received |-> cuenta.received (+) cobros,
         pendiente |-> PendienteTras(cuenta, envios, \E t \in b : CantSalidas(t, c) > 0)]

\* update_utxo and evento_recibir_bloque, which saves if the block pays anyone.
RecibirBloque ==
    /\ pc = "espera" /\ eventos # << >> /\ Head(eventos).tipo = "bloque"
    /\ eventos' = Tail(eventos)
    /\ LET b == Head(eventos).bloque
           us == Actualizar(utxos, b)
           cs == [c \in DOMAIN cuentas |-> CuentaTrasBloque(cuentas[c], c, b, us)]
       IN  /\ utxos' = us
           /\ vistas' = vistas \cup b
           /\ IF \E t \in b, c \in DOMAIN cuentas : CantSalidas(t, c) > 0
              THEN CambiarYGuardar(cs, cuentas)
              ELSE cuentas' = cs /\ UNCHANGED <<previas, pc>>
    /\ UNCHANGED <<red, inicio, nueva, disco, cuentaBound>>
-----------------------------------------------------------------------------
(* The end of the process, and the next one. *)

\* The memory of the process is lost.
Terminar ==
    /\ pc' = "caido" /\ porEnviar' = {} /\ eventos' = << >>
    /\ leidos' = 0 /\ inputs' = {} /\ utxos' = {} /\ cuentas' = << >> /\ previas' = << >>
    /\ nueva' = {} /\ fallo' = FALSE /\ vistas' = {}

\* The process is killed or closed.  In the middle of a save, part is on disk.
Caer ==
    /\ pc # "caido" /\ Percance
    /\ Terminar
    /\ IF pc = "escribir" THEN GuardarAMedias ELSE UNCHANGED disco
    /\ UNCHANGED <<bloques, mempool, hechas>>

\* load finds half a line and indexes past its end.
CargarRoto ==
    /\ pc = "cargar" /\ roto
    /\ Terminar
    /\ UNCHANGED <<bloques, mempool, disco, percances, hechas>>

\* The next start downloads the blocks it lacks, and then obtains the outputs.
Reiniciar ==
    /\ pc = "caido" /\ pc' = "abrir"
    /\ UNCHANGED <<red, eventos, inicio, utxos, cuentas, previas, nueva, disco,
                   cuentaBound, vistas>>

Next ==
    \/ LlegaBloque \/ EnviarBloque \/ LlegaTxn
    \/ AbrirDirectorio \/ LeerInputs \/ LeerOutputs \/ Cargar \/ CargarRoto
    \/ AgregarWallet \/ CargarWallet \/ Transmitir \/ AnotarTransferencia
    \/ RecibirTxn \/ RecibirBloque
    \/ Escribir \/ FallaApertura \/ FallaEscritura
    \/ Caer \/ Reiniciar

Spec == Init /\ [][Next]_vars
-----------------------------------------------------------------------------
(* Properties. *)

Corriendo == pc \in {"espera", "transmitida", "escribir"}

EsBolsa(l) == IsABag(l) /\ BagToSet(l) \subseteq mempool
TiposListas(l) == /\ EsBolsa(l.sending) /\ EsBolsa(l.sent)
                  /\ EsBolsa(l.receiving) /\ EsBolsa(l.received)

\* Every variable keeps its type, and the lists hold transactions of the network.
TypeOK ==
    /\ pc \in Pasos /\ leidos \in 0..Len(bloques)
    /\ Cardinality(porEnviar) <= 1 /\ Cardinality(nueva) <= 1
    /\ porEnviar \subseteq Rango(bloques)
    /\ inputs \subseteq Entradas(UNION Rango(bloques))
    /\ utxos \subseteq Salidas(UNION Rango(bloques))
    /\ DOMAIN cuentas \subseteq Direcciones /\ DOMAIN archivo \subseteq Direcciones
    /\ \A c \in DOMAIN cuentas :
          /\ cuentas[c].pendiente \in Nat /\ cuentas[c].utxos \subseteq Salidas(UNION Rango(bloques))
          /\ TiposListas(cuentas[c])
    /\ \A c \in DOMAIN archivo : TiposListas(archivo[c])
    /\ roto \in BOOLEAN
    /\ fallo \in BOOLEAN /\ percances \in 0..MaxPercances /\ hechas \in 0..MaxTransferencias

\* The set at the start is read while the listener writes, twice and at different
\* times (obtain_utxo); the events sent meanwhile are applied over it (update_utxo).
\* However they interleave, once the queued blocks are applied the set is that of
\* the chain.
UtxosConvergen ==
    pc = "cargar" \/ Corriendo =>
        LET us[i \in 0..Len(eventos)] ==
                IF i = 0 THEN utxos
                ELSE IF eventos[i].tipo = "bloque" THEN Actualizar(us[i - 1], eventos[i].bloque)
                ELSE us[i - 1]
            final == us[Len(eventos)]
        IN  (IF porEnviar = {} THEN final ELSE Actualizar(final, CHOOSE b \in porEnviar : TRUE))
              = Impagos(bloques)

\* While no save has failed, every account has exactly its outputs of the set,
\* and the pending balance of what it has sent, unless it was loaded from the
\* file and nothing has touched it since (obtain_account_balance,
\* update_pending_balance).
SaldosAlDia ==
    Corriendo /\ ~fallo => \A c \in DOMAIN cuentas :
        /\ cuentas[c].utxos = Propios(utxos, c)
        /\ cuentas[c].pendiente \in {0, Pendiente(cuentas[c].sending)}

\* A transfer that has its change in a block the wallet has processed is among
\* the ones that were made, and no payment of a processed block is still pending,
\* unless it is entered twice (evento_recibir_bloque).
ConfirmadaSeAnota ==
    ~fallo => \A c \in DOMAIN cuentas : \A t \in vistas :
        /\ CantSalidas(t, c) > 0 /\ BagIn(t, cuentas[c].sending) => BagIn(t, cuentas[c].sent)
        /\ t \in Ajenas => ~BagIn(t, cuentas[c].receiving)

\* At rest, if no save has failed, the file has what the memory has: what the
\* wallet knows does not depend on when the process ends (save).
ArchivoAlDia ==
    pc \in {"espera", "transmitida"} /\ ~fallo =>
        archivo = Volcado(cuentas) /\ ~roto

\* evento_recibir_bloque: if a transaction of the new block belongs to one of the
\* accounts, its lists are updated; what an account has sent and is in a block is
\* not pending.
EnviadaSeConfirma ==
    ~fallo => \A c \in DOMAIN cuentas : \A t \in vistas : ~BagIn(t, cuentas[c].sending)
=============================================================================
