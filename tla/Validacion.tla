------------------------------ MODULE Validacion ------------------------------
(***************************************************************************)
(* What the listener does with the bytes of a block before it stores it:   *)
(* it parses them, checks the proof of work and the Merkle root; and the   *)
(* Merkle path that the window shows of a transaction of a stored block.   *)
(* Code: src/src/serialized_block.rs, block_validation.rs, validar_bloque  *)
(* of node.rs, definir_logica_merkle_proof of gui.rs.                      *)
(*                                                                         *)
(* One step is one turn of a loop or of a recursion.  Listener has the     *)
(* verdict as a constant; here it is computed.  A panic ends the thread.   *)
(* The list of transactions is never empty: of an empty one the recursion  *)
(* over the levels would not end.                                          *)
(***************************************************************************)
EXTENDS Transaccion, ProofOfWork, Merkle, FiniteSets

CONSTANTS
    Recibidos,  \* the blocks that may arrive
    Buscadas    \* the transactions whose path may be asked for

\* A block has what the code looks at of its header, the bytes after the header, and what its sender
\* wrote in them, which the code does not see: the transactions, and how many bytes too many.
ASSUME ValidacionAssumption ==
    \A r \in Recibidos :
        /\ r.n_bits.exponente \in Nat /\ r.n_bits.mantisa \in 0..Tope(3) - 1
        /\ r.hash \in 0..Tope(LargoTarget) - 1
        /\ r.bytes \in Seq(0..Base - 1)
        /\ r.txns # << >> /\ \A i \in DOMAIN r.txns : r.txns[i].tx_out # << >>
        /\ r.sobrantes \in Nat

\* The bytes are those of what their sender wrote, and as many more as it says.
BienFormados ==
    \A r \in Recibidos :
        /\ r.txns \in Cortas(Transacciones)
        /\ IsPrefix(Escrito(r.txns), r.bytes)
        /\ Len(r.bytes) = Len(Escrito(r.txns)) + r.sobrantes

VARIABLES
    bloque,     \* the one that arrived
    pc,         \* what comes next, or how it ended
    indice,     \* of the bytes, how many are read
    cantidad,   \* txn_count
    txns,       \* the transactions read
    nivel,      \* a level of the tree of proof_of_inclusion
    buscada,    \* the transaction whose path is asked for
    arbol,      \* the levels of the tree of merkle_proof
    posicion,   \* indice_tx, from 0
    prueba,     \* the path
    raiz        \* merkle_root, of the path

leido == <<indice, cantidad, txns>>
camino == <<buscada, arbol, posicion, prueba, raiz>>
vars == <<bloque, pc, leido, nivel, camino>>

Nada == << >>
Rechazos == {"panico", "error", "rechazado"}
PasosDeLaPrueba == {"arbol", "buscar", "subir", "plegar", "mostrada"}

Init ==
    /\ bloque \in Recibidos /\ pc = "cantidad"
    /\ indice = 0 /\ cantidad = 0 /\ txns = << >> /\ nivel = << >>
    /\ buscada = Nada /\ arbol = << >> /\ posicion = 0 /\ prueba = << >> /\ raiz = Nada
-----------------------------------------------------------------------------
(* SerializedBlock::from_bytes *)

LeerCantidad ==
    /\ pc = "cantidad"
    /\ LET n == LeerNumero(bloque.bytes, 0) IN
          /\ cantidad' = n.valor
          /\ indice' = n.indice /\ pc' = IF n.indice = Fuera THEN "panico" ELSE "txn"
    /\ UNCHANGED <<bloque, txns, nivel, camino>>

LeerTxn ==
    /\ pc = "txn" /\ Len(txns) < cantidad
    /\ LET leida == FromBytes(bloque.bytes, indice) IN
          /\ indice' = leida.indice
          /\ IF leida.indice = Fuera THEN pc' = "panico" /\ UNCHANGED txns
             ELSE txns' = Append(txns, leida.txn) /\ UNCHANGED pc
    /\ UNCHANGED <<bloque, cantidad, nivel, camino>>

\* Nothing may follow the last transaction.
TerminarLectura ==
    /\ pc = "txn" /\ Len(txns) = cantidad
    /\ pc' = IF indice = Len(bloque.bytes) THEN "trabajo" ELSE "error"
    /\ UNCHANGED <<bloque, leido, nivel, camino>>
-----------------------------------------------------------------------------
(* validar_bloque *)

ProbarTrabajo ==
    /\ pc = "trabajo"
    /\ IF ~ExponenteUtil(bloque.n_bits) THEN pc' = "panico" /\ UNCHANGED nivel
       ELSE IF Cumple(bloque.n_bits, BeBytes(bloque.hash, LargoTarget))
       THEN pc' = "inclusion" /\ nivel' = Txids(txns)
       ELSE pc' = "rechazado" /\ UNCHANGED nivel
    /\ UNCHANGED <<bloque, leido, camino>>

\* generar_merkle_tree_root_hash: a call of it
ReducirNivel ==
    /\ pc = "inclusion" /\ Len(nivel) # 1
    /\ nivel' = Padres(Completar(nivel))
    /\ UNCHANGED <<bloque, pc, leido, camino>>

\* the end of proof_of_inclusion, and the verdict
CompararRaiz ==
    /\ pc = "inclusion" /\ Len(nivel) = 1
    /\ pc' = IF nivel[1] = bloque.raiz THEN "aceptado" ELSE "rechazado"
    /\ UNCHANGED <<bloque, leido, nivel, camino>>
-----------------------------------------------------------------------------
(* merkle_proof, which takes any transaction; the window asks it for those *)
(* of the block.                                                           *)

PedirPrueba(t) ==
    /\ pc = "aceptado" /\ pc' = "arbol"
    /\ buscada' = t /\ arbol' = <<Txids(txns)>>
    /\ UNCHANGED <<bloque, leido, nivel, posicion, prueba, raiz>>

\* generar_niveles_arbol: a call of it, which completes the level in the tree too
CrecerArbol ==
    /\ pc = "arbol" /\ Len(Last(arbol)) # 1
    /\ LET lleno == Completar(Last(arbol)) IN
          arbol' = Append([arbol EXCEPT ![Len(arbol)] = lleno], Padres(lleno))
    /\ UNCHANGED <<bloque, pc, leido, nivel, buscada, posicion, prueba, raiz>>

Lado(par) == IF par % 2 = 0 THEN "left" ELSE "right"

Buscar ==
    /\ pc = "arbol" /\ Len(Last(arbol)) = 1
    /\ LET lugares == {i \in DOMAIN arbol[1] : arbol[1][i] = Txid(buscada)} IN
          IF lugares = {} THEN pc' = "plegar" /\ UNCHANGED <<posicion, prueba>>
          ELSE /\ pc' = "subir"
               /\ posicion' = Min(lugares) - 1
               /\ prueba' = <<[hash |-> Txid(buscada), lado |-> Lado(posicion')]>>
    /\ UNCHANGED <<bloque, leido, nivel, buscada, arbol, raiz>>

\* The level of the next hash: one was added at each level.
Piso == Len(prueba)

\* Variant: the sides are those of the node, not of its sibling.
SubirAlReves ==
    /\ pc = "subir" /\ Piso < Len(arbol)
    /\ LET izquierdo == posicion % 2 = 0
           hermano == IF izquierdo THEN posicion + 1 ELSE posicion - 1
       IN  prueba' = Append(prueba, [hash |-> arbol[Piso][hermano + 1], lado |-> Lado(posicion)])
    /\ posicion' = posicion \div 2
    /\ UNCHANGED <<bloque, pc, leido, nivel, buscada, arbol, raiz>>

\* Variant: it goes up from the root too.
SubirDeMas ==
    /\ pc = "subir" /\ Piso <= Len(arbol)
    /\ LET izquierdo == posicion % 2 = 0
           hermano == IF izquierdo THEN posicion + 1 ELSE posicion - 1
       IN  prueba' = Append(prueba, [hash |-> arbol[Piso][(hermano % Len(arbol[Piso])) + 1],
                                     lado |-> IF izquierdo THEN "right" ELSE "left"])
    /\ posicion' = posicion \div 2
    /\ UNCHANGED <<bloque, pc, leido, nivel, buscada, arbol, raiz>>

Subir ==
    /\ pc = "subir" /\ Piso < Len(arbol)
    /\ LET izquierdo == posicion % 2 = 0
           hermano == IF izquierdo THEN posicion + 1 ELSE posicion - 1
       IN  prueba' = Append(prueba, [hash |-> arbol[Piso][hermano + 1],
                                     lado |-> IF izquierdo THEN "right" ELSE "left"])
    /\ posicion' = posicion \div 2
    /\ UNCHANGED <<bloque, pc, leido, nivel, buscada, arbol, raiz>>

Llegar ==
    /\ pc = "subir" /\ Piso = Len(arbol) /\ pc' = "plegar"
    /\ UNCHANGED <<bloque, leido, nivel, camino>>

Mostrar ==
    /\ pc = "plegar" /\ pc' = "mostrada"
    /\ raiz' = Plegar(prueba)
    /\ UNCHANGED <<bloque, leido, nivel, buscada, arbol, posicion, prueba>>
-----------------------------------------------------------------------------
Next ==
    \/ LeerCantidad \/ LeerTxn \/ TerminarLectura
    \/ ProbarTrabajo \/ ReducirNivel \/ CompararRaiz
    \/ \E t \in Buscadas : PedirPrueba(t)
    \/ CrecerArbol \/ Buscar \/ Subir \/ Llegar \/ Mostrar

Spec == Init /\ [][Next]_vars
-----------------------------------------------------------------------------
(* Properties. *)

\* The indices stay inside of what they index: the bytes, the count of transactions, the levels of the
\* tree; and no hash below the root is without the other of its pair (generar_niveles_arbol, merkle_proof).
TypeOK ==
    /\ pc \in {"cantidad", "txn", "trabajo", "inclusion", "aceptado"} \cup Rechazos \cup PasosDeLaPrueba
    /\ pc # "panico" => indice \in 0..Len(bloque.bytes)
    /\ cantidad \in Nat /\ Len(txns) <= cantidad
    /\ \A k \in 1..Len(arbol) - 1 : Len(arbol[k]) % 2 = 0
    /\ Piso <= Len(arbol) /\ (pc = "subir" => posicion < Len(arbol[Piso]))

\* The work, with numbers: the hash is below mantissa * Base^(exponent - 3).
Trabaja ==
    /\ ExponenteUtil(bloque.n_bits)
    /\ bloque.hash < bloque.n_bits.mantisa * Tope(Desplazamiento(bloque.n_bits))

Incluye == bloque.raiz = RaizDe(bloque.txns)

\* From the length of the last script of the block on there are Mirada bytes.
SePuedeLeer ==
    LET script == Last(Last(bloque.txns).tx_out) IN
    Len(Nuevo(Len(script))) + Len(script) + 4 + bloque.sobrantes >= Mirada

\* A block is accepted if and only if its hash is below its target and its root is that of the
\* transactions that its sender wrote, and then these are the ones read, however long their scripts
\* are; what keeps it from being looked at is an exponent out of range, bytes after its end, or a last
\* script too short for the slice that its length is read from (SerializedBlock::from_bytes,
\* proof_of_work, proof_of_inclusion).
AceptaLosValidos ==
    CASE pc = "rechazado" -> ~Trabaja \/ ~Incluye
      [] pc = "error"     -> bloque.sobrantes > 0
      [] pc = "panico"    -> ~ExponenteUtil(bloque.n_bits) \/ ~SePuedeLeer
      [] pc \in {"aceptado"} \cup PasosDeLaPrueba ->
            Trabaja /\ Incluye /\ txns = bloque.txns /\ bloque.sobrantes = 0
      [] OTHER -> TRUE

\* At each level the path leads from the transaction to the node above it, and at the end to the
\* root that the header declares; there is no path for a transaction that was not read of the block
\* (merkle_proof, generar_merkle_root_con_merkle_proof).
CaminoCorrecto ==
    /\ pc = "subir" => Plegar(prueba) = arbol[Piso][posicion + 1]
    /\ pc = "mostrada" => raiz = IF buscada \in Range(txns) THEN bloque.raiz ELSE Nada

\* node.rs: "Si el bloque cumple la POW y la POI, se agrega a la blockchain local".
SiCumpleSeAgrega == Trabaja /\ Incluye => pc # "panico"
=============================================================================
