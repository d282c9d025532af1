-------------------------------- MODULE Utxo --------------------------------
(***************************************************************************)
(* The set of unspent outputs: how it is built from the blocks directory   *)
(* and brought up to date with each new block (src/src/utxo.rs).           *)
(*                                                                         *)
(* A transaction is a record with the outputs it spends (en) and those it  *)
(* creates (sal), each with a destination and an amount; the hash of a     *)
(* transaction is the transaction itself.  An output is named by the pair  *)
(* of its transaction and its position in it.  A block is a set of         *)
(* transactions: nothing here depends on their order.                      *)
(***************************************************************************)
EXTENDS Naturals, Sequences, FiniteSets, FiniteSetsExt

Entradas(bloque) == UNION {t.en : t \in bloque}
Salidas(bloque) == UNION {{<<t, n>> : n \in DOMAIN t.sal} : t \in bloque}

Dueno(o) == o[1].sal[o[2]].dest
Monto(o) == o[1].sal[o[2]].monto
Suma(outputs) == MapThenSumSet(Monto, outputs)

\* obtain_inputs, over the blocks that one reading of the directory gives.
ObtenerInputs(leidos) == Entradas(UNION leidos)

\* obtain_utxos_from: the outputs of another reading that no input spends.
ObtenerUtxos(inputs, leidos) == Salidas(UNION leidos) \ inputs

\* Variant: the inputs are matched before the new outputs are in the set.
ActualizarAntes(utxos, bloque) == (utxos \ Entradas(bloque)) \cup Salidas(bloque)

\* update_utxo: the outputs of the block are added, and what it spends removed.
Actualizar(utxos, bloque) == (utxos \cup Salidas(bloque)) \ Entradas(bloque)

\* What the set must be for a chain of blocks: all the outputs that none of
\* its transactions spends.
Impagos(cadena) == LET todos == UNION {cadena[i] : i \in DOMAIN cadena}
                   IN  Salidas(todos) \ Entradas(todos)
=============================================================================
