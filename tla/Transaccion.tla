------------------------------ MODULE Transaccion ------------------------------
(***************************************************************************)
(* The layout of a transaction in a message or in the file of a block.     *)
(* Code: src/src/txn.rs, txin.rs, txout.rs (as_bytes and from_bytes).      *)
(*                                                                         *)
(* A transaction is its version and the scripts of its inputs and outputs. *)
(* The other fields have a fixed length and are zeros here.  A reader has  *)
(* an index, the number of bytes behind it; Fuera is the panic of a slice  *)
(* that ends beyond the bytes there are.  To read a compact size the code  *)
(* always takes a slice of Mirada bytes, however few the number has.       *)
(***************************************************************************)
EXTENDS CompactSize, Integers, SequencesExt

Mirada == 10
Fuera == -1

Relleno(n) == [i \in 1..n |-> 0]

ScriptsAsBytes(scripts, antes, despues) ==
    Nuevo(Len(scripts)) \o FlattenSeq([i \in DOMAIN scripts |->
        Relleno(antes) \o Nuevo(Len(scripts[i])) \o scripts[i] \o Relleno(despues)])

\* Txn::as_bytes: version, inputs, outputs and lock time.
AsBytes(t) == LeBytes(t.version, 4) \o ScriptsAsBytes(t.tx_in, 36, 4)
                                    \o ScriptsAsBytes(t.tx_out, 8, 0) \o Relleno(4)

\* The bytes of a block after its header.
Escrito(txns) == Nuevo(Len(txns)) \o FlattenSeq([i \in DOMAIN txns |-> AsBytes(txns[i])])

\* What can be written: a number has its four or eight bytes, and a length those of a compact size.
Digitos == 0..Base - 1
Cortas(S) == {s \in Seq(S) : Len(s) < Tope(8)}
Transacciones ==
    [version : 0..Tope(4) - 1,
     tx_in   : Cortas(Cortas(Digitos)),      \* the scripts
     tx_out  : Cortas(Cortas(Digitos))]

\* Skips n bytes.
Pasar(b, i, n) == IF i = Fuera \/ i + n > Len(b) THEN Fuera ELSE i + n

LeerNumero(b, i) ==
    IF Pasar(b, i, Mirada) = Fuera THEN [valor |-> 0, indice |-> Fuera]
    ELSE LET leido == ParseFromByteArray(SubSeq(b, i + 1, i + Mirada))
         IN  [valor |-> Valor(leido.numero), indice |-> i + leido.bytes]

\* TxIn::from_bytes (36 bytes before the script, 4 after) and TxOut::from_bytes (8 and 0)
LeerScript(b, i, antes, despues) ==
    LET largo == LeerNumero(b, Pasar(b, i, antes))
        fin   == Pasar(b, largo.indice, largo.valor)
    IN  [script |-> IF fin = Fuera THEN << >> ELSE SubSeq(b, largo.indice + 1, fin),
         indice |-> Pasar(b, fin, despues)]

LeerScripts(b, i, antes, despues) ==
    LET cuantos == LeerNumero(b, i)
        hasta[k \in 0..cuantos.valor] ==
            IF k = 0 THEN [scripts |-> << >>, indice |-> cuantos.indice]
            ELSE LET uno == LeerScript(b, hasta[k - 1].indice, antes, despues)
                 IN  [scripts |-> Append(hasta[k - 1].scripts, uno.script), indice |-> uno.indice]
    IN  hasta[cuantos.valor]

\* Txn::from_bytes: the transaction that starts at the index, and the index after it.
FromBytes(b, i) ==
    LET entradas == LeerScripts(b, Pasar(b, i, 4), 36, 4)
        salidas  == LeerScripts(b, entradas.indice, 8, 0)
    IN  [txn |-> [version |-> DeLe(SubSeq(b, i + 1, i + 4)),
                  tx_in |-> entradas.scripts, tx_out |-> salidas.scripts],
         indice |-> Pasar(b, salidas.indice, 4)]
=============================================================================
