--------------------------------- MODULE Merkle ---------------------------------
(***************************************************************************)
(* The Merkle tree of a block: a level from the one below it, and the fold *)
(* of a path.  Code: src/src/block_validation.rs.                          *)
(*                                                                         *)
(* The hash is injective, so a hash stands for what was hashed: <<t>> for  *)
(* a transaction, <<l, r>> for the concatenation of two hashes.            *)
(***************************************************************************)
EXTENDS Potencias, Sequences, SequencesExt

Txid(t) == <<t>>
Txids(txns) == [i \in DOMAIN txns |-> Txid(txns[i])]

\* Variant: the hash repeated is the first one.
CompletarConElPrimero(nivel) == IF Len(nivel) % 2 # 0 THEN Append(nivel, nivel[1]) ELSE nivel

\* A level of odd length repeats its last hash.
Completar(nivel) == IF Len(nivel) % 2 # 0 THEN Append(nivel, Last(nivel)) ELSE nivel

\* The hashes of the pairs of a level of even length.
Padres(nivel) == [i \in 1..Len(nivel) \div 2 |-> <<nivel[2 * i - 1], nivel[2 * i]>>]

\* A path is a sequence of hashes with the side they are on; the first one is where it starts.
\* generar_merkle_root_con_merkle_proof
Plegar(prueba) ==
    LET hasta[i \in 0..Len(prueba)] ==
            IF i = 0 THEN << >>
            ELSE IF i = 1 THEN prueba[1].hash
            ELSE IF prueba[i].lado = "right" THEN <<hasta[i - 1], prueba[i].hash>>
            ELSE <<prueba[i].hash, hasta[i - 1]>>
    IN  hasta[Len(prueba)]
-----------------------------------------------------------------------------
(* The reference: the tree read from its root.  At height h there are      *)
(* ceil(n / 2^h) nodes; the second child of one is the first again when    *)
(* there is no other.                                                      *)

Nodos(n, h) == (n + Potencia(2, h) - 1) \div Potencia(2, h)

Altura(n) == CHOOSE h \in 0..n : Nodos(n, h) = 1 /\ \A k \in 0..h - 1 : Nodos(n, k) > 1

RaizDe(txns) ==
    LET n == Len(txns)
        fila[h \in 0..n] ==
            [i \in 0..Nodos(n, h) - 1 |->
                IF h = 0 THEN Txid(txns[i + 1])
                ELSE LET hijos == fila[h - 1] IN
                     <<hijos[2 * i],
                       IF 2 * i + 1 < Nodos(n, h - 1) THEN hijos[2 * i + 1] ELSE hijos[2 * i]>>]
    IN  fila[Altura(n)][0]
=============================================================================
