----------------------------- MODULE MCValidacion -----------------------------
(* Instances of Validacion for TLC. *)
EXTENDS Validacion

T(n, entrada, salida) ==
    [version |-> n, tx_in |-> <<Relleno(entrada)>>, tx_out |-> <<Relleno(salida)>>]
Simple(n) == T(n, 1, 7)
Simples(ns) == [i \in DOMAIN ns |-> Simple(ns[i])]

Recibido(exponente, mantisa, hash, escritas, declarada, sobrantes) ==
    [n_bits |-> [exponente |-> exponente, mantisa |-> mantisa], hash |-> hash,
     raiz |-> RaizDe(declarada), txns |-> escritas, sobrantes |-> sobrantes,
     bytes |-> Escrito(escritas) \o Relleno(sobrantes)]

\* Around each target, and the extremes.
Hashes(e, m) ==
    {0, Tope(LargoTarget) - 1} \cup
    (IF e \in 3..LargoTarget
     THEN {h \in {m * Tope(e - 3) + d : d \in -1..1} : h \in 0..Tope(LargoTarget) - 1} ELSE {})

PorTrabajo ==
    UNION {{Recibido(e, m, h, <<Simple(1)>>, <<Simple(1)>>, 0) : h \in Hashes(e, m)} :
           e \in 0..LargoTarget + 1, m \in {0, 1, Base - 1, Base, Tope(2), Tope(3) - 1}}

Listas == {[i \in 1..n |-> i] : n \in 1..9} \cup
          {<<1, 1>>, <<1, 2, 2>>, <<1, 2, 3, 3>>, <<1, 2, 1, 2>>, <<1, 2, 3, 1, 2, 3>>}

Buen(escritas, declarada, sobrantes) == Recibido(4, 1, 0, escritas, declarada, sobrantes)

PorRaiz == {Buen(Simples(l), Simples(d), 0) : l \in Listas, d \in {<<1>>, <<1, 2>>, <<1, 2, 3>>, <<2, 1, 3>>}}
           \cup {Buen(Simples(l), Simples(l), s) : l \in Listas, s \in {0, 1}}

Largos == {0, 1, 2, 3, 5, Tope(2) - 1, Tope(2), Tope(4) - 1, Tope(4)}

PorScript == UNION {{Buen(<<T(1, e, s)>>, <<T(1, e, s)>>, 0),
                     Buen(<<T(1, e, s), Simple(2)>>, <<T(1, e, s), Simple(2)>>, 0)} :
                    e \in {0, Tope(2)}, s \in Largos}

RecibidosMC == PorTrabajo \cup PorRaiz \cup PorScript
\* The theorem about AceptaLosValidos is of blocks like these.
ASSUME RecibidosBienFormados == BienFormados

BuscadasMC == {Simple(n) : n \in {1, 2, 3, 5, 8, 9}}
=============================================================================
