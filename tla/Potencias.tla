------------------------------- MODULE Potencias -------------------------------
(***************************************************************************)
(* Powers as a recursive function: the exponentiation of Naturals has no   *)
(* facts that the provers know.                                            *)
(***************************************************************************)
EXTENDS Naturals

\* b raised to n
Potencia(b, n) ==
    LET potencia[i \in 0..n] == IF i = 0 THEN 1 ELSE b * potencia[i - 1]
    IN  potencia[n]
=============================================================================
