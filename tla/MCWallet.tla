------------------------------ MODULE MCWallet ------------------------------
(* Instances of Wallet for TLC. *)
EXTENDS Wallet

CONSTANTS ana, beto, otro

Salida(d, m) == [dest |-> d, monto |-> m]

\* Older than the date from which the node has the chain.
Vieja == [en |-> {}, sal |-> <<Salida(otro, 9)>>, hora |-> 0]

\* Two outputs of ana in the first block.
Genesis == [en |-> {}, sal |-> <<Salida(ana, 2), Salida(ana, 1)>>, hora |-> 0]
BaseMC == <<{Genesis}>>

\* A transaction of others that pays beto twice, and one that spends an output of it.
Pago == [en |-> {<<Vieja, 1>>}, sal |-> <<Salida(beto, 1), Salida(beto, 2), Salida(otro, 1)>>, hora |-> 0]
Reventa == [en |-> {<<Pago, 3>>}, sal |-> <<Salida(ana, 1)>>, hora |-> 0]
AjenasMC == {Pago, Reventa}
=============================================================================
