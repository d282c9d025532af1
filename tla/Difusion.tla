------------------------------ MODULE Difusion ------------------------------
(***************************************************************************)
(* What the server promises to those who listen to it: items are published *)
(* in an order; a client that joins hears every item from some point on,   *)
(* in that order, without gaps or repetitions, until it leaves; and it     *)
(* hears nothing after that.                                               *)
(***************************************************************************)
EXTENDS Naturals, Sequences

CONSTANTS Clientes, Items

VARIABLES
    publicado,   \* every item, in order
    proximo,     \* the position that each client is due; 0 if it does not listen
    oido         \* the positions that each client has heard

varsDifusion == <<publicado, proximo, oido>>

Init ==
    /\ publicado = << >>
    /\ proximo = [c \in Clientes |-> 0]
    /\ oido = [c \in Clientes |-> {}]

Publicar ==
    /\ \E i \in Items : publicado' = Append(publicado, i)
    /\ UNCHANGED <<proximo, oido>>

\* Who joins is due, at the earliest, what is still to be delivered then.
Sumarse(c) ==
    /\ proximo[c] = 0 /\ oido[c] = {}
    /\ \E n \in 1..Len(publicado) + 1 : proximo' = [proximo EXCEPT ![c] = n]
    /\ UNCHANGED <<publicado, oido>>

Oir(c) ==
    /\ proximo[c] \in DOMAIN publicado
    /\ oido' = [oido EXCEPT ![c] = @ \cup {proximo[c]}]
    /\ proximo' = [proximo EXCEPT ![c] = @ + 1]
    /\ UNCHANGED publicado

Irse(c) ==
    /\ proximo' = [proximo EXCEPT ![c] = 0]
    /\ UNCHANGED <<publicado, oido>>

Next == Publicar \/ \E c \in Clientes : Sumarse(c) \/ Oir(c) \/ Irse(c)

Spec == Init /\ [][Next]_varsDifusion
=============================================================================
