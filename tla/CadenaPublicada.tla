-------------------------- MODULE CadenaPublicada --------------------------
(***************************************************************************)
(* What the rest of the node relies on when a block arrives from the       *)
(* network: the local chain is a log that only grows, one block at a time; *)
(* a block's contents are stored after its header joins the log and before *)
(* the wallet hears of the block; and no block joins before the previous   *)
(* one has been published.                                                 *)
(***************************************************************************)
EXTENDS Naturals, Sequences

CONSTANTS Bloques, Base

VARIABLES
    cadena,      \* the log of headers
    guardados,   \* the blocks whose contents are stored
    publicados   \* the length of the prefix of the log that the wallet knows

varsCadena == <<cadena, guardados, publicados>>

Init ==
    /\ cadena = Base /\ publicados = Len(Base)
    /\ guardados \in SUBSET {Base[i] : i \in DOMAIN Base}

Agregar ==
    /\ publicados = Len(cadena)
    /\ \E b \in Bloques : cadena' = Append(cadena, b)
    /\ UNCHANGED <<guardados, publicados>>

Guardar ==
    /\ publicados < Len(cadena)
    /\ guardados' = guardados \cup {cadena[Len(cadena)]}
    /\ UNCHANGED <<cadena, publicados>>

Publicar ==
    /\ publicados < Len(cadena) /\ cadena[Len(cadena)] \in guardados
    /\ publicados' = publicados + 1
    /\ UNCHANGED <<cadena, guardados>>

Next == Agregar \/ Guardar \/ Publicar

Spec == Init /\ [][Next]_varsCadena
=============================================================================
