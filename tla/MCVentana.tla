------------------------------ MODULE MCVentana ------------------------------
(* Instances of Ventana for TLC. *)
EXTENDS Ventana

Texto(piezas) == [i \in DOMAIN piezas |-> Palabra(piezas[i])]

ana == Palabra("ana_dir")
beto == Palabra("beto_dir")
otro == Palabra("otro_dir")

MontosMC == {Palabra("total"), Palabra("importe")}
AliasesMC == {Texto(<<"ana">>), Texto(<<"beto">>)}
DireccionesMC == {ana, beto}
UnaDireccionMC == {ana}
InicialesMC == Texto(<<"ana">>) :> ana
\* An address that an account may have, and what Clear leaves.
PagosMC == <<beto>> :> beto @@ Texto(<< >>) :> Palabra("-")
CortasMC == {Texto(<< >>)}
DosPalabrasMC == {Texto(<<"mi", "pago">>)}
SinEtiquetaMC == {Texto(<< >>)}

\* Pays an account twice.
AjenasMC == "ajena" :> [firma |-> otro, paga |-> <<beto, beto>>]
PropiasMC == <<"propia">>
UnBloqueMC == <<Palabra("b1")>>
=============================================================================
