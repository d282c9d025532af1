------------------------------ MODULE MCServer ------------------------------
(* Instances of Server for TLC. *)
EXTENDS Server

CONSTANTS b1, t1, t2, c1, c2, p, q

BaseMC == << >>

EntregasMC == {<<b1, b1>>, <<b1, Nada>>, <<t1, t1>>, <<t1, t2>>}

PuertosMC == [c \in Conexiones |-> IF c = c1 THEN {p} ELSE {q}]

Mensaje(tipo, items, carga) == [tipo |-> tipo, items |-> items, carga |-> carga]

MensajesMC == [c \in Conexiones |->
    {Mensaje("getheaders", << >>, FALSE)} \cup
    IF c = c1
    THEN {Mensaje("getdata", <<t1, b1>>, FALSE), Mensaje("ilegible", << >>, FALSE),
          Mensaje("otro", << >>, TRUE)}
    ELSE {}]
=============================================================================
