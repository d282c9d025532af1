--------------------------- MODULE ArchivoCuentas ---------------------------
(***************************************************************************)
(* The text of the wallet file: what save writes and how load reads it     *)
(* back.  Code: src/src/wallet.rs, lines 81 to 262.                        *)
(*                                                                         *)
(* The file is a sequence of lines and a line a sequence of words, as      *)
(* split_whitespace sees it.  A word is a sequence of pieces joined by     *)
(* '_'; a piece in which a keyword appears stands as that keyword.  An     *)
(* alias, a label and the address of an entry are what the user typed: a   *)
(* sequence of words, so that an empty text is no word.                    *)
(***************************************************************************)
EXTENDS SequencesExt

CONSTANT Montos     \* words that are numbers

Secciones == <<"SENDING", "SENT", "RECEIVING", "RECEIVED">>

Palabra(pieza) == <<pieza>>

\* A text is a sequence of words, and a word one of pieces.
EsTexto(texto) ==
    /\ texto \in Seq(Range(texto))
    /\ \A palabra \in Range(texto) : palabra \in Seq(Range(palabra))

\* HashMap::insert
Con(mapa, clave, valor) ==
    [x \in DOMAIN mapa \cup {clave} |-> IF x = clave THEN valor ELSE mapa[x]]

\* label.replace(' ', "_")
Unida(texto) == IF texto = << >> THEN << >> ELSE <<FlattenSeq(texto)>>

\* Account::new: keys, and no transactions.
CuentaNueva(publica, privada) ==
    [dir |-> publica, privada |-> privada, listas |-> [s \in Range(Secciones) |-> << >>]]

ConEntrada(cuenta, seccion, e) == [cuenta EXCEPT !.listas[seccion] = Append(@, e)]
-----------------------------------------------------------------------------
(* Saving. *)

\* obtain_hexdump_from_txn_info
LineaEntrada(e) == <<e.txn>> \o e.label \o <<e.monto>> \o e.dir \o <<e.bloque>>

\* write_txn_info
Seccion(nombre, entradas) ==
    <<<<Palabra(nombre)>>>> \o [i \in DOMAIN entradas |-> LineaEntrada(entradas[i])]

LineasCuenta(alias, cuenta) ==
    <<<<Palabra("WALLET")>> \o alias \o <<cuenta.dir, cuenta.privada>>>>
        \o FlattenSeq([i \in DOMAIN Secciones |-> Seccion(Secciones[i], cuenta.listas[Secciones[i]])])

\* save, with the accounts in the order in which their HashMap gives them.
Guardar(cuentas, orden) == FlattenSeq([i \in DOMAIN orden |-> LineasCuenta(orden[i], cuentas[orden[i]])])
-----------------------------------------------------------------------------
(* Loading. *)

Contiene(linea, clave) == \E i \in DOMAIN linea : clave \in Range(linea[i])

\* The keywords are looked for in this order, anywhere in the line.
Claves == <<"WALLET">> \o Secciones

\* A word in which no keyword is found.
Limpia(palabra) == Range(palabra) \cap Range(Claves) = {}

Encabezado(linea) ==
    LET contenidas == {i \in DOMAIN Claves : Contiene(linea, Claves[i])}
    IN  IF contenidas = {} THEN "entrada" ELSE Claves[Min(contenidas)]

\* What does not read as a number is zero (unwrap_or_default).
Numero(palabra) == IF palabra \in Montos THEN palabra ELSE Palabra("0")

\* Indexing past the last word panics.
ConPalabras(linea, n, lectura, siguiente) ==
    IF Len(linea) < n THEN [lectura EXCEPT !.entera = FALSE] ELSE siguiente

LeerCuenta(lectura, linea) ==
    ConPalabras(linea, 4, lectura,
        [alias |-> <<linea[2]>>, seccion |-> lectura.seccion,
         cuentas |-> Con(lectura.cuentas, <<linea[2]>>, CuentaNueva(linea[3], linea[4])),
         entera |-> TRUE])

LeerEntrada(lectura, linea) ==
    ConPalabras(linea, 5, lectura,
        IF lectura.seccion \in Range(Secciones) /\ lectura.alias \in DOMAIN lectura.cuentas
        THEN [lectura EXCEPT !.cuentas[lectura.alias] = ConEntrada(@, lectura.seccion,
                 [txn |-> linea[1], label |-> <<linea[2]>>, monto |-> Numero(linea[3]),
                  dir |-> <<linea[4]>>, bloque |-> linea[5]])]
        ELSE lectura)

AnalizarLinea(lectura, linea) ==
    LET e == Encabezado(linea)
    IN  IF ~lectura.entera THEN lectura
        ELSE IF e = "WALLET" THEN LeerCuenta(lectura, linea)
        ELSE IF e = "entrada" THEN LeerEntrada(lectura, linea)
        ELSE [lectura EXCEPT !.seccion = e]

LecturaVacia == [alias |-> << >>, seccion |-> "Undefined", cuentas |-> << >>, entera |-> TRUE]

\* load of a file that exists, line by line; not entera if it panics.
Cargar(texto) ==
    LET lectura[i \in 0..Len(texto)] ==
            IF i = 0 THEN LecturaVacia ELSE AnalizarLinea(lectura[i - 1], texto[i])
    IN  lectura[Len(texto)]
=============================================================================
