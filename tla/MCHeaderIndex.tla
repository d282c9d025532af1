--------------------------- MODULE MCHeaderIndex ---------------------------
(* Instances of HeaderIndex for TLC. *)
EXTENDS HeaderIndex

CONSTANTS g, a, b, x, sin

BaseMC == <<g>>

\* A hash the node never has (x), several starting hashes, a stopping hash that
\* is never reached (sin), one that is, and one that is the starting hash.
PedidosMC ==
    {[desde |-> <<g>>, hasta |-> sin], [desde |-> <<x, a, g>>, hasta |-> sin],
     [desde |-> <<g>>, hasta |-> a], [desde |-> <<b>>, hasta |-> b]}
=============================================================================
