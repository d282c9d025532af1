----------------------------- MODULE MCListener -----------------------------
(* Instances of Listener for TLC. *)
EXTENDS Listener

CONSTANTS g, b1, b2, bx, bi, t1, t2, ti, o1

BaseMC == <<g>>

\* Inventories of every shape: several blocks, mixed types, another type, none;
\* an invalid block, payloads that do not parse, a block already in the chain.
InventariosLibres ==
    {<<b1>>, <<b1, b2>>, <<bx>>, <<bi>>, <<t1, t2>>, <<ti>>, <<t1, b2>>, <<o1>>, <<g>>, << >>}
InventariosOrdenados == {<<b1>>, <<b2>>, <<bx>>, <<t2>>, <<t2, t1>>}
=============================================================================
