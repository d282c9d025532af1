---------------------------- MODULE MCChainSync ----------------------------
(* Instances of ChainSync for TLC. *)
EXTENDS ChainSync

CONSTANTS g, b1, b2, b3, b4, b5

\* Two pages of two headers; the third block is the first recent one.
RedMC == <<g, b1, b2, b3, b4, b5>>
=============================================================================
