--------------------------- MODULE MCVentanaLegible ---------------------------
(* The instances of Ventana whose file can be read. *)
EXTENDS MCVentana

ASSUME SoloLegible == Legible
=============================================================================
