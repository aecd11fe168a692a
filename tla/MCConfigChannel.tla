--------------------------- MODULE MCConfigChannel ---------------------------
(* ConfigChannel on model values: one good config beside the empty one, and *)
(* one or two incomplete ones.                                              *)
EXTENDS ConfigChannel, TLC
=============================================================================
