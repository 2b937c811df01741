--------------------------- MODULE MCListaTexto ---------------------------
(***************************************************************************)
(* ListaTexto with small buffers: header, three rows of the longest line   *)
(* cannot all fit, short rows after long ones can.                         *)
(***************************************************************************)
EXTENDS ListaTexto

MCLargos == {1, 2, 4, 9}
===========================================================================
