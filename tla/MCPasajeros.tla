---------------------------- MODULE MCPasajeros ----------------------------
(***************************************************************************)
(* Pasajeros with keys that fit and one that is cut to another's.          *)
(***************************************************************************)
EXTENDS Pasajeros

MCRecorte == [k \in Claves |-> IF k = "a y mas" THEN "a" ELSE k]

MCTextos == {VACIO, PALABRA}

\* A telephone that cannot be taken for an email.
MCTelefonos == {VACIO, Cifra(1)}
============================================================================
