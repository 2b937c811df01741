----------------------------- MODULE MCVuelos -----------------------------
(***************************************************************************)
(* Vuelos with ids that fit and one that is cut to another's.              *)
(***************************************************************************)
EXTENDS Vuelos

MCRecorte == [id \in Claves |-> IF id = "a y mas" THEN "a" ELSE id]

\* Full flights, flights without hours, and flights without any text.
MCCampos == {<<PALABRA, PALABRA>>, <<PALABRA, VACIO>>, <<VACIO, VACIO>>}
MCHoras == {VACIO, PALABRA}

MCCapacidades == {1, 2}
===========================================================================
