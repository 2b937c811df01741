-------------------------- MODULE MCAirflowMixto --------------------------
(***************************************************************************)
(* AirflowMixto with one flight, one listing and a client of each kind.    *)
(***************************************************************************)
EXTENDS AirflowMixto

MCListas == {"vuelos"}
MCVuelos == {"V1"}
===========================================================================
