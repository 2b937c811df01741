---------------------------- MODULE MCAirflow ----------------------------
(***************************************************************************)
(* Airflow with one flight and one listing.                                *)
(***************************************************************************)
EXTENDS AirflowReservas, TLC

MCListas == {"vuelos"}
MCVuelos == {"V1"}

\* Clients differ in nothing but their name.
Simetria == Permutations(Clientes)
===========================================================================
