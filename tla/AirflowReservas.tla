-------------------------- MODULE AirflowReservas --------------------------
(***************************************************************************)
(* Airflow implements Reservas: the requests of a client are those in its  *)
(* socket, its news the answers the server has ready or sent to it.        *)
(***************************************************************************)
EXTENDS Airflow

\* Flights of the COMPRAR_BILLETE requests no recv of the server has taken yet.
Encargos(c) ==
  {al_servidor[c][i].arg :
     i \in {j \in DOMAIN al_servidor[c] : al_servidor[c][j].op = "COMPRAR_BILLETE"}}

\* Tickets of the answers that are ready for c or on their way to it.
PorAvisar(c) ==
  (UNION {Comprados(al_cliente[c][i].r) : i \in DOMAIN al_cliente[c]})
    \cup (IF atendido = c THEN Comprados(respuesta) ELSE {})

R == INSTANCE Reservas WITH
  pedidas   <- pedidas,
  encargos  <- [c \in Clientes |-> Encargos(c)],
  vendidos  <- {[id |-> f.id, vuelo |-> f.id_vuelo] : f \in billete.filas},
  ultimo    <- billete.seq,
  borrado   <- borrado,
  porAvisar <- [c \in Clientes |-> PorAvisar(c)],
  avisos    <- confirmados

\* Behind its sockets, menus and locks, airflow sells tickets as Reservas says:
\* one for each request at most, and with news of it for no other client.
ImplementaReservas == R!Spec

\* No two clients are told of the same ticket, none is told of one twice, and
\* no more are sold than were asked for, in spite of joined requests, answers
\* to clients that ended, and servers that fall between the two.
CadaBilleteUno == R!CadaUnoElSuyo
============================================================================
