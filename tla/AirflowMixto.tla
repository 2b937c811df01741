--------------------------- MODULE AirflowMixto ---------------------------
(***************************************************************************)
(* The server of today with clients of both kinds: those of Antiguos run   *)
(* cliente.cpp, the others controlador.cpp.                                *)
(***************************************************************************)
EXTENDS Airflow, ClienteAntiguo

varsMixto == <<vars, trabado>>

InitMixto == Init /\ AntiguoInit

NextMixto ==
  \/ ServidorNext /\ UNCHANGED <<cliente, trabado>>
  \/ /\ \E c \in Clientes \ Antiguos : ClienteNext(c, servidor # "apagado")
     /\ UNCHANGED <<sesion, bd, trabado>>
  \/ /\ \E c \in Antiguos : AntiguoNext(c, servidor # "apagado")
     /\ UNCHANGED <<sesion, bd>>

SpecMixta == InitMixto /\ [][NextMixto]_varsMixto

\* The first client takes every ROL|PASAJERO for a failed login, while the
\* server opens the session of the passenger.  The session does not last: with
\* the client at a menu, whatever logins came before, the server has none,
\* unless an answer came in pieces and a later login took the rest of an older
\* one for its own.
AntiguoSinPasajero ==
  \A c \in Antiguos :
    (atendido = c /\ entero[c] /\ pc[c] = "menu" /\ Libre(c)) =>
      idUsuarioActual = -1 /\ rol[c] \in {"ADMIN", "EMPLEADO"}

\* What a client of the first kind leaves behind, a passenger's session that
\* never was a menu included, does not reach those that come after it.
AcuerdoNuevos == \A c \in Clientes \ Antiguos : Acuerdo(c)

\* recv has no time limit: a client that goes round its menu with std::cin
\* failed keeps the server from all the others until one of the two is killed.
TrabadoRetiene ==
  [][ \A c \in Antiguos :
        (trabado[c] /\ atendido = c) =>
          \/ atendido' = c
          \/ servidor' = "apagado"
          \/ ~abierto[c] ]_varsMixto
===========================================================================
