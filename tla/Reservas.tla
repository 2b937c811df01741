----------------------------- MODULE Reservas -----------------------------
(***************************************************************************)
(* The booking service airflow is to its passengers, without connections,  *)
(* menus, answers or locks: each ticket asked for is sold once at most,    *)
(* and the news of it reaches nobody but the client that asked.  Anything  *)
(* on its way may be lost; starting a server clears the tickets.           *)
(***************************************************************************)
EXTENDS Integers

CONSTANTS
  Clientes,    \* client processes
  Vuelos       \* flight codes

VARIABLES
  pedidas,     \* purchases ever asked for
  encargos,    \* client -> flights it asked for that may still be sold to it
  vendidos,    \* tickets kept
  ultimo,      \* the number of the last ticket sold
  borrado,     \* the number of the last ticket sold when they were last cleared
  porAvisar,   \* client -> tickets sold to it of which it may still be told
  avisos       \* client -> tickets it was told of

vars == <<pedidas, encargos, vendidos, ultimo, borrado, porAvisar, avisos>>

Billete(id, v) == [id |-> id, vuelo |-> v]

Init ==
  /\ pedidas = 0
  /\ encargos = [c \in Clientes |-> {}]
  /\ vendidos = {}
  /\ ultimo = 0
  /\ borrado = 0
  /\ porAvisar = [c \in Clientes |-> {}]
  /\ avisos = [c \in Clientes |-> {}]

\* A client asks for a ticket; the request may get lost at once.
Encargar(c, v) ==
  /\ pedidas' = pedidas + 1
  /\ encargos' \in {encargos, [encargos EXCEPT ![c] = @ \cup {v}]}
  /\ UNCHANGED <<vendidos, ultimo, borrado, porAvisar, avisos>>

\* What is left of c's requests and news may be less than before.
SoloMenos(f, g) == DOMAIN g = Clientes /\ \A c \in Clientes : g[c] \subseteq f[c]

\* One of the requests of c becomes a ticket, and no other one does.
Vender(c, v) ==
  /\ v \in encargos[c]
  /\ ultimo < pedidas
  /\ ultimo' = ultimo + 1
  /\ vendidos' = vendidos \cup {Billete(ultimo', v)}
  /\ porAvisar' = [porAvisar EXCEPT ![c] = @ \cup {ultimo'}]
  /\ SoloMenos(encargos, encargos')
  /\ UNCHANGED <<pedidas, borrado, avisos>>

\* c is told of tickets of its own; each of them is news once.
Avisar(c) ==
  /\ \E b \in SUBSET porAvisar[c] :
       /\ avisos' = [avisos EXCEPT ![c] = @ \cup b]
       /\ porAvisar' = [porAvisar EXCEPT ![c] = @ \ b]
  /\ UNCHANGED <<pedidas, encargos, vendidos, ultimo, borrado>>

\* Requests are refused or lost, news is lost, clients end and forget.
Perder ==
  /\ SoloMenos(encargos, encargos')
  /\ SoloMenos(porAvisar, porAvisar')
  /\ SoloMenos(avisos, avisos')
  /\ UNCHANGED <<pedidas, vendidos, ultimo, borrado>>

\* A server starts.
Borrar ==
  /\ vendidos' = {}
  /\ borrado' = ultimo
  /\ UNCHANGED <<pedidas, encargos, ultimo, porAvisar, avisos>>

Next ==
  \/ \E c \in Clientes, v \in Vuelos : Encargar(c, v) \/ Vender(c, v)
  \/ \E c \in Clientes : Avisar(c)
  \/ Perder \/ Borrar

Spec == Init /\ [][Next]_vars

----------------------------------------------------------------------------

\* What a client was told, or may still be told.
Suyos(c) == avisos[c] \cup porAvisar[c]

\* A ticket a client was told of is kept, unless a start of the server cleared it.
AvisadoGuardado ==
  \A c \in Clientes : \A b \in Suyos(c) :
    b <= borrado \/ \E v \in Vuelos : Billete(b, v) \in vendidos

\* No ticket is news for two clients, nor twice for one; none is news that was
\* never sold, and no more are sold than were asked for.
CadaUnoElSuyo ==
  /\ \A c, d \in Clientes : c # d => Suyos(c) \cap Suyos(d) = {}
  /\ \A c \in Clientes : avisos[c] \cap porAvisar[c] = {} /\ Suyos(c) \subseteq 1..ultimo
  /\ ultimo <= pedidas
===========================================================================
