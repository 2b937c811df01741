----------------------------- MODULE Airflow -----------------------------
(***************************************************************************)
(* The whole system at work: several clients (Controlador), the server     *)
(* that serves one of them at a time (Servidor), the connections between   *)
(* them (Protocolo), and the console on the same database file.            *)
(***************************************************************************)
EXTENDS Servidor, Controlador

vars == <<red, cargas, pedidas, sesion, bd, cliente>>

Init == RedInit /\ ServidorInit /\ ControladorInit

Next ==
  \/ ServidorNext /\ UNCHANGED cliente
  \/ /\ \E c \in Clientes : ClienteNext(c, servidor # "apagado")
     /\ UNCHANGED <<sesion, bd>>

Spec == Init /\ [][Next]_vars

\* Users are free never to act; threads that have something to do are not.
SpecJusta ==
  /\ Spec
  /\ WF_vars(PasoServidor /\ UNCHANGED cliente)
  /\ \A c \in Clientes : WF_vars(PasoCliente(c) /\ UNCHANGED <<sesion, bd>>)

\* Every variable has its type, and what TCP and main keep together stays
\* together: the server is in recv or send exactly while it serves someone.
TypeOK ==
  /\ RedTypeOK /\ ServidorTypeOK /\ ControladorTypeOK
  /\ servidor \in {"recv", "enviar"} <=> atendido # NADIE

----------------------------------------------------------------------------
(* Safety *)

\* idUsuarioActual (servidor.cpp) and idUsuarioAutenticado (controlador.cpp)
\* are two copies of one session with no message that compares them: login,
\* failed login, change of user, leaving and dying keep them equal, unless an
\* answer came in pieces.
Acuerdo(c) ==
  (atendido = c /\ entero[c] /\ Libre(c)) =>
    /\ idUsuarioActual = idUsuarioAutenticado[c]
    /\ pc[c] # "login" => (rol[c] = "PASAJERO" <=> idUsuarioActual = ID_PASAJERO)

AcuerdoSesion == \A c \in Clientes : Acuerdo(c)

\* Requests and replies carry no number; while no answer came in pieces, what
\* a client finds in its socket answers the request it waits for.
RespuestaCorresponde ==
  \A c \in Clientes : entero[c] =>
    \A i \in DOMAIN al_cliente[c] : al_cliente[c][i].r.a = pendiente[c]

\* A client waiting in recv on an open connection always has something on its
\* way: its request, or the server at work on it, or an answer.  This needs
\* no luck with the pieces: it also holds when requests are joined and answers cut.
NadieEsperaEnVano ==
  \A c \in Clientes :
    (pendiente[c] # NADA /\ Conectado(c)) =>
      \/ al_servidor[c] # <<>>
      \/ al_cliente[c] # <<>>
      \/ atendido = c /\ servidor = "enviar"

\* A client being served never shows, as valid, a listing of another table or
\* one older than the last CARGAR_CSV of the server: nobody else can load
\* through the server meanwhile, and its own load empties its caches.
CacheAlDia ==
  \A c \in Clientes, t \in Listas :
    (atendido = c /\ entero[c] /\ Libre(c) /\ cache[c][t].tipo = "lista") =>
      cache[c][t].tabla = t /\ cache[c][t].version >= verServidor

\* What a cache shows as valid, an error or the empty listing of a locked file
\* included, stays through logins and changes of user as it is, until a load
\* this client asks for empties all its caches.
CacheSoloPorCarga ==
  [][ \A c \in Clientes, t \in Listas :
        (cache[c][t].tipo # "no valida" /\ abierto'[c]) =>
          \/ cache'[c][t] = cache[c][t]
          \/ /\ pendiente[c].op = "CARGAR_CSV" /\ pendiente'[c] = NADA
             /\ cache'[c] = SinCache ]_vars

\* At the login with the server's end of its connection gone.
Aislado(c) ==
  abierto[c] /\ pc[c] = "login" /\ ~Conectado(c) /\ al_cliente[c] = <<>>

\* hacerLogin only returns with a role, and the client connects only once: when
\* its server is gone it stays at the login until it is killed, even if there
\* is a server again.
SinSalida ==
  [][ \A c \in Clientes : Aislado(c) => Aislado(c)' \/ ~abierto'[c] ]_vars

\* The tickets an answer "OK|Billete comprado" speaks of.
Comprados(r) == IF r.tipo = "OK" THEN r.billetes ELSE {}

\* Every purchase that was, or is about to be, confirmed to a client is a row
\* of Billete, unless the table was cleared after it; ids are never given twice.
ConfirmadoGuardado ==
  \A c \in Clientes :
    LET enviados == UNION {Comprados(al_cliente[c][i].r) : i \in DOMAIN al_cliente[c]}
    IN  \A b \in confirmados[c] \cup enviados \cup Comprados(respuesta) :
          b \in {f.id : f \in billete.filas} \/ b <= borrado

\* The tickets a client is about to be shown include all those it was told it
\* had bought and that no start of a server has cleared.
LecturaPropia ==
  \A c \in Clientes : entero[c] =>
    \A i \in DOMAIN al_cliente[c] :
      LET r == al_cliente[c][i].r
      IN  (r.tipo = "DATA" /\ r.a.op = "VER_MIS_BILLETES") =>
            {b \in confirmados[c] : b > borrado} \subseteq r.billetes

\* COMPRAR_BILLETE requests no recv of the server has taken yet.
EnCamino(c) ==
  Cardinality({i \in DOMAIN al_servidor[c] : al_servidor[c][i].op = "COMPRAR_BILLETE"})

\* Each request to buy becomes at most one ticket, in spite of lost, joined and
\* late messages, and of clients and servers that die and start again.
ComprasContadas ==
  \A c \in Clientes : billete.seq + EnCamino(c) <= pedidas

\* A ticket is only ever written for the user logged in on the connection that
\* asked for it, although COMPRAR_BILLETE brings an id the server does not check.
CompraConSesion ==
  [][ \A f \in billete'.filas \ billete.filas :
        entero[atendido] => f.id_usuario = idUsuarioActual ]_vars

----------------------------------------------------------------------------
(* Liveness *)

\* A client being served gets an answer, or loses the server.
RespuestaLlega ==
  \A c \in Clientes :
    (pendiente[c] # NADA /\ atendido = c) ~> (pendiente[c] = NADA \/ atendido # c)

\* A client that is gone does not keep the server from the others.
SeSuelta ==
  \A c \in Clientes : (atendido = c /\ ~abierto[c]) ~> (atendido # c)
=============================================================================
