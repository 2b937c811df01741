---------------------------- MODULE Protocolo ----------------------------
(***************************************************************************)
(* What travels between airflow clients and the server, and the TCP        *)
(* connections it travels on.  A request is the text of one send of        *)
(* ClientSocket::enviarPeticion; a reply is the text of one send of        *)
(* enviarRespuesta, which the network may deliver in pieces.               *)
(***************************************************************************)
EXTENDS BaseDatos, Sequences

CONSTANTS
  Clientes,    \* client processes
  NADIE,       \* no client
  Listas,      \* the tables LISTAR_... can ask for
  Vuelos,      \* flight codes of vuelos.csv
  Trozos,      \* bound: pieces a long reply can arrive in
  Credenciales, \* what users type at the login
  MaxCargas,   \* bound: CSV loads ever asked for, by clients and by the console
  MaxCompras,  \* bound: COMPRAR_BILLETE requests ever sent
  MaxCola      \* bound: messages of a client on their way when it asks again

ASSUME NadieAssumption == NADIE \notin Clientes
ASSUME CotasAssumption ==
  Trozos \in Nat \ {0} /\ MaxCargas \in Nat /\ MaxCompras \in Nat /\ MaxCola \in Nat

\* listen(socketServidor, 1)
BACKLOG == 1

\* The one id the server gives to the passenger account of config.txt.
ID_PASAJERO == 1

Roles == {"ADMIN", "EMPLEADO", "PASAJERO"}

\* A role stands for its user and password of config.txt, "MALA" for any
\* others, with a | in them or not.
ASSUME CredencialesAssumption == Credenciales \subseteq Roles \cup {"MALA"}

Ops == {"", "LOGIN", "LISTAR", "BUSCAR_VUELO", "BUSCAR_VUELOS_ORIGEN_DESTINO",
        "CARGAR_CSV", "COMPRAR_BILLETE", "VER_MIS_BILLETES", "SALIR"}

\* What follows the first | of a request: a credential, a table, a flight code.
Argumentos == Roles \cup {"MALA", ""} \cup Listas \cup Vuelos

Peticion == [op : Ops, arg : Argumentos, id : {-1, ID_PASAJERO}]

Texto(op, arg, id) == [op |-> op, arg |-> arg, id |-> id]
Orden(op) == Texto(op, "", -1)
NADA == Orden("")       \* a client that waits for nothing

\* How many | the text of a request holds.
Barras(p) ==
  CASE p.op = "BUSCAR_VUELO" -> 1
    [] p.op \in {"LOGIN", "BUSCAR_VUELOS_ORIGEN_DESTINO", "COMPRAR_BILLETE"} -> 2
    [] OTHER -> 0

\* A reply: its first field, the load its listing shows, the tickets it shows
\* or confirms, and (history) the request it answers, the first of the
\* received ones if the network joined several.  ROL|r repeats the r of LOGIN.
Respuesta ==
  {r \in [tipo : {"ROL", "DATA", "OK", "ERROR"}, a : Peticion,
          version : Int, billetes : SUBSET Nat] :
     r.tipo = "ROL" => r.a.arg \in Roles}

Responder(tipo, p, version, billetes) ==
  [tipo |-> tipo, a |-> p[1], version |-> version, billetes |-> billetes]
Error(p) == Responder("ERROR", p, 0, {})

\* The replies long enough to be delivered in pieces.
Larga(r) ==
  r.tipo = "DATA" /\ r.a.op \in {"LISTAR", "BUSCAR_VUELOS_ORIGEN_DESTINO",
                                     "VER_MIS_BILLETES"}

Trozo == [r : Respuesta, parte : 1..Trozos, de : 1..Trozos]

\* A seeded bug: an error is not answered.
Cortes_sin_errores(r) ==
  IF r.tipo = "ERROR" THEN {<<>>} ELSE {<<[r |-> r, parte |-> 1, de |-> 1]>>}

\* The ways a reply can be cut on its way.
Cortes(r) ==
  {[k \in 1..n |-> [r |-> r, parte |-> k, de |-> n]] :
     n \in IF Larga(r) THEN 1..Trozos ELSE {1}}

\* What one recv returned is one whole reply.
EsEntera(texto) ==
  texto[1].parte = 1 /\ Len(texto) = texto[1].de

\* recv on a stream takes some of what has arrived and leaves the rest.
Prefijos(s) == {SubSeq(s, 1, n) : n \in 1..Len(s)}
Resto(s, p) == SubSeq(s, Len(p) + 1, Len(s))

VARIABLES
  cola,         \* connections the kernel completed and accept did not take yet
  atendido,     \* the client of socketCliente, or NADIE
  abierto,      \* client -> its end of the connection is open
  al_servidor,  \* client -> requests sent and not received
  al_cliente,   \* client -> pieces of replies sent and not received
  cargas,       \* history: loads asked for, for MaxCargas
  pedidas       \* history: purchases asked for, for MaxCompras

red == <<cola, atendido, abierto, al_servidor, al_cliente>>

\* The server's side of the connection of c is open.
Conectado(c) == atendido = c \/ \E i \in DOMAIN cola : cola[i] = c

RedTypeOK ==
  /\ cola \in Seq(Clientes)
  /\ atendido \in Clientes \cup {NADIE}
  /\ abierto \in [Clientes -> BOOLEAN]
  /\ al_servidor \in [Clientes -> Seq(Peticion)]
  /\ al_cliente \in [Clientes -> Seq(Trozo)]
  /\ cargas \in Nat
  /\ pedidas \in Nat

RedInit ==
  /\ cola = <<>>
  /\ atendido = NADIE
  /\ abierto = [c \in Clientes |-> FALSE]
  /\ al_servidor = [c \in Clientes |-> <<>>]
  /\ al_cliente = [c \in Clientes |-> <<>>]
  /\ cargas = 0
  /\ pedidas = 0
===========================================================================
