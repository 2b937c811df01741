---------------------------- MODULE Servidor ----------------------------
(***************************************************************************)
(* server/src/config/servidor.cpp: one thread that accepts a client,       *)
(* answers its requests one recv at a time until it leaves, and only then  *)
(* accepts the next.  The console (server/src/main.c) is here as the other *)
(* process on the SQLite file; CargaCSV looks inside their loads.          *)
(***************************************************************************)
EXTENDS Protocolo

VARIABLES
  servidor,         \* what main is about to do
  idUsuarioActual,  \* the user of the session, -1 if none
  salirCliente,     \* SALIR was received
  respuesta,        \* what procesarPeticion returned, before it is sent
  consola,          \* what the console process does with the file
  billete,          \* table Billete
  vuelos,           \* codes with a row in table Vuelo
  version,          \* history: CSV loads finished
  verServidor,      \* history: the value of version after the last CARGAR_CSV
  borrado           \* history: the last id when Billete was last cleared

bd == <<consola, billete, vuelos, version, verServidor, borrado>>
sesion == <<servidor, idUsuarioActual, salirCliente, respuesta>>

SIN_RESPUESTA == Error(<<NADA>>)

\* A listing that met SQLITE_BUSY: the title and no rows.
SIN_FILAS == -1

ServidorInit ==
  /\ servidor = "apagado"
  /\ idUsuarioActual = -1
  /\ salirCliente = FALSE
  /\ respuesta = SIN_RESPUESTA
  /\ consola = "reposo"
  /\ billete = TablaVacia
  /\ vuelos \in SUBSET Vuelos    \* the file as earlier runs left it
  /\ version = 0 /\ verServidor = 0 /\ borrado = 0

\* A statement of the server may meet the lock of the console.
Ocupada == consola = "cargando"

----------------------------------------------------------------------------
(* procesarPeticion: what is received, p, is one request, or several that  *)
(* the network joined.                                                     *)

Es(p, op) == Len(p) = 1 /\ p[1].op = op

\* A seeded bug: the passenger's login does not reach idUsuarioActual.
procesarLogin_sin_sesion(p) ==
  /\ Es(p, "LOGIN")
  /\ respuesta' = IF p[1].arg = "MALA" THEN Error(p) ELSE Responder("ROL", p, 0, {})
  /\ UNCHANGED <<idUsuarioActual, bd>>

\* A seeded bug: only the passenger's login touches idUsuarioActual.
procesarLogin_sin_cierre(p) ==
  /\ Es(p, "LOGIN")
  /\ respuesta' = IF p[1].arg = "MALA" THEN Error(p) ELSE Responder("ROL", p, 0, {})
  /\ idUsuarioActual' = IF p[1].arg = "PASAJERO" THEN ID_PASAJERO ELSE idUsuarioActual
  /\ UNCHANGED bd

procesarLogin(p) ==
  /\ Es(p, "LOGIN")
  /\ UNCHANGED bd
  /\ \/ /\ p[1].arg \in {"ADMIN", "EMPLEADO"}
        /\ idUsuarioActual' = -1
        /\ respuesta' = Responder("ROL", p, 0, {})
     \/ /\ p[1].arg = "PASAJERO"
        /\ idUsuarioActual' = ID_PASAJERO
        /\ respuesta' = Responder("ROL", p, 0, {})
     \/ /\ p[1].arg = "MALA"
        /\ respuesta' = Error(p)
        /\ UNCHANGED idUsuarioActual

Listar(p) ==
  /\ Es(p, "LISTAR")
  /\ \/ respuesta' = Responder("DATA", p, version, {})
     \/ Ocupada /\ respuesta' = Responder("DATA", p, SIN_FILAS, {})
  /\ UNCHANGED <<idUsuarioActual, bd>>

BuscarVuelo(p) ==
  /\ Es(p, "BUSCAR_VUELO")
  /\ \/ p[1].arg \in vuelos /\ respuesta' = Responder("DATA", p, 0, {})
     \/ (p[1].arg \notin vuelos \/ Ocupada) /\ respuesta' = Error(p)
  /\ UNCHANGED <<idUsuarioActual, bd>>

\* Which airports the user types is not modelled: a pair may have flights or not.
BuscarVuelosOrigenDestino(p) ==
  /\ Es(p, "BUSCAR_VUELOS_ORIGEN_DESTINO")
  /\ \/ vuelos # {} /\ respuesta' = Responder("DATA", p, 0, {})
     \/ respuesta' = Error(p)
  /\ UNCHANGED <<idUsuarioActual, bd>>

\* The four loaders, as one step.  Statements that meet the lock are lost.
CargarCSV(p) ==
  /\ Es(p, "CARGAR_CSV")
  /\ \/ vuelos' = Vuelos
     \/ Ocupada /\ \E nuevos \in SUBSET Vuelos : vuelos' = vuelos \cup nuevos
  /\ version' = version + 1
  /\ verServidor' = version'
  /\ respuesta' = Responder("OK", p, 0, {})
  /\ UNCHANGED <<idUsuarioActual, consola, billete, borrado>>

\* A seeded bug: an INSERT that met the lock is answered like one that did not.
ComprarBillete_sin_rc(p) ==
  /\ Es(p, "COMPRAR_BILLETE")
  /\ \/ /\ p[1].arg \in vuelos
        /\ billete' = billete_insertar(billete, p[1].id, p[1].arg)
        /\ respuesta' = Responder("OK", p, 0, {billete'.seq})
     \/ /\ Ocupada
        /\ respuesta' = Responder("OK", p, 0, {billete.seq + 1})
        /\ UNCHANGED billete
     \/ /\ p[1].arg \notin vuelos
        /\ respuesta' = Error(p)
        /\ UNCHANGED billete
  /\ UNCHANGED <<idUsuarioActual, consola, vuelos, version, verServidor, borrado>>

\* The id is the one in the request: nothing compares it with idUsuarioActual.
ComprarBillete(p) ==
  /\ Es(p, "COMPRAR_BILLETE")
  /\ \/ /\ p[1].id > 0
        /\ p[1].arg \in vuelos
        /\ billete' = billete_insertar(billete, p[1].id, p[1].arg)
        /\ respuesta' = Responder("OK", p, 0, {billete'.seq})
     \/ /\ p[1].id <= 0 \/ p[1].arg \notin vuelos \/ Ocupada
        /\ respuesta' = Error(p)
        /\ UNCHANGED billete
  /\ UNCHANGED <<idUsuarioActual, consola, vuelos, version, verServidor, borrado>>

\* A seeded bug: the row that shows there are tickets is not shown itself.
VerMisBilletes_salta_primero(p) ==
  /\ p[1].op = "VER_MIS_BILLETES"
  /\ LET mios == {f.id : f \in {g \in billete.filas : g.id_usuario = idUsuarioActual}}
     IN  respuesta' = IF idUsuarioActual > 0 /\ mios # {}
                        THEN Responder("DATA", p, 0,
                               {b \in mios : \E otro \in mios : otro < b})
                        ELSE Error(p)
  /\ UNCHANGED <<idUsuarioActual, bd>>

\* The text of the joined requests holds exactly one |.
UnaBarra(p) ==
  \E i \in DOMAIN p :
    Barras(p[i]) = 1 /\ \A j \in DOMAIN p \ {i} : Barras(p[j]) = 0

\* Only a prefix is compared, so requests joined after VER_MIS_BILLETES are
\* answered with it, unless they bring exactly one |, which makes atoi of a
\* flight code, 0, the user.  No row and SQLITE_BUSY give the same text.
VerMisBilletes(p) ==
  /\ p[1].op = "VER_MIS_BILLETES"
  /\ LET mios == {f.id : f \in {g \in billete.filas : g.id_usuario = idUsuarioActual}}
     IN  \/ /\ ~UnaBarra(p) /\ idUsuarioActual > 0 /\ mios # {}
            /\ respuesta' = Responder("DATA", p, 0, mios)
         \/ /\ UnaBarra(p) \/ idUsuarioActual <= 0 \/ mios = {} \/ Ocupada
            /\ respuesta' = Error(p)
  /\ UNCHANGED <<idUsuarioActual, bd>>

Salir(p) ==
  /\ Es(p, "SALIR")
  /\ idUsuarioActual' = -1
  /\ respuesta' = Responder("OK", p, 0, {})
  /\ UNCHANGED bd

\* Joined requests: a prefix matches and the fields are wrong, or none matches.
NoReconocida(p) ==
  /\ Len(p) > 1
  /\ p[1].op # "VER_MIS_BILLETES"
  /\ respuesta' = Error(p)
  /\ UNCHANGED <<idUsuarioActual, bd>>

\* The malloc of a text returns NULL, before anything else is done.
SinMemoria(p) ==
  /\ \/ \E op \in {"LISTAR", "BUSCAR_VUELO", "BUSCAR_VUELOS_ORIGEN_DESTINO", "COMPRAR_BILLETE"} : Es(p, op)
     \/ p[1].op = "VER_MIS_BILLETES"
  /\ respuesta' = Error(p)
  /\ UNCHANGED <<idUsuarioActual, bd>>

procesarPeticion(p) ==
  \/ procesarLogin(p) \/ Listar(p) \/ BuscarVuelo(p) \/ BuscarVuelosOrigenDestino(p)
  \/ CargarCSV(p) \/ ComprarBillete(p) \/ VerMisBilletes(p) \/ Salir(p)
  \/ NoReconocida(p) \/ SinMemoria(p)

----------------------------------------------------------------------------
(* main *)

\* DELETE FROM Billete, whose result nobody looks at.
Limpiar ==
  \/ billete' = db_limpiar_billetes(billete) /\ borrado' = billete.seq
  \/ Ocupada /\ UNCHANGED <<billete, borrado>>

Arrancar ==
  /\ servidor = "apagado"
  /\ servidor' = "escucha"
  /\ Limpiar
  /\ UNCHANGED <<red, cargas, pedidas, idUsuarioActual, salirCliente, respuesta,
                 consola, vuelos, version, verServidor>>

\* servidor.exe started while one runs: the tickets go, then bind fails.
SegundoServidor ==
  /\ servidor # "apagado"
  /\ Limpiar
  /\ UNCHANGED <<red, cargas, pedidas, sesion, consola, vuelos, version, verServidor>>

Aceptar ==
  /\ servidor = "escucha"
  /\ cola # <<>>
  /\ atendido' = Head(cola)
  /\ cola' = Tail(cola)
  /\ servidor' = "recv"
  /\ salirCliente' = FALSE
  /\ UNCHANGED <<abierto, al_servidor, al_cliente, cargas, pedidas,
                 idUsuarioActual, respuesta, bd>>

Recibir ==
  /\ servidor = "recv"
  /\ \E p \in Prefijos(al_servidor[atendido]) :
       /\ al_servidor' = [al_servidor EXCEPT ![atendido] = Resto(@, p)]
       /\ salirCliente' = (p = <<Orden("SALIR")>>)
       /\ procesarPeticion(p)
  /\ servidor' = "enviar"
  /\ UNCHANGED <<cola, atendido, abierto, al_cliente, cargas, pedidas>>

\* A seeded bug: the session outlives its connection.
cerrarCliente_sin_reinicio ==
  /\ al_servidor' = [al_servidor EXCEPT ![atendido] = <<>>]
  /\ atendido' = NADIE
  /\ servidor' = "escucha"
  /\ UNCHANGED idUsuarioActual

\* A seeded bug: 0 is taken for no user.
cerrarCliente_a_cero ==
  /\ al_servidor' = [al_servidor EXCEPT ![atendido] = <<>>]
  /\ atendido' = NADIE
  /\ servidor' = "escucha"
  /\ idUsuarioActual' = 0

\* closesocket, which drops what was not received, and back to accept.
cerrarCliente ==
  /\ al_servidor' = [al_servidor EXCEPT ![atendido] = <<>>]
  /\ atendido' = NADIE
  /\ servidor' = "escucha"
  /\ idUsuarioActual' = -1

\* send; a client that is gone gets nothing.
Enviar ==
  /\ servidor = "enviar"
  /\ \/ /\ abierto[atendido]
        /\ \E corte \in Cortes(respuesta) :
             al_cliente' = [al_cliente EXCEPT ![atendido] = @ \o corte]
     \/ ~abierto[atendido] /\ UNCHANGED al_cliente
  /\ \/ salirCliente /\ cerrarCliente
     \/ /\ ~salirCliente
        /\ servidor' = "recv"
        /\ UNCHANGED <<atendido, idUsuarioActual, al_servidor>>
  /\ respuesta' = SIN_RESPUESTA
  /\ UNCHANGED <<cola, abierto, cargas, pedidas, salirCliente, bd>>

\* A seeded bug: a failed recv is tried again.
Desconectado_reintenta ==
  /\ servidor = "recv"
  /\ al_servidor[atendido] = <<>>
  /\ ~abierto[atendido]
  /\ UNCHANGED <<red, cargas, pedidas, sesion, bd>>

\* A seeded bug: a client that asks for nothing is taken for gone.
Desconectado_por_tiempo ==
  /\ servidor = "recv"
  /\ al_servidor[atendido] = <<>>
  /\ cerrarCliente
  /\ UNCHANGED <<cola, abierto, al_cliente, cargas, pedidas,
                 salirCliente, respuesta, bd>>

\* recv returns 0 or an error: the client is gone.
Desconectado ==
  /\ servidor = "recv"
  /\ al_servidor[atendido] = <<>>
  /\ ~abierto[atendido]
  /\ cerrarCliente
  /\ UNCHANGED <<cola, abierto, al_cliente, cargas, pedidas,
                 salirCliente, respuesta, bd>>

\* The process is killed.  Every connection is reset, which may take replies
\* with it; a load it was about to run may have stored some of its flights.
Caer ==
  /\ servidor # "apagado"
  /\ servidor' = "apagado"
  /\ atendido' = NADIE
  /\ cola' = <<>>
  /\ al_servidor' = [c \in Clientes |-> <<>>]
  /\ \E perdidos \in SUBSET Clientes :
       al_cliente' = [c \in Clientes |-> IF c \in perdidos THEN <<>> ELSE al_cliente[c]]
  /\ \/ UNCHANGED vuelos
     \/ /\ servidor = "recv"
        /\ al_servidor[atendido] # <<>>
        /\ al_servidor[atendido][1].op = "CARGAR_CSV"
        /\ \E nuevos \in SUBSET Vuelos : vuelos' = vuelos \cup nuevos
  /\ idUsuarioActual' = -1
  /\ salirCliente' = FALSE
  /\ respuesta' = SIN_RESPUESTA
  /\ UNCHANGED <<abierto, cargas, pedidas, consola, billete, version,
                 verServidor, borrado>>

----------------------------------------------------------------------------
(* The console *)

ConsolaEmpieza ==
  /\ consola = "reposo"
  /\ cargas < MaxCargas
  /\ cargas' = cargas + 1
  /\ consola' = "cargando"
  /\ UNCHANGED <<red, pedidas, sesion, billete, vuelos, version, verServidor, borrado>>

ConsolaInserta(v) ==
  /\ consola = "cargando"
  /\ vuelos' = vuelos \cup {v}
  /\ UNCHANGED <<red, cargas, pedidas, sesion, consola, billete, version,
                 verServidor, borrado>>

ConsolaTermina ==
  /\ consola = "cargando"
  /\ consola' = "reposo"
  /\ version' = version + 1
  /\ UNCHANGED <<red, cargas, pedidas, sesion, billete, vuelos, verServidor, borrado>>

----------------------------------------------------------------------------

\* What the server's own thread does by itself.
PasoServidor == Aceptar \/ Recibir \/ Enviar \/ Desconectado

ServidorNext ==
  \/ PasoServidor
  \/ Arrancar \/ SegundoServidor \/ Caer
  \/ ConsolaEmpieza \/ (\E v \in Vuelos : ConsolaInserta(v)) \/ ConsolaTermina

ServidorTypeOK ==
  /\ servidor \in {"apagado", "escucha", "recv", "enviar"}
  /\ idUsuarioActual \in {-1, ID_PASAJERO}
  /\ salirCliente \in BOOLEAN
  /\ respuesta \in Respuesta
  /\ consola \in {"reposo", "cargando"}
  /\ billete \in Tabla([id : Nat, id_usuario : {ID_PASAJERO}, id_vuelo : Vuelos])
  /\ vuelos \subseteq Vuelos
  /\ version \in Nat /\ verServidor \in Nat /\ borrado \in Nat
=============================================================================
