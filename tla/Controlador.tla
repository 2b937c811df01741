--------------------------- MODULE Controlador ---------------------------
(***************************************************************************)
(* client/src/usuario/controlador.cpp over clientSocket.cpp: each client   *)
(* process connects once, logs in, and then runs the menu of its role.     *)
(* enviarPeticion sends one request and returns whatever one recv brings.  *)
(***************************************************************************)
EXTENDS Protocolo

VARIABLES
  pc,                    \* client -> where ejecutar is
  pendiente,             \* client -> the request whose recv has not returned, or NADA
  rol,                   \* client -> what hacerLogin returned
  idUsuarioAutenticado,  \* client -> the id of its login, -1 if none
  codigo,                \* client -> local cod_vuelo of comprarBillete
  cache,                 \* client -> list -> what cache...Valida and cache... hold
  entero,                \* history: every recv of the connection returned one whole reply
  confirmados            \* history: tickets the server told it were bought

cliente == <<pc, pendiente, rol, idUsuarioAutenticado, codigo, cache, entero,
             confirmados>>

\* What a cache can hold: nothing valid, the listing of a table as of some
\* load, or any other text a recv returned (an error, a mixture).
Contenidos == [tipo : {"no valida", "lista", "otro"}, tabla : Argumentos, version : Int]
Contenido(tipo, tabla, version) == [tipo |-> tipo, tabla |-> tabla, version |-> version]
NO_VALIDA == Contenido("no valida", "", 0)
OTRO_TEXTO == Contenido("otro", "", 0)

SinCache == [t \in Listas |-> NO_VALIDA]

ControladorInit ==
  /\ pc = [c \in Clientes |-> "login"]
  /\ pendiente = [c \in Clientes |-> NADA]
  /\ rol = [c \in Clientes |-> ""]
  /\ idUsuarioAutenticado = [c \in Clientes |-> -1]
  /\ codigo = [c \in Clientes |-> ""]
  /\ cache = [c \in Clientes |-> SinCache]
  /\ entero = [c \in Clientes |-> TRUE]
  /\ confirmados = [c \in Clientes |-> {}]

\* c waits for its user, not for the server.
Libre(c) == abierto[c] /\ pendiente[c] = NADA

----------------------------------------------------------------------------
(* ClientSocket *)

\* A seeded bug: a client that lost its server connects again.
Conectar_de_nuevo(c, escuchando) ==
  /\ ~Conectado(c)
  /\ escuchando
  /\ Len(cola) < BACKLOG
  /\ cola' = Append(cola, c)
  /\ abierto' = [abierto EXCEPT ![c] = TRUE]
  /\ entero' = [entero EXCEPT ![c] = TRUE]
  /\ UNCHANGED <<atendido, al_servidor, al_cliente, cargas, pedidas, pc,
                 pendiente, rol, idUsuarioAutenticado, codigo, cache, confirmados>>

\* conectar: the server must be listening with room in its backlog;
\* otherwise main returns 1.
Conectar(c, escuchando) ==
  /\ ~abierto[c]
  /\ ~Conectado(c)
  /\ escuchando
  /\ Len(cola) < BACKLOG
  /\ cola' = Append(cola, c)
  /\ abierto' = [abierto EXCEPT ![c] = TRUE]
  /\ entero' = [entero EXCEPT ![c] = TRUE]
  /\ UNCHANGED <<atendido, al_servidor, al_cliente, cargas, pedidas, pc,
                 pendiente, rol, idUsuarioAutenticado, codigo, cache, confirmados>>

\* A seeded bug: every request is sent twice, to be sure.
Pedir_dos_veces(c, p) ==
  /\ Libre(c)
  /\ Len(al_cliente[c]) + Len(al_servidor[c]) <= MaxCola
  /\ pendiente' = [pendiente EXCEPT ![c] = p]
  /\ al_servidor' = IF Conectado(c)
                      THEN [al_servidor EXCEPT ![c] = @ \o <<p, p>>]
                      ELSE al_servidor
  /\ UNCHANGED <<cola, atendido, abierto, al_cliente, rol, idUsuarioAutenticado,
                 cache, entero, confirmados>>

\* The send of enviarPeticion, which a dead connection swallows.
Pedir(c, p) ==
  /\ Libre(c)
  /\ Len(al_cliente[c]) + Len(al_servidor[c]) <= MaxCola
  /\ pendiente' = [pendiente EXCEPT ![c] = p]
  /\ al_servidor' = IF Conectado(c)
                      THEN [al_servidor EXCEPT ![c] = Append(@, p)]
                      ELSE al_servidor
  /\ UNCHANGED <<cola, atendido, abierto, al_cliente, rol, idUsuarioAutenticado,
                 cache, entero, confirmados>>

\* The process ends, by SALIR or killed; requests on their way may be lost.
Terminar(c) ==
  /\ abierto' = [abierto EXCEPT ![c] = FALSE]
  /\ al_cliente' = [al_cliente EXCEPT ![c] = <<>>]
  /\ \/ UNCHANGED al_servidor
     \/ al_servidor' = [al_servidor EXCEPT ![c] = <<>>]
  /\ pc' = [pc EXCEPT ![c] = "login"]
  /\ pendiente' = [pendiente EXCEPT ![c] = NADA]
  /\ rol' = [rol EXCEPT ![c] = ""]
  /\ idUsuarioAutenticado' = [idUsuarioAutenticado EXCEPT ![c] = -1]
  /\ codigo' = [codigo EXCEPT ![c] = ""]
  /\ cache' = [cache EXCEPT ![c] = SinCache]
  /\ confirmados' = [confirmados EXCEPT ![c] = {}]
  /\ UNCHANGED <<cola, atendido, cargas, pedidas, entero>>

Morir(c) == abierto[c] /\ Terminar(c)

----------------------------------------------------------------------------
(* Requests *)

\* hacerLogin: a user and a password are typed.
hacerLogin(c, credencial) ==
  /\ pc[c] = "login"
  /\ Pedir(c, Texto("LOGIN", credencial, -1))
  /\ UNCHANGED <<cargas, pedidas, pc, codigo>>

\* The LISTAR_... options a role has in its menu.
Listables(r) == IF r = "PASAJERO" THEN Listas \cap {"vuelos", "equipajes"} ELSE Listas

\* A seeded bug: the flag that says the listing is valid is not looked at.
VerLista_siempre(c, t) ==
  /\ pc[c] = "menu"
  /\ t \in Listables(rol[c])
  /\ Pedir(c, Texto("LISTAR", t, -1))
  /\ UNCHANGED <<cargas, pedidas, pc, codigo>>

\* An option that lists a table asks the server only when the cache is not valid.
VerLista(c, t) ==
  /\ pc[c] = "menu"
  /\ t \in Listables(rol[c])
  /\ cache[c][t].tipo = "no valida"
  /\ Pedir(c, Texto("LISTAR", t, -1))
  /\ UNCHANGED <<cargas, pedidas, pc, codigo>>

buscarVueloPorCodigo(c, v) ==
  /\ pc[c] = "menu"
  /\ Pedir(c, Texto("BUSCAR_VUELO", v, -1))
  /\ UNCHANGED <<cargas, pedidas, pc, codigo>>

buscarVuelosOrigenDestino(c) ==
  /\ pc[c] = "menu"
  /\ Pedir(c, Orden("BUSCAR_VUELOS_ORIGEN_DESTINO"))
  /\ UNCHANGED <<cargas, pedidas, pc, codigo>>

CargarCSVEnBD(c) ==
  /\ pc[c] = "menu"
  /\ rol[c] = "ADMIN"
  /\ cargas < MaxCargas
  /\ cargas' = cargas + 1
  /\ Pedir(c, Orden("CARGAR_CSV"))
  /\ UNCHANGED <<pedidas, pc, codigo>>

\* comprarBillete as far as its first enviarPeticion.
comprarBillete(c, v) ==
  /\ pc[c] = "menu"
  /\ rol[c] = "PASAJERO"
  /\ idUsuarioAutenticado[c] # -1
  /\ pc' = [pc EXCEPT ![c] = "comprar"]
  /\ codigo' = [codigo EXCEPT ![c] = v]
  /\ Pedir(c, Texto("BUSCAR_VUELO", v, -1))
  /\ UNCHANGED <<cargas, pedidas>>

\* "s": whatever the search answered, the purchase is asked for.
Confirmar(c) ==
  /\ pc[c] = "confirmar"
  /\ pedidas < MaxCompras
  /\ pedidas' = pedidas + 1
  /\ pc' = [pc EXCEPT ![c] = "menu"]
  /\ codigo' = [codigo EXCEPT ![c] = ""]
  /\ Pedir(c, Texto("COMPRAR_BILLETE", codigo[c], idUsuarioAutenticado[c]))
  /\ UNCHANGED cargas

Cancelar(c) ==
  /\ pc[c] = "confirmar"
  /\ Libre(c)
  /\ pc' = [pc EXCEPT ![c] = "menu"]
  /\ codigo' = [codigo EXCEPT ![c] = ""]
  /\ UNCHANGED <<red, cargas, pedidas, pendiente, rol, idUsuarioAutenticado,
                 cache, entero, confirmados>>

verMisBilletes(c) ==
  /\ pc[c] = "menu"
  /\ rol[c] = "PASAJERO"
  /\ idUsuarioAutenticado[c] # -1
  /\ Pedir(c, Orden("VER_MIS_BILLETES"))
  /\ UNCHANGED <<cargas, pedidas, pc, codigo>>

\* Back to hacerLogin.  The server is not told.
CambiarUsuario(c) ==
  /\ pc[c] = "menu"
  /\ Libre(c)
  /\ pc' = [pc EXCEPT ![c] = "login"]
  /\ rol' = [rol EXCEPT ![c] = ""]
  /\ UNCHANGED <<red, cargas, pedidas, pendiente, idUsuarioAutenticado,
                 codigo, cache, entero, confirmados>>

SalirDelMenu(c) ==
  /\ pc[c] = "menu"
  /\ Pedir(c, Orden("SALIR"))
  /\ UNCHANGED <<cargas, pedidas, pc, codigo>>

----------------------------------------------------------------------------
(* What follows enviarPeticion; texto is empty when recv failed.  Menus,   *)
(* cached listings that are only shown again and lines that are not valid  *)
(* change no state.                                                        *)

\* A role counts only if it is the whole answer; PASAJERO only has to be at
\* its beginning.  Any other text leaves the user where it was, with the
\* idUsuarioAutenticado of the last login.
LoginContestado(c, texto) ==
  /\ pc[c] = "login"
  /\ UNCHANGED <<codigo, cache>>
  /\ LET r == texto[1].r
     IN  \/ /\ texto # <<>> /\ r.tipo = "ROL" /\ r.a.arg # "PASAJERO"
            /\ Len(texto) = 1
            /\ pc' = [pc EXCEPT ![c] = "menu"]
            /\ rol' = [rol EXCEPT ![c] = r.a.arg]
            /\ idUsuarioAutenticado' = [idUsuarioAutenticado EXCEPT ![c] = -1]
         \/ /\ texto # <<>> /\ r.tipo = "ROL" /\ r.a.arg = "PASAJERO"
            /\ pc' = [pc EXCEPT ![c] = "menu"]
            /\ rol' = [rol EXCEPT ![c] = "PASAJERO"]
            /\ idUsuarioAutenticado' = [idUsuarioAutenticado EXCEPT ![c] = ID_PASAJERO]
         \/ /\ ~ (/\ texto # <<>> /\ r.tipo = "ROL"
                  /\ r.a.arg = "PASAJERO" \/ Len(texto) = 1)
            /\ UNCHANGED <<pc, rol, idUsuarioAutenticado>>

\* What a cache keeps of the answer.
Guardado(texto) ==
  LET r == texto[1].r
  IN  IF /\ texto # <<>> /\ EsEntera(texto)
         /\ r.tipo = "DATA" /\ r.a.op = "LISTAR" /\ r.version >= 0
        THEN Contenido("lista", r.a.arg, r.version)
        ELSE OTRO_TEXTO

\* The cache becomes valid whatever came.
ListaContestada(c, texto) ==
  /\ pc[c] = "menu" /\ pendiente[c].op = "LISTAR"
  /\ cache' = [cache EXCEPT ![c][pendiente[c].arg] = Guardado(texto)]
  /\ UNCHANGED <<pc, rol, idUsuarioAutenticado, codigo>>

\* A seeded bug: the listings of before the load stay valid.
CargaContestada_sin_invalidar(c) ==
  /\ pc[c] = "menu" /\ pendiente[c].op = "CARGAR_CSV"
  /\ UNCHANGED <<cache, pc, rol, idUsuarioAutenticado, codigo>>

\* invalidarCache, whatever came.
CargaContestada(c) ==
  /\ pc[c] = "menu" /\ pendiente[c].op = "CARGAR_CSV"
  /\ cache' = [cache EXCEPT ![c] = SinCache]
  /\ UNCHANGED <<pc, rol, idUsuarioAutenticado, codigo>>

\* The first answer of comprarBillete is shown, not looked at.
InfoContestada(c) ==
  /\ pc[c] = "comprar"
  /\ pc' = [pc EXCEPT ![c] = "confirmar"]
  /\ UNCHANGED <<rol, idUsuarioAutenticado, codigo, cache>>

TextoMostrado(c) ==
  /\ pc[c] = "menu"
  /\ pendiente[c].op \notin {"LISTAR", "CARGAR_CSV", "SALIR"}
  /\ UNCHANGED <<pc, rol, idUsuarioAutenticado, codigo, cache>>

Contestar(c, texto) ==
  /\ \/ LoginContestado(c, texto) \/ ListaContestada(c, texto)
     \/ CargaContestada(c) \/ InfoContestada(c) \/ TextoMostrado(c)
  /\ pendiente' = [pendiente EXCEPT ![c] = NADA]
  /\ entero' = [entero EXCEPT ![c] = @ /\ (texto # <<>> => EsEntera(texto))]
  /\ confirmados' = [confirmados EXCEPT ![c] = @ \cup
       UNION {texto[i].r.billetes : i \in {j \in DOMAIN texto : texto[j].r.tipo = "OK"}}]
  /\ UNCHANGED <<cola, atendido, abierto, al_servidor, cargas, pedidas>>

\* recv fails: the server's end is gone and nothing is left to read.
SinServidor(c) == ~Conectado(c) /\ al_cliente[c] = <<>>

\* The recv of enviarPeticion.
RecibirRespuesta(c) ==
  /\ pendiente[c] # NADA
  /\ \/ \E texto \in Prefijos(al_cliente[c]) :
          /\ al_cliente' = [al_cliente EXCEPT ![c] = Resto(@, texto)]
          /\ Contestar(c, texto)
     \/ SinServidor(c) /\ UNCHANGED al_cliente /\ Contestar(c, <<>>)

\* After SALIR the program ends, whatever came.
SalirContestado(c) ==
  /\ pendiente[c].op = "SALIR"
  /\ al_cliente[c] # <<>> \/ SinServidor(c)
  /\ Terminar(c)

\* What a client does without its user.
PasoCliente(c) == RecibirRespuesta(c) \/ SalirContestado(c)

ClienteNext(c, escuchando) ==
  \/ Conectar(c, escuchando) \/ Morir(c)
  \/ \E credencial \in Credenciales : hacerLogin(c, credencial)
  \/ \E t \in Listas : VerLista(c, t)
  \/ \E v \in Vuelos : buscarVueloPorCodigo(c, v) \/ comprarBillete(c, v)
  \/ buscarVuelosOrigenDestino(c) \/ CargarCSVEnBD(c) \/ verMisBilletes(c)
  \/ Confirmar(c) \/ Cancelar(c) \/ CambiarUsuario(c) \/ SalirDelMenu(c)
  \/ PasoCliente(c)

ControladorTypeOK ==
  /\ pc \in [Clientes -> {"login", "menu", "comprar", "confirmar"}]
  /\ pendiente \in [Clientes -> Peticion]
  /\ rol \in [Clientes -> Roles \cup {""}]
  /\ idUsuarioAutenticado \in [Clientes -> {-1, ID_PASAJERO}]
  /\ codigo \in [Clientes -> Vuelos \cup {""}]
  /\ cache \in [Clientes -> [Listas -> Contenidos]]
  /\ entero \in [Clientes -> BOOLEAN]
  /\ confirmados \in [Clientes -> SUBSET Nat]
=============================================================================
