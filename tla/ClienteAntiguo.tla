-------------------------- MODULE ClienteAntiguo --------------------------
(***************************************************************************)
(* client/src/usuario/cliente.cpp, the client before controlador.cpp, which *)
(* still builds and speaks to the same server: one program with its own    *)
(* hacerLogin and menus, no purchases, and std::cin >> for its options.    *)
(* What it has word for word like its successor is taken from Controlador. *)
(***************************************************************************)
EXTENDS Controlador

CONSTANT Antiguos    \* the clients that run cliente.cpp

ASSUME AntiguosAssumption == Antiguos \subseteq Clientes

VARIABLE trabado     \* client -> std::cin has failed in a menu

AntiguoInit == trabado = [c \in Clientes |-> FALSE]

\* Its user can still choose an option.
AlMenu(c, r) == rol[c] = r /\ ~trabado[c]

\* A seeded bug: the answer only has to begin with the role, as its successor
\* does with PASAJERO.
LoginAntiguo_por_prefijo(c, texto) ==
  /\ pc[c] = "login"
  /\ UNCHANGED <<codigo, cache, idUsuarioAutenticado>>
  /\ LET aceptado == texto # <<>> /\ texto[1].r.tipo = "ROL"
     IN  \/ /\ aceptado
            /\ pc' = [pc EXCEPT ![c] = "menu"]
            /\ rol' = [rol EXCEPT ![c] = texto[1].r.a.arg]
         \/ ~aceptado /\ UNCHANGED <<pc, rol>>

\* hacerLogin wants ROL|r and nothing else, and PASAJERO comes with an id
\* behind: its third branch, and the menu it opens, are out of reach.
LoginAntiguo(c, texto) ==
  /\ pc[c] = "login"
  /\ UNCHANGED <<codigo, cache, idUsuarioAutenticado>>
  /\ LET aceptado == /\ texto # <<>> /\ Len(texto) = 1
                     /\ texto[1].r.tipo = "ROL"
                     /\ texto[1].r.a.arg # "PASAJERO"
     IN  \/ /\ aceptado
            /\ pc' = [pc EXCEPT ![c] = "menu"]
            /\ rol' = [rol EXCEPT ![c] = texto[1].r.a.arg]
         \/ ~aceptado /\ UNCHANGED <<pc, rol>>

\* The recv of enviarPeticion, and what hacerLogin does with it.
LoginRecibido(c) ==
  /\ pendiente[c].op = "LOGIN"
  /\ \/ \E texto \in Prefijos(al_cliente[c]) :
          /\ al_cliente' = [al_cliente EXCEPT ![c] = Resto(@, texto)]
          /\ LoginAntiguo(c, texto)
          /\ entero' = [entero EXCEPT ![c] = @ /\ EsEntera(texto)]
     \/ /\ SinServidor(c)
        /\ LoginAntiguo(c, <<>>)
        /\ UNCHANGED <<al_cliente, entero>>
  /\ pendiente' = [pendiente EXCEPT ![c] = NADA]
  /\ UNCHANGED <<cola, atendido, abierto, al_servidor, cargas, pedidas, confirmados>>

\* Every other answer is used as its successor uses it.
MenuRecibido(c) == pc[c] = "menu" /\ RecibirRespuesta(c)

ejecutarMenuAdmin(c) ==
  /\ AlMenu(c, "ADMIN")
  /\ \/ CargarCSVEnBD(c)
     \/ \E t \in Listas : VerLista(c, t)
     \/ \E v \in Vuelos : buscarVueloPorCodigo(c, v)
     \/ CambiarUsuario(c)
     \/ SalirDelMenu(c)

ejecutarMenuEmpleado(c) ==
  /\ AlMenu(c, "EMPLEADO")
  /\ \/ \E t \in Listas : VerLista(c, t)
     \/ \E v \in Vuelos : buscarVueloPorCodigo(c, v)
     \/ CambiarUsuario(c)
     \/ SalirDelMenu(c)

\* An option that is not a number: std::cin fails, opcion is 0, pausar returns
\* at once, and the menu goes round with no user for ever.
OpcionNoNumerica(c) ==
  /\ pc[c] = "menu" /\ ~trabado[c]
  /\ Libre(c)
  /\ trabado' = [trabado EXCEPT ![c] = TRUE]
  /\ UNCHANGED <<red, cargas, pedidas, cliente>>

\* The process ends, by SALIR or killed.
TerminarAntiguo(c) ==
  /\ Morir(c) \/ SalirContestado(c)
  /\ trabado' = [trabado EXCEPT ![c] = FALSE]

PasoAntiguo(c) == LoginRecibido(c) \/ MenuRecibido(c)

AntiguoNext(c, escuchando) ==
  \/ /\ \/ Conectar(c, escuchando)
        \/ \E credencial \in Credenciales : hacerLogin(c, credencial)
        \/ ejecutarMenuAdmin(c) \/ ejecutarMenuEmpleado(c)
        \/ PasoAntiguo(c)
     /\ UNCHANGED trabado
  \/ OpcionNoNumerica(c)
  \/ TerminarAntiguo(c)
===========================================================================
