-------------------------- MODULE Airflow_proofs --------------------------
(***************************************************************************)
(* Theorems of Airflow and AirflowMixto, for any clients, listings,        *)
(* flights and bounds.                                                     *)
(***************************************************************************)
EXTENDS AirflowMixto, SequenceTheorems, TLAPS

----------------------------------------------------------------------------
(* What recv takes from a stream *)

\* What one recv takes and what it leaves are sequences of the same things;
\* it takes at least one, from the front.
LEMMA Recv ==
  ASSUME NEW S, NEW s \in Seq(S), NEW p \in Prefijos(s)
  PROVE  /\ p \in Seq(S)
         /\ Len(p) \in 1..Len(s)
         /\ \A i \in 1..Len(p) : p[i] = s[i]
         /\ Resto(s, p) \in Seq(S)
         /\ Len(Resto(s, p)) = Len(s) - Len(p)
         /\ \A i \in 1..Len(Resto(s, p)) : Resto(s, p)[i] = s[i + Len(p)]
<1>1. PICK n \in 1..Len(s) : p = SubSeq(s, 1, n)
  BY DEF Prefijos
<1>2. n \in Int /\ n \in Nat /\ Len(s) \in Nat /\ n >= 1 /\ n <= Len(s)
  OBVIOUS
<1>3. \A i \in 1..n : s[i] \in S
  BY <1>2, ElementOfSeq
<1>4. p \in Seq(S) /\ Len(p) = n /\ \A i \in 1..n : p[i] = s[1 + i - 1]
  BY <1>1, <1>2, <1>3, SubSeqProperties
<1>5. \A i \in n + 1..Len(s) : s[i] \in S
  BY <1>2, ElementOfSeq
<1>6. /\ SubSeq(s, n + 1, Len(s)) \in Seq(S)
      /\ Len(SubSeq(s, n + 1, Len(s))) =
           IF n + 1 <= Len(s) THEN Len(s) - (n + 1) + 1 ELSE 0
      /\ \A i \in 1..Len(s) - (n + 1) + 1 :
           SubSeq(s, n + 1, Len(s))[i] = s[n + 1 + i - 1]
  BY <1>2, <1>5, SubSeqProperties
<1> QED BY <1>2, <1>4, <1>6 DEF Resto

----------------------------------------------------------------------------
(* Types *)

\* A request the client makes has the type of requests.
LEMMA TipoTexto ==
  ASSUME NEW op \in Ops, NEW arg \in Argumentos, NEW id \in {-1, ID_PASAJERO}
  PROVE  Texto(op, arg, id) \in Peticion /\ (op # "" => Texto(op, arg, id) # NADA)
BY DEF Texto, Peticion, NADA, Orden

LEMMA TipoOrden ==
  ASSUME NEW op \in Ops
  PROVE  Orden(op) \in Peticion /\ (op # "" => Orden(op) # NADA)
BY DEF Orden, Texto, Peticion, Argumentos, NADA

LEMMA TipoNada == NADA \in Peticion
BY TipoOrden DEF NADA, Ops

\* An answer of any kind but ROL to requests received has the type of answers.
LEMMA TipoResponder ==
  ASSUME NEW p \in Seq(Peticion), Len(p) >= 1, NEW v \in Int, NEW b \in SUBSET Nat,
         NEW t \in {"DATA", "OK", "ERROR", "ROL"}, t = "ROL" => p[1].arg \in Roles
  PROVE  Responder(t, p, v, b) \in Respuesta
<1>1. p[1] \in Peticion
  BY ElementOfSeq
<1> QED BY <1>1 DEF Responder, Respuesta

LEMMA TipoError ==
  ASSUME NEW p \in Seq(Peticion), Len(p) >= 1
  PROVE  Error(p) \in Respuesta
<1>1. {} \in SUBSET Nat /\ 0 \in Int
  OBVIOUS
<1> QED BY <1>1, TipoResponder DEF Error

LEMMA TipoSinRespuesta == SIN_RESPUESTA \in Respuesta
<1>1. <<NADA>> \in Seq(Peticion) /\ Len(<<NADA>>) = 1
  BY TipoNada
<1> QED BY <1>1, TipoError DEF SIN_RESPUESTA

\* The pieces of an answer have the type of pieces.
LEMMA TipoCortes ==
  ASSUME NEW r \in Respuesta, NEW corte \in Cortes(r)
  PROVE  corte \in Seq(Trozo)
<1>1. PICK n \in IF Larga(r) THEN 1..Trozos ELSE {1} :
        corte = [k \in 1..n |-> [r |-> r, parte |-> k, de |-> n]]
  BY DEF Cortes
<1>2. n \in 1..Trozos
  BY <1>1, CotasAssumption
<1>3. \A k \in 1..n : [r |-> r, parte |-> k, de |-> n] \in Trozo
  BY <1>2, CotasAssumption DEF Trozo
<1> QED BY <1>1, <1>2, <1>3, CotasAssumption

\* What procesarPeticion does keeps the types of what it changes.
LEMMA TipoProcesar ==
  ASSUME ServidorTypeOK, NEW p \in Seq(Peticion), Len(p) >= 1, procesarPeticion(p)
  PROVE  /\ idUsuarioActual' \in {-1, ID_PASAJERO}
         /\ respuesta' \in Respuesta
         /\ consola' \in {"reposo", "cargando"}
         /\ billete' \in Tabla([id : Nat, id_usuario : {ID_PASAJERO}, id_vuelo : Vuelos])
         /\ vuelos' \subseteq Vuelos
         /\ version' \in Nat /\ verServidor' \in Nat /\ borrado' \in Nat
<1> USE DEF ServidorTypeOK
<1>0. {} \in SUBSET Nat /\ 0 \in Int /\ SIN_FILAS \in Int /\ version \in Int
  BY DEF SIN_FILAS
<1>1. CASE procesarLogin(p)
  <2>1. respuesta' \in Respuesta
    <3>1. p[1].arg \in {"ADMIN", "EMPLEADO", "PASAJERO"} => p[1].arg \in Roles
      BY DEF Roles
    <3> QED BY <1>0, <1>1, <3>1, TipoResponder, TipoError DEF procesarLogin
  <2> QED BY <1>1, <2>1 DEF procesarLogin, bd
<1>2. CASE Listar(p)
  <2>1. respuesta' \in Respuesta
    BY <1>0, <1>2, TipoResponder DEF Listar
  <2> QED BY <1>2, <2>1 DEF Listar, bd
<1>3. CASE BuscarVuelo(p)
  <2>1. respuesta' \in Respuesta
    BY <1>0, <1>3, TipoResponder, TipoError DEF BuscarVuelo
  <2> QED BY <1>3, <2>1 DEF BuscarVuelo, bd
<1>4. CASE BuscarVuelosOrigenDestino(p)
  <2>1. respuesta' \in Respuesta
    BY <1>0, <1>4, TipoResponder, TipoError DEF BuscarVuelosOrigenDestino
  <2> QED BY <1>4, <2>1 DEF BuscarVuelosOrigenDestino, bd
<1>5. CASE CargarCSV(p)
  <2>1. respuesta' \in Respuesta
    BY <1>0, <1>5, TipoResponder DEF CargarCSV
  <2> QED BY <1>5, <2>1 DEF CargarCSV
<1>6. CASE ComprarBillete(p)
  <2>1. p[1] \in Peticion
    BY ElementOfSeq
  <2>2. billete' \in Tabla([id : Nat, id_usuario : {ID_PASAJERO}, id_vuelo : Vuelos])
    BY <1>6, <2>1 DEF ComprarBillete, billete_insertar, Insertar, Tabla, Peticion, ID_PASAJERO
  <2>3. respuesta' \in Respuesta
    <3>1. billete'.seq \in Nat
      BY <2>2 DEF Tabla
    <3> QED BY <1>0, <1>6, <3>1, TipoResponder, TipoError DEF ComprarBillete
  <2> QED BY <1>6, <2>2, <2>3 DEF ComprarBillete
<1>7. CASE VerMisBilletes(p)
  <2>1. {f.id : f \in {g \in billete.filas : g.id_usuario = idUsuarioActual}} \in SUBSET Nat
    BY DEF Tabla
  <2>2. respuesta' \in Respuesta
    BY <1>0, <1>7, <2>1, TipoResponder, TipoError DEF VerMisBilletes
  <2> QED BY <1>7, <2>2 DEF VerMisBilletes, bd
<1>8. CASE Salir(p)
  <2>1. respuesta' \in Respuesta
    BY <1>0, <1>8, TipoResponder DEF Salir
  <2> QED BY <1>8, <2>1 DEF Salir, bd
<1>9. CASE NoReconocida(p) \/ SinMemoria(p)
  BY <1>9, TipoError DEF NoReconocida, SinMemoria, bd
<1> QED BY <1>1, <1>2, <1>3, <1>4, <1>5, <1>6, <1>7, <1>8, <1>9 DEF procesarPeticion

\* A request of a client keeps the types, if the rest of its action does.
LEMMA TipoPedir ==
  ASSUME RedTypeOK, ControladorTypeOK, NEW c \in Clientes, NEW p \in Peticion, Pedir(c, p),
         cargas' \in Nat, pedidas' \in Nat,
         pc' \in [Clientes -> {"login", "menu", "comprar", "confirmar"}],
         codigo' \in [Clientes -> Vuelos \cup {""}]
  PROVE  RedTypeOK' /\ ControladorTypeOK'
<1>1. al_servidor' \in [Clientes -> Seq(Peticion)]
  <2>1. Append(al_servidor[c], p) \in Seq(Peticion)
    <3>1. al_servidor[c] \in Seq(Peticion)
      BY DEF RedTypeOK
    <3> QED BY <3>1, AppendProperties
  <2> QED BY <2>1 DEF RedTypeOK, Pedir
<1>2. pendiente' \in [Clientes -> Peticion]
  BY DEF ControladorTypeOK, Pedir
<1>3. UNCHANGED <<cola, atendido, abierto, al_cliente, rol, idUsuarioAutenticado,
                  cache, entero, confirmados>>
  BY DEF Pedir
<1> QED BY <1>1, <1>2, <1>3 DEF RedTypeOK, ControladorTypeOK

\* The caches of a new client have their type.
LEMMA TipoSinCache ==
  SinCache \in [Listas -> Contenidos]
BY DEF SinCache, NO_VALIDA, Contenido, Contenidos, Argumentos

\* The end of a client keeps the types.
LEMMA TipoTerminar ==
  ASSUME RedTypeOK, ControladorTypeOK, NEW c \in Clientes, Terminar(c)
  PROVE  RedTypeOK' /\ ControladorTypeOK'
<1>1. al_servidor' \in [Clientes -> Seq(Peticion)] /\ al_cliente' \in [Clientes -> Seq(Trozo)]
  <2>1. <<>> \in Seq(Peticion) /\ <<>> \in Seq(Trozo)
    OBVIOUS
  <2> QED BY <2>1 DEF RedTypeOK, Terminar
<1>2. RedTypeOK'
  BY <1>1 DEF RedTypeOK, Terminar
<1>3. pendiente' \in [Clientes -> Peticion]
  BY TipoNada DEF ControladorTypeOK, Terminar
<1>4. cache' \in [Clientes -> [Listas -> Contenidos]]
  BY TipoSinCache DEF ControladorTypeOK, Terminar
<1>5. ControladorTypeOK'
  BY <1>3, <1>4 DEF ControladorTypeOK, Terminar
<1> QED BY <1>2, <1>5

\* What a piece of an answer holds.
LEMMA TipoPieza ==
  ASSUME NEW texto \in Seq(Trozo), NEW i \in DOMAIN texto
  PROVE  /\ texto[i].r \in Respuesta
         /\ texto[i].r.a \in Peticion
         /\ texto[i].r.a.arg \in Argumentos
         /\ texto[i].r.tipo = "ROL" => texto[i].r.a.arg \in Roles
         /\ texto[i].r.version \in Int
         /\ texto[i].r.billetes \in SUBSET Nat
<1>1. i \in 1..Len(texto)
  OBVIOUS
<1>2. texto[i] \in Trozo
  BY <1>1, ElementOfSeq
<1> DEFINE r == texto[i].r
<1>3. r \in Respuesta
  BY <1>2 DEF Trozo
<1>4. r.a \in Peticion /\ r.version \in Int /\ r.billetes \in SUBSET Nat
      /\ (r.tipo = "ROL" => r.a.arg \in Roles)
  BY <1>3 DEF Respuesta
<1>5. r.a.arg \in Argumentos
  BY <1>4 DEF Peticion
<1> QED BY <1>3, <1>4, <1>5

\* A text that is not empty has a first piece.
LEMMA Primero ==
  ASSUME NEW texto \in Seq(Trozo), texto # <<>>
  PROVE  1 \in DOMAIN texto
<1>1. Len(texto) \in Nat /\ Len(texto) # 0
  BY EmptySeq
<1> QED BY <1>1

LEMMA TipoOtroTexto == OTRO_TEXTO \in Contenidos
BY DEF OTRO_TEXTO, Contenido, Contenidos, Argumentos

\* What a cache keeps of an answer has its type.
LEMMA TipoGuardado ==
  ASSUME NEW texto \in Seq(Trozo)
  PROVE  Guardado(texto) \in Contenidos
<1>2. CASE Guardado(texto) = OTRO_TEXTO
  BY <1>2, TipoOtroTexto
<1>3. CASE /\ texto # <<>>
           /\ Guardado(texto) = Contenido("lista", texto[1].r.a.arg, texto[1].r.version)
  <2>1. texto[1].r.a.arg \in Argumentos /\ texto[1].r.version \in Int
    BY <1>3, Primero, TipoPieza
  <2> QED BY <1>3, <2>1 DEF Contenido, Contenidos
<1> QED BY <1>2, <1>3 DEF Guardado

\* The tickets an answer confirms are numbers.
LEMMA TipoConfirmados ==
  ASSUME NEW texto \in Seq(Trozo)
  PROVE  UNION {texto[i].r.billetes : i \in {j \in DOMAIN texto : texto[j].r.tipo = "OK"}}
           \in SUBSET Nat
<1>1. \A i \in DOMAIN texto : texto[i].r.billetes \in SUBSET Nat
  BY TipoPieza
<1> QED BY <1>1, Zenon

\* The answer to a login sets a role and an id of its type.
LEMMA TipoLogin ==
  ASSUME ControladorTypeOK, NEW c \in Clientes, NEW texto \in Seq(Trozo),
         LoginContestado(c, texto)
  PROVE  /\ pc' \in [Clientes -> {"login", "menu", "comprar", "confirmar"}]
         /\ rol' \in [Clientes -> Roles \cup {""}]
         /\ idUsuarioAutenticado' \in [Clientes -> {-1, ID_PASAJERO}]
<1>0. /\ pc \in [Clientes -> {"login", "menu", "comprar", "confirmar"}]
      /\ rol \in [Clientes -> Roles \cup {""}]
      /\ idUsuarioAutenticado \in [Clientes -> {-1, ID_PASAJERO}]
  BY DEF ControladorTypeOK
<1>1. CASE UNCHANGED <<pc, rol, idUsuarioAutenticado>>
  BY <1>0, <1>1
<1>2. CASE /\ texto # <<>> /\ texto[1].r.tipo = "ROL"
           /\ pc' = [pc EXCEPT ![c] = "menu"]
           /\ rol' = [rol EXCEPT ![c] = texto[1].r.a.arg]
           /\ idUsuarioAutenticado' = [idUsuarioAutenticado EXCEPT ![c] = -1]
  <2>1. texto[1].r.a.arg \in Roles
    BY <1>2, Primero, TipoPieza
  <2> QED BY <1>0, <1>2, <2>1
<1>3. CASE /\ pc' = [pc EXCEPT ![c] = "menu"]
           /\ rol' = [rol EXCEPT ![c] = "PASAJERO"]
           /\ idUsuarioAutenticado' = [idUsuarioAutenticado EXCEPT ![c] = ID_PASAJERO]
  BY <1>0, <1>3 DEF Roles
<1> QED BY <1>1, <1>2, <1>3 DEF LoginContestado

\* What a client does with the text of a recv keeps the types.
LEMMA TipoContestar ==
  ASSUME ControladorTypeOK, NEW c \in Clientes, NEW texto \in Seq(Trozo),
         Contestar(c, texto)
  PROVE  ControladorTypeOK'
<1>1. /\ pc' \in [Clientes -> {"login", "menu", "comprar", "confirmar"}]
      /\ rol' \in [Clientes -> Roles \cup {""}]
      /\ idUsuarioAutenticado' \in [Clientes -> {-1, ID_PASAJERO}]
      /\ codigo' \in [Clientes -> Vuelos \cup {""}]
      /\ cache' \in [Clientes -> [Listas -> Contenidos]]
  <2>1. CASE LoginContestado(c, texto)
    BY <2>1, TipoLogin DEF LoginContestado, ControladorTypeOK
  <2>2. CASE ListaContestada(c, texto)
    BY <2>2, TipoGuardado DEF ListaContestada, ControladorTypeOK
  <2>3. CASE CargaContestada(c)
    BY <2>3, TipoSinCache DEF CargaContestada, ControladorTypeOK
  <2>4. CASE InfoContestada(c)
    BY <2>4 DEF InfoContestada, ControladorTypeOK
  <2>5. CASE TextoMostrado(c)
    BY <2>5 DEF TextoMostrado, ControladorTypeOK
  <2> QED BY <2>1, <2>2, <2>3, <2>4, <2>5 DEF Contestar
<1>2. pendiente' \in [Clientes -> Peticion]
  BY TipoNada DEF Contestar, ControladorTypeOK
<1>3. entero' \in [Clientes -> BOOLEAN]
  BY DEF Contestar, ControladorTypeOK
<1>4. confirmados' \in [Clientes -> SUBSET Nat]
  <2> DEFINE nuevos ==
        UNION {texto[i].r.billetes : i \in {j \in DOMAIN texto : texto[j].r.tipo = "OK"}}
  <2>1. nuevos \in SUBSET Nat
    BY TipoConfirmados
  <2>2. confirmados \in [Clientes -> SUBSET Nat]
    BY DEF ControladorTypeOK
  <2>3. confirmados' = [confirmados EXCEPT ![c] = @ \cup nuevos]
    BY DEF Contestar
  <2> HIDE DEF nuevos
  <2> QED BY <2>1, <2>2, <2>3
<1> QED BY <1>1, <1>2, <1>3, <1>4 DEF ControladorTypeOK

\* What the requests of a client have in common.
Pide(c) ==
  /\ \E p \in Peticion \ {NADA} : Pedir(c, p)
  /\ pc' \in [Clientes -> {"login", "menu", "comprar", "confirmar"}]
  /\ codigo' \in [Clientes -> Vuelos \cup {""}]
  /\ cargas' \in Nat /\ pedidas' \in Nat

\* A client connects, ends, asks, reads an answer or talks to its user.
LEMMA PasosDelCliente ==
  ASSUME RedTypeOK, ControladorTypeOK, NEW c \in Clientes, NEW e \in BOOLEAN,
         ClienteNext(c, e)
  PROVE  \/ Conectar(c, e) \/ Terminar(c) \/ Pide(c)
         \/ Cancelar(c) \/ CambiarUsuario(c) \/ RecibirRespuesta(c)
<1>1. /\ pc \in [Clientes -> {"login", "menu", "comprar", "confirmar"}]
      /\ codigo \in [Clientes -> Vuelos \cup {""}]
  BY DEF ControladorTypeOK
<1>2. cargas \in Nat /\ pedidas \in Nat
  BY DEF RedTypeOK
<1>3. \A p \in Peticion \ {NADA} :
        (Pedir(c, p) /\ UNCHANGED <<pc, codigo, cargas, pedidas>>) => Pide(c)
  BY <1>1, <1>2 DEF Pide
<1>4. \A op \in Ops \ {""} : Orden(op) \in Peticion \ {NADA}
  BY TipoOrden
<1>5. ASSUME NEW x \in Credenciales, hacerLogin(c, x) PROVE Pide(c)
  <2>1. x \in Argumentos /\ "LOGIN" \in Ops /\ -1 \in {-1, ID_PASAJERO}
    BY CredencialesAssumption DEF Argumentos, Ops
  <2>2. Texto("LOGIN", x, -1) \in Peticion \ {NADA}
    BY <2>1, TipoTexto
  <2> QED BY <1>3, <1>5, <2>2 DEF hacerLogin
<1>6. ASSUME NEW t \in Listas, VerLista(c, t) PROVE Pide(c)
  <2>1. t \in Argumentos /\ "LISTAR" \in Ops /\ -1 \in {-1, ID_PASAJERO}
    BY DEF Argumentos, Ops
  <2>2. Texto("LISTAR", t, -1) \in Peticion \ {NADA}
    BY <2>1, TipoTexto
  <2> QED BY <1>3, <1>6, <2>2 DEF VerLista
<1>7. ASSUME NEW v \in Vuelos PROVE Texto("BUSCAR_VUELO", v, -1) \in Peticion \ {NADA}
  <2>1. v \in Argumentos /\ "BUSCAR_VUELO" \in Ops /\ -1 \in {-1, ID_PASAJERO}
    BY DEF Argumentos, Ops
  <2> QED BY <2>1, TipoTexto
<1>8. ASSUME NEW v \in Vuelos, buscarVueloPorCodigo(c, v) PROVE Pide(c)
  BY <1>3, <1>7, <1>8 DEF buscarVueloPorCodigo
<1>9. ASSUME NEW v \in Vuelos, comprarBillete(c, v) PROVE Pide(c)
  <2>1. /\ pc' \in [Clientes -> {"login", "menu", "comprar", "confirmar"}]
        /\ codigo' \in [Clientes -> Vuelos \cup {""}]
    BY <1>1, <1>9 DEF comprarBillete
  <2> QED BY <1>2, <1>7, <1>9, <2>1 DEF comprarBillete, Pide
<1>10. CASE buscarVuelosOrigenDestino(c)
  BY <1>3, <1>4, <1>10 DEF buscarVuelosOrigenDestino, Ops
<1>11. CASE CargarCSVEnBD(c)
  <2>1. Pedir(c, Orden("CARGAR_CSV")) /\ Orden("CARGAR_CSV") \in Peticion \ {NADA}
    BY <1>4, <1>11 DEF CargarCSVEnBD, Ops
  <2>2. cargas' = cargas + 1 /\ UNCHANGED <<pedidas, pc, codigo>>
    BY <1>11 DEF CargarCSVEnBD
  <2>3. cargas' \in Nat
    BY <1>2, <2>2
  <2> QED BY <1>1, <1>2, <2>1, <2>2, <2>3 DEF Pide
<1>12. CASE verMisBilletes(c)
  BY <1>3, <1>4, <1>12 DEF verMisBilletes, Ops
<1>13. CASE Confirmar(c)
  <2>1. codigo[c] \in Argumentos /\ idUsuarioAutenticado[c] \in {-1, ID_PASAJERO}
        /\ "COMPRAR_BILLETE" \in Ops
    BY DEF ControladorTypeOK, Argumentos, Ops
  <2>2. Texto("COMPRAR_BILLETE", codigo[c], idUsuarioAutenticado[c]) \in Peticion \ {NADA}
    BY <2>1, TipoTexto
  <2>3. /\ pc' \in [Clientes -> {"login", "menu", "comprar", "confirmar"}]
        /\ codigo' \in [Clientes -> Vuelos \cup {""}]
    BY <1>1, <1>13 DEF Confirmar
  <2>4. pedidas' = pedidas + 1 /\ cargas' = cargas
    BY <1>13 DEF Confirmar
  <2>5. pedidas' \in Nat /\ cargas' \in Nat
    BY <1>2, <2>4
  <2> QED BY <1>13, <2>2, <2>3, <2>5 DEF Confirmar, Pide
<1>14. CASE SalirDelMenu(c)
  BY <1>3, <1>4, <1>14 DEF SalirDelMenu, Ops
<1>15. Morir(c) \/ SalirContestado(c) => Terminar(c)
  BY DEF Morir, SalirContestado
<1> QED BY <1>5, <1>6, <1>8, <1>9, <1>10, <1>11, <1>12, <1>13, <1>14, <1>15
        DEF ClienteNext, PasoCliente

\* A recv leaves in the sockets what has their type.
LEMMA TipoQuitar ==
  ASSUME RedTypeOK, NEW c \in Clientes,
         \/ UNCHANGED al_cliente
         \/ \E p \in Prefijos(al_cliente[c]) :
              al_cliente' = [al_cliente EXCEPT ![c] = Resto(@, p)]
  PROVE  al_cliente' \in [Clientes -> Seq(Trozo)]
<1>1. CASE UNCHANGED al_cliente
  BY <1>1 DEF RedTypeOK
<1>2. ASSUME NEW p \in Prefijos(al_cliente[c]),
             al_cliente' = [al_cliente EXCEPT ![c] = Resto(@, p)]
      PROVE  al_cliente' \in [Clientes -> Seq(Trozo)]
  <2>1. al_cliente[c] \in Seq(Trozo)
    BY DEF RedTypeOK
  <2>2. Resto(al_cliente[c], p) \in Seq(Trozo)
    BY <2>1, Recv
  <2> QED BY <1>2, <2>2 DEF RedTypeOK
<1> QED BY <1>1, <1>2

\* Every step of a client keeps the types and leaves the server as it is.
LEMMA TipoCliente ==
  ASSUME RedTypeOK, ControladorTypeOK, NEW c \in Clientes, NEW e \in BOOLEAN,
         ClienteNext(c, e)
  PROVE  RedTypeOK' /\ ControladorTypeOK' /\ UNCHANGED atendido
<1>1. CASE Conectar(c, e)
  <2>1. cola' \in Seq(Clientes)
    BY <1>1, AppendProperties DEF Conectar, RedTypeOK
  <2>2. abierto' \in [Clientes -> BOOLEAN] /\ entero' \in [Clientes -> BOOLEAN]
    BY <1>1 DEF Conectar, RedTypeOK, ControladorTypeOK
  <2>3. UNCHANGED <<atendido, al_servidor, al_cliente, cargas, pedidas, pc,
                    pendiente, rol, idUsuarioAutenticado, codigo, cache, confirmados>>
    BY <1>1 DEF Conectar
  <2> QED BY <2>1, <2>2, <2>3 DEF RedTypeOK, ControladorTypeOK
<1>2. CASE Terminar(c)
  BY <1>2, TipoTerminar DEF Terminar
<1>3. CASE Pide(c)
  <2>1. PICK p \in Peticion \ {NADA} : Pedir(c, p)
    BY <1>3 DEF Pide
  <2>2. UNCHANGED atendido
    BY <2>1 DEF Pedir
  <2> QED BY <1>3, <2>1, <2>2, TipoPedir DEF Pide
<1>4. CASE Cancelar(c)
  BY <1>4 DEF Cancelar, red, RedTypeOK, ControladorTypeOK
<1>5. CASE CambiarUsuario(c)
  BY <1>5 DEF CambiarUsuario, red, RedTypeOK, ControladorTypeOK
<1>6. CASE RecibirRespuesta(c)
  <2>1. PICK texto \in Seq(Trozo) : Contestar(c, texto)
    <3>1. al_cliente[c] \in Seq(Trozo) /\ <<>> \in Seq(Trozo)
      BY DEF RedTypeOK
    <3> QED BY <1>6, <3>1, Recv DEF RecibirRespuesta
  <2>2. al_cliente' \in [Clientes -> Seq(Trozo)]
    BY <1>6, TipoQuitar DEF RecibirRespuesta
  <2>3. UNCHANGED <<cola, atendido, abierto, al_servidor, cargas, pedidas>>
    BY <2>1 DEF Contestar
  <2>4. ControladorTypeOK'
    BY <2>1, TipoContestar
  <2> QED BY <2>2, <2>3, <2>4 DEF RedTypeOK
<1> QED BY <1>1, <1>2, <1>3, <1>4, <1>5, <1>6, PasosDelCliente

\* Every step of the server or the console keeps the types.
LEMMA TipoServidor ==
  ASSUME TypeOK, ServidorNext
  PROVE  /\ RedTypeOK' /\ ServidorTypeOK'
         /\ (servidor \in {"recv", "enviar"} <=> atendido # NADIE)'
<1> USE NadieAssumption
<1>0. RedTypeOK /\ ServidorTypeOK /\ (servidor \in {"recv", "enviar"} <=> atendido # NADIE)
  BY DEF TypeOK
<1>a. atendido # NADIE => atendido \in Clientes
  BY <1>0 DEF RedTypeOK
<1>b. <<>> \in Seq(Peticion) /\ <<>> \in Seq(Clientes) /\ <<>> \in Seq(Trozo)
  OBVIOUS
<1>c. Limpiar =>
        /\ billete' \in Tabla([id : Nat, id_usuario : {ID_PASAJERO}, id_vuelo : Vuelos])
        /\ borrado' \in Nat
  BY <1>0 DEF Limpiar, db_limpiar_billetes, Tabla, ServidorTypeOK
<1>d. ASSUME cerrarCliente, atendido # NADIE
      PROVE  /\ al_servidor' \in [Clientes -> Seq(Peticion)]
             /\ atendido' = NADIE /\ servidor' = "escucha"
             /\ idUsuarioActual' = -1
  BY <1>0, <1>b, <1>d DEF cerrarCliente, RedTypeOK
<1>1. CASE Aceptar
  <2>1. atendido' \in Clientes /\ cola' \in Seq(Clientes)
    BY <1>0, <1>1, HeadTailProperties DEF Aceptar, RedTypeOK
  <2>2. servidor' = "recv" /\ salirCliente' = FALSE
    BY <1>1 DEF Aceptar
  <2>3. UNCHANGED <<abierto, al_servidor, al_cliente, cargas, pedidas,
                    idUsuarioActual, respuesta, consola, billete, vuelos, version,
                    verServidor, borrado>>
    BY <1>1 DEF Aceptar, bd
  <2> QED BY <1>0, <2>1, <2>2, <2>3 DEF RedTypeOK, ServidorTypeOK
<1>2. CASE Recibir
  <2>0. atendido \in Clientes
    BY <1>0, <1>a, <1>2 DEF Recibir
  <2>1. PICK p \in Prefijos(al_servidor[atendido]) :
          /\ al_servidor' = [al_servidor EXCEPT ![atendido] = Resto(@, p)]
          /\ salirCliente' = (p = <<Orden("SALIR")>>)
          /\ procesarPeticion(p)
    BY <1>2 DEF Recibir
  <2>2. al_servidor[atendido] \in Seq(Peticion)
    BY <1>0, <2>0 DEF RedTypeOK
  <2>3. p \in Seq(Peticion) /\ Len(p) >= 1 /\ Resto(al_servidor[atendido], p) \in Seq(Peticion)
    BY <2>2, Recv
  <2>4. /\ idUsuarioActual' \in {-1, ID_PASAJERO}
        /\ respuesta' \in Respuesta
        /\ consola' \in {"reposo", "cargando"}
        /\ billete' \in Tabla([id : Nat, id_usuario : {ID_PASAJERO}, id_vuelo : Vuelos])
        /\ vuelos' \subseteq Vuelos
        /\ version' \in Nat /\ verServidor' \in Nat /\ borrado' \in Nat
    BY <1>0, <2>1, <2>3, TipoProcesar
  <2>5. al_servidor' \in [Clientes -> Seq(Peticion)] /\ salirCliente' \in BOOLEAN
    BY <1>0, <2>1, <2>3 DEF RedTypeOK
  <2>6. servidor' = "enviar" /\ UNCHANGED <<cola, atendido, abierto, al_cliente, cargas, pedidas>>
    BY <1>2 DEF Recibir
  <2> QED BY <1>0, <2>0, <2>4, <2>5, <2>6 DEF RedTypeOK, ServidorTypeOK
<1>3. CASE Enviar
  <2>0. atendido \in Clientes
    BY <1>0, <1>a, <1>3 DEF Enviar
  <2>1. al_cliente' \in [Clientes -> Seq(Trozo)]
    <3>1. CASE UNCHANGED al_cliente
      BY <1>0, <3>1 DEF RedTypeOK
    <3>2. ASSUME NEW corte \in Cortes(respuesta),
                 al_cliente' = [al_cliente EXCEPT ![atendido] = @ \o corte]
          PROVE  al_cliente' \in [Clientes -> Seq(Trozo)]
      <4>1. corte \in Seq(Trozo) /\ al_cliente[atendido] \in Seq(Trozo)
        BY <1>0, <2>0, TipoCortes DEF RedTypeOK, ServidorTypeOK
      <4>2. al_cliente[atendido] \o corte \in Seq(Trozo)
        BY <4>1, ConcatProperties
      <4> QED BY <1>0, <3>2, <4>2 DEF RedTypeOK
    <3> QED BY <1>3, <3>1, <3>2 DEF Enviar
  <2>2. CASE cerrarCliente
    BY <1>0, <1>3, <1>d, <2>0, <2>1, <2>2, TipoSinRespuesta DEF Enviar, bd, RedTypeOK, ServidorTypeOK
  <2>3. CASE servidor' = "recv" /\ UNCHANGED <<atendido, idUsuarioActual, al_servidor>>
    BY <1>0, <1>3, <2>0, <2>1, <2>3, TipoSinRespuesta DEF Enviar, bd, RedTypeOK, ServidorTypeOK
  <2> QED BY <1>3, <2>2, <2>3 DEF Enviar
<1>4. CASE Desconectado
  BY <1>0, <1>4, <1>d DEF Desconectado, bd, RedTypeOK, ServidorTypeOK
<1>5. CASE Arrancar
  BY <1>0, <1>5, <1>c DEF Arrancar, red, RedTypeOK, ServidorTypeOK
<1>6. CASE SegundoServidor
  BY <1>0, <1>6, <1>c DEF SegundoServidor, red, sesion, RedTypeOK, ServidorTypeOK
<1>7. CASE Caer
  <2>1. al_cliente' \in [Clientes -> Seq(Trozo)]
    BY <1>0, <1>7, <1>b DEF Caer, RedTypeOK
  <2>2. vuelos' \subseteq Vuelos
    BY <1>0, <1>7 DEF Caer, ServidorTypeOK
  <2>3. /\ cola' = <<>> /\ atendido' = NADIE /\ servidor' = "apagado"
        /\ idUsuarioActual' = -1 /\ salirCliente' = FALSE
        /\ respuesta' = SIN_RESPUESTA
        /\ al_servidor' = [c \in Clientes |-> <<>>]
    BY <1>7 DEF Caer
  <2>4. UNCHANGED <<abierto, cargas, pedidas, consola, billete, version,
                    verServidor, borrado>>
    BY <1>7 DEF Caer
  <2> QED BY <1>0, <1>b, <2>1, <2>2, <2>3, <2>4, TipoSinRespuesta DEF RedTypeOK, ServidorTypeOK
<1>8. CASE ConsolaEmpieza
  BY <1>0, <1>8 DEF ConsolaEmpieza, red, sesion, RedTypeOK, ServidorTypeOK
<1>9. ASSUME NEW v \in Vuelos, ConsolaInserta(v)
      PROVE  /\ RedTypeOK' /\ ServidorTypeOK'
             /\ (servidor \in {"recv", "enviar"} <=> atendido # NADIE)'
  BY <1>0, <1>9 DEF ConsolaInserta, red, sesion, RedTypeOK, ServidorTypeOK
<1>10. CASE ConsolaTermina
  BY <1>0, <1>10 DEF ConsolaTermina, red, sesion, RedTypeOK, ServidorTypeOK
<1> QED BY <1>1, <1>2, <1>3, <1>4, <1>5, <1>6, <1>7, <1>8, <1>9, <1>10
        DEF ServidorNext, PasoServidor

\* Every step keeps TypeOK.
LEMMA TipoPaso == TypeOK /\ [Next]_vars => TypeOK'
<1> SUFFICES ASSUME TypeOK, [Next]_vars PROVE TypeOK'
  OBVIOUS
<1>1. CASE ServidorNext /\ UNCHANGED cliente
  <2>1. ControladorTypeOK'
    BY <1>1 DEF TypeOK, ControladorTypeOK, cliente
  <2> QED BY <1>1, <2>1, TipoServidor DEF TypeOK
<1>2. ASSUME NEW c \in Clientes, ClienteNext(c, servidor # "apagado"), UNCHANGED <<sesion, bd>>
      PROVE  TypeOK'
  <2>1. RedTypeOK' /\ ControladorTypeOK' /\ UNCHANGED atendido
    <3>1. (servidor # "apagado") \in BOOLEAN
      OBVIOUS
    <3> QED BY <1>2, <3>1, TipoCliente DEF TypeOK
  <2>2. ServidorTypeOK' /\ UNCHANGED servidor
    BY <1>2 DEF TypeOK, ServidorTypeOK, sesion, bd
  <2> QED BY <2>1, <2>2 DEF TypeOK
<1>3. CASE UNCHANGED vars
  BY <1>3 DEF vars, red, sesion, bd, cliente, TypeOK, RedTypeOK, ServidorTypeOK,
              ControladorTypeOK
<1> QED BY <1>1, <1>2, <1>3 DEF Next

\* The system starts with every variable in its type.
LEMMA TipoInicial == Init => TypeOK
<1> SUFFICES ASSUME Init PROVE TypeOK
  OBVIOUS
<1>1. RedTypeOK
  BY DEF Init, RedInit, RedTypeOK
<1>2. ServidorTypeOK
  BY TipoSinRespuesta DEF Init, ServidorInit, ServidorTypeOK, Tabla, TablaVacia
<1>3. ControladorTypeOK
  BY TipoNada, TipoSinCache DEF Init, ControladorInit, ControladorTypeOK, ID_PASAJERO
<1>4. ~(servidor \in {"recv", "enviar"}) /\ atendido = NADIE
  BY DEF Init, RedInit, ServidorInit
<1> QED BY <1>1, <1>2, <1>3, <1>4 DEF TypeOK

\* The variables of the clients, the connections and the server keep their
\* types, and main is in recv or send exactly while it has a client.
THEOREM TipoCorrectoRed == Spec => []TypeOK
<1> QED BY TipoInicial, TipoPaso, PTL DEF Spec

----------------------------------------------------------------------------
(* Nobody waits for an answer that nobody is going to send                 *)

\* A client whose process ended waits for nothing, and a client is in the
\* backlog once at most and never while it is being served: connect comes
\* after the end of its last connection, and the backlog has room for one.
Conexiones ==
  /\ \A c \in Clientes : abierto[c] \/ pendiente[c] = NADA
  /\ Len(cola) <= BACKLOG
  /\ \A i \in DOMAIN cola : cola[i] # atendido

\* Closing the connection of atendido would leave it waiting if it were in the
\* backlog too, and a reply to a client that is gone would be lost if it could
\* still be waiting: NadieEsperaEnVano needs Conexiones to be inductive.
EsperaInv == TypeOK /\ Conexiones /\ NadieEsperaEnVano

\* NadieEsperaEnVano, for one client.
NoEnVano(c) ==
  (pendiente[c] # NADA /\ Conectado(c)) =>
    \/ al_servidor[c] # <<>>
    \/ al_cliente[c] # <<>>
    \/ atendido = c /\ servidor = "enviar"

\* Every reply is sent in at least one piece.
LEMMA CorteNoVacio ==
  ASSUME NEW r \in Respuesta, NEW corte \in Cortes(r), NEW s \in Seq(Trozo)
  PROVE  s \o corte # <<>>
<1>1. corte \in Seq(Trozo)
  BY TipoCortes
<1>2. PICK n \in IF Larga(r) THEN 1..Trozos ELSE {1} :
        corte = [k \in 1..n |-> [r |-> r, parte |-> k, de |-> n]]
  BY DEF Cortes
<1>3. n \in Nat /\ n >= 1
  BY <1>2, CotasAssumption
<1>4. Len(corte) = n
  BY <1>1, <1>2, <1>3
<1>5. Len(s \o corte) = Len(s) + Len(corte) /\ Len(s) \in Nat
  BY <1>1, ConcatProperties
<1>6. Len(s \o corte) >= 1
  BY <1>3, <1>4, <1>5
<1> QED BY <1>6

\* A backlog of nobody, and of one client.
LEMMA ColaVacia ==
  ASSUME NEW q, q = <<>>
  PROVE  Len(q) <= BACKLOG /\ \A i \in DOMAIN q : FALSE
<1>1. Len(q) = 0 /\ DOMAIN q = {}
  OBVIOUS
<1> QED BY <1>1 DEF BACKLOG

LEMMA ColaDeUno ==
  ASSUME NEW c
  PROVE  Len(<<c>>) = 1 /\ DOMAIN <<c>> = {1} /\ <<c>>[1] = c
OBVIOUS

LEMMA SinSitio ==
  ASSUME NEW s \in Seq(Clientes)
  PROVE  /\ Len(s) < 1 => s = <<>>
         /\ Len(s) <= 1 /\ s # <<>> => DOMAIN s = {1} /\ Head(s) = s[1] /\ Tail(s) = <<>>
<1>1. Len(s) \in Nat /\ DOMAIN s = 1..Len(s) /\ (Len(s) = 0 <=> s = <<>>)
  BY LenProperties, EmptySeq
<1>2. CASE Len(s) <= 1 /\ s # <<>>
  <2>1. Len(s) = 1
    BY <1>1, <1>2
  <2>2. Tail(s) \in Seq(Clientes) /\ Len(Tail(s)) = 0 /\ Head(s) = s[1]
    BY <1>2, <2>1, HeadTailProperties
  <2>3. Tail(s) = <<>>
    BY <2>2, EmptySeq
  <2> QED BY <1>1, <2>1, <2>2, <2>3
<1> QED BY <1>1, <1>2

\* A client that asks has its request on its way, if it is connected.
LEMMA EsperaPedir ==
  ASSUME EsperaInv, NEW c \in Clientes, NEW p \in Peticion, Pedir(c, p), UNCHANGED servidor
  PROVE  Conexiones' /\ NadieEsperaEnVano'
<1>1. abierto[c] /\ UNCHANGED <<cola, atendido, abierto, al_cliente>>
  BY DEF Pedir, Libre
<1>2. \A d \in Clientes \ {c} : pendiente'[d] = pendiente[d] /\ al_servidor'[d] = al_servidor[d]
  BY DEF Pedir, EsperaInv, TypeOK, RedTypeOK, ControladorTypeOK
<1>3. Conexiones'
  BY <1>1, <1>2 DEF EsperaInv, Conexiones
<1>4. Conectado(c) => al_servidor'[c] # <<>>
  <2>1. al_servidor[c] \in Seq(Peticion)
    BY DEF EsperaInv, TypeOK, RedTypeOK
  <2>2. Append(al_servidor[c], p) # <<>>
    BY <2>1, AppendProperties
  <2>3. Conectado(c) => al_servidor' = [al_servidor EXCEPT ![c] = Append(@, p)]
    BY DEF Pedir
  <2> QED BY <2>2, <2>3 DEF EsperaInv, TypeOK, RedTypeOK
<1>5. ASSUME NEW d \in Clientes PROVE NoEnVano(d)'
  <2>1. Conectado(d)' <=> Conectado(d)
    BY <1>1 DEF Conectado
  <2>2. CASE d = c
    BY <1>4, <2>1, <2>2 DEF NoEnVano
  <2>3. CASE d # c
    <3>1. NoEnVano(d)
      BY DEF EsperaInv, NadieEsperaEnVano, NoEnVano
    <3> QED BY <1>1, <1>2, <2>1, <2>3, <3>1 DEF NoEnVano
  <2> QED BY <2>2, <2>3
<1> QED BY <1>3, <1>5 DEF NadieEsperaEnVano, NoEnVano

\* A client that stops waiting, or ends, leaves the others as they were.
LEMMA EsperaNada ==
  ASSUME EsperaInv, NEW c \in Clientes,
         pendiente' = [pendiente EXCEPT ![c] = NADA],
         \A d \in Clientes \ {c} : /\ abierto'[d] = abierto[d]
                                   /\ al_servidor'[d] = al_servidor[d]
                                   /\ al_cliente'[d] = al_cliente[d],
         UNCHANGED <<cola, atendido, servidor>>
  PROVE  Conexiones' /\ NadieEsperaEnVano'
<1>1. pendiente'[c] = NADA /\ \A d \in Clientes \ {c} : pendiente'[d] = pendiente[d]
  BY DEF EsperaInv, TypeOK, ControladorTypeOK
<1>2. Conexiones'
  BY <1>1 DEF EsperaInv, Conexiones, NADA, Orden, Texto
<1>3. ASSUME NEW d \in Clientes PROVE NoEnVano(d)'
  <2>1. Conectado(d)' <=> Conectado(d)
    BY DEF Conectado
  <2>2. CASE d = c
    BY <1>1, <2>2 DEF NoEnVano, NADA, Orden, Texto
  <2>3. CASE d # c
    <3>1. NoEnVano(d)
      BY DEF EsperaInv, NadieEsperaEnVano, NoEnVano
    <3> QED BY <1>1, <2>1, <2>3, <3>1 DEF NoEnVano, NADA, Orden, Texto
  <2> QED BY <2>2, <2>3
<1> QED BY <1>2, <1>3 DEF NadieEsperaEnVano, NoEnVano

\* A step that opens, closes and delivers nothing leaves everybody as it was.
LEMMA EsperaIgual ==
  ASSUME EsperaInv, UNCHANGED <<cola, atendido, abierto, al_servidor, al_cliente, pendiente>>,
         servidor' = servidor \/ servidor # "enviar"
  PROVE  Conexiones' /\ NadieEsperaEnVano'
<1>1. Conexiones'
  BY DEF EsperaInv, Conexiones, NADA, Orden, Texto
<1>2. ASSUME NEW d \in Clientes PROVE NoEnVano(d)'
  <2>1. NoEnVano(d)
    BY DEF EsperaInv, NadieEsperaEnVano, NoEnVano
  <2> QED BY <2>1 DEF NoEnVano, Conectado, NADA, Orden, Texto
<1> QED BY <1>1, <1>2 DEF NadieEsperaEnVano, NoEnVano

\* Every step of a client leaves nobody waiting for nothing.
LEMMA EsperaCliente ==
  ASSUME EsperaInv, NEW c \in Clientes, NEW e \in BOOLEAN, ClienteNext(c, e),
         UNCHANGED servidor
  PROVE  Conexiones' /\ NadieEsperaEnVano'
<1>0. RedTypeOK /\ ControladorTypeOK /\ Conexiones
  BY DEF EsperaInv, TypeOK
<1>1. CASE Conectar(c, e)
  <2>0. cola \in Seq(Clientes) /\ Len(cola) < 1 /\ cola' = Append(cola, c)
    BY <1>0, <1>1 DEF Conectar, BACKLOG, RedTypeOK
  <2>a. cola = <<>> /\ cola' = <<c>>
    <3>1. cola = <<>>
      BY <2>0, SinSitio
    <3>2. Append(<<>>, c) = <<c>>
      OBVIOUS
    <3> QED BY <2>0, <3>1, <3>2
  <2>1. /\ ~abierto[c] /\ ~Conectado(c) /\ cola = <<>>
        /\ cola' = <<c>> /\ abierto' = [abierto EXCEPT ![c] = TRUE]
    BY <1>1, <2>a DEF Conectar
  <2>2. UNCHANGED <<atendido, al_servidor, al_cliente, pendiente>>
    BY <1>1 DEF Conectar
  <2>3. pendiente[c] = NADA /\ atendido # c
    BY <1>0, <2>1 DEF Conexiones, Conectado
  <2>4. Conexiones'
    <3>1. Len(cola') <= BACKLOG /\ \A i \in DOMAIN cola' : cola'[i] # atendido'
      BY <2>1, <2>2, <2>3, ColaDeUno DEF BACKLOG
    <3>2. \A d \in Clientes : abierto'[d] \/ pendiente'[d] = NADA
      BY <1>0, <2>1, <2>2 DEF Conexiones, RedTypeOK
    <3> QED BY <3>1, <3>2 DEF Conexiones, NADA, Orden, Texto
  <2>5. ASSUME NEW d \in Clientes PROVE NoEnVano(d)'
    <3>1. CASE d = c
      BY <2>2, <2>3, <3>1 DEF NoEnVano, NADA, Orden, Texto
    <3>2. CASE d # c
      <4>1. Conectado(d)' => Conectado(d)
        BY <2>1, <2>2, <3>2 DEF Conectado
      <4>2. NoEnVano(d)
        BY DEF EsperaInv, NadieEsperaEnVano, NoEnVano
      <4> QED BY <2>2, <4>1, <4>2 DEF NoEnVano, NADA, Orden, Texto
    <3> QED BY <3>1, <3>2
  <2> QED BY <2>4, <2>5 DEF NadieEsperaEnVano, NoEnVano
<1>2. CASE Terminar(c)
  <2>1. \A d \in Clientes \ {c} : /\ abierto'[d] = abierto[d]
                                  /\ al_servidor'[d] = al_servidor[d]
                                  /\ al_cliente'[d] = al_cliente[d]
    BY <1>0, <1>2 DEF Terminar, RedTypeOK
  <2> QED BY <1>2, <2>1, EsperaNada DEF Terminar
<1>3. CASE Pide(c)
  BY <1>3, EsperaPedir DEF Pide
<1>4. CASE Cancelar(c) \/ CambiarUsuario(c)
  BY <1>4, EsperaIgual DEF Cancelar, CambiarUsuario, red
<1>5. CASE RecibirRespuesta(c)
  <2>1. PICK texto : Contestar(c, texto)
    BY <1>5 DEF RecibirRespuesta
  <2>2. /\ pendiente' = [pendiente EXCEPT ![c] = NADA]
        /\ UNCHANGED <<cola, atendido, abierto, al_servidor>>
    BY <2>1 DEF Contestar
  <2>3. \A d \in Clientes \ {c} : al_cliente'[d] = al_cliente[d]
    BY <1>0, <1>5 DEF RecibirRespuesta, RedTypeOK
  <2> QED BY <2>2, <2>3, EsperaNada
<1> QED BY <1>0, <1>1, <1>2, <1>3, <1>4, <1>5, PasosDelCliente

\* What a step of the server or the console does to who is connected.
LEMMA EsperaServidor ==
  ASSUME EsperaInv, ServidorNext, UNCHANGED cliente
  PROVE  Conexiones' /\ NadieEsperaEnVano'
<1>0. /\ RedTypeOK /\ ServidorTypeOK /\ Conexiones
      /\ servidor \in {"recv", "enviar"} <=> atendido # NADIE
      /\ UNCHANGED pendiente
  BY DEF EsperaInv, TypeOK, cliente
<1>a. atendido # NADIE => atendido \in Clientes
  BY <1>0 DEF RedTypeOK
<1>b. \A d \in Clientes : NoEnVano(d)
  BY DEF EsperaInv, NadieEsperaEnVano, NoEnVano
<1>c. \A d \in Clientes : d # NADIE
  BY NadieAssumption
<1>d. ASSUME atendido \in Clientes, atendido' = NADIE, UNCHANGED <<cola, abierto>>,
             \A d \in Clientes \ {atendido} :
               al_servidor'[d] = al_servidor[d] /\ al_cliente'[d] = al_cliente[d]
      PROVE  Conexiones' /\ NadieEsperaEnVano'
  <2>1. Conexiones'
    <3>1. \A i \in DOMAIN cola : cola[i] \in Clientes
      BY <1>0, LenProperties, ElementOfSeq DEF RedTypeOK
    <3> QED BY <1>0, <1>c, <1>d, <3>1 DEF Conexiones, NADA, Orden, Texto
  <2>2. ASSUME NEW d \in Clientes PROVE NoEnVano(d)'
    <3>1. CASE d = atendido
      <4>1. ~Conectado(d)'
        BY <1>0, <1>c, <1>d, <3>1 DEF Conectado, Conexiones
      <4> QED BY <4>1 DEF NoEnVano
    <3>2. CASE d # atendido
      <4>1. Conectado(d)' => Conectado(d)
        BY <1>c, <1>d DEF Conectado
      <4> QED BY <1>0, <1>b, <1>d, <3>2, <4>1 DEF NoEnVano, NADA, Orden, Texto
    <3> QED BY <3>1, <3>2
  <2> QED BY <2>1, <2>2 DEF NadieEsperaEnVano, NoEnVano
<1>1. CASE Aceptar
  <2>1. /\ atendido = NADIE /\ DOMAIN cola = {1} /\ atendido' = cola[1] /\ cola' = <<>>
        /\ UNCHANGED <<abierto, al_servidor, al_cliente>> /\ servidor # "enviar"
    <3>1. cola \in Seq(Clientes) /\ Len(cola) <= 1 /\ cola # <<>>
      BY <1>0, <1>1 DEF Aceptar, Conexiones, BACKLOG, RedTypeOK
    <3>2. DOMAIN cola = {1} /\ Head(cola) = cola[1] /\ Tail(cola) = <<>>
      BY <3>1, SinSitio
    <3> QED BY <1>0, <1>1, <3>2 DEF Aceptar
  <2>2. Conexiones'
    <3>1. Len(cola') <= BACKLOG /\ \A i \in DOMAIN cola' : FALSE
      BY <2>1, ColaVacia
    <3> QED BY <1>0, <2>1, <3>1 DEF Conexiones, NADA, Orden, Texto
  <2>3. ASSUME NEW d \in Clientes PROVE NoEnVano(d)'
    <3>1. Conectado(d)' => Conectado(d)
      BY <1>0, <2>1 DEF Conectado, RedTypeOK
    <3> QED BY <1>0, <1>b, <2>1, <3>1 DEF NoEnVano, NADA, Orden, Texto
  <2> QED BY <2>2, <2>3 DEF NadieEsperaEnVano, NoEnVano
<1>2. CASE Recibir
  <2>1. /\ servidor' = "enviar" /\ UNCHANGED <<cola, atendido, abierto, al_cliente>>
        /\ atendido \in Clientes
    BY <1>0, <1>a, <1>2 DEF Recibir
  <2>2. \A d \in Clientes \ {atendido} : al_servidor'[d] = al_servidor[d]
    BY <1>0, <1>2 DEF Recibir, RedTypeOK
  <2>3. Conexiones'
    BY <1>0, <2>1 DEF Conexiones, NADA, Orden, Texto
  <2>4. ASSUME NEW d \in Clientes PROVE NoEnVano(d)'
    BY <1>0, <1>b, <2>1, <2>2 DEF NoEnVano, Conectado, NADA, Orden, Texto
  <2> QED BY <2>3, <2>4 DEF NadieEsperaEnVano, NoEnVano
<1>3. CASE Enviar
  <2>1. atendido \in Clientes /\ UNCHANGED <<cola, abierto>>
    BY <1>0, <1>a, <1>3 DEF Enviar
  <2>2. \A d \in Clientes \ {atendido} : al_cliente'[d] = al_cliente[d]
    BY <1>0, <1>3 DEF Enviar, RedTypeOK
  <2>3. CASE cerrarCliente
    <3>1. atendido' = NADIE /\ \A d \in Clientes \ {atendido} : al_servidor'[d] = al_servidor[d]
      BY <1>0, <2>3 DEF cerrarCliente, RedTypeOK
    <3> QED BY <1>d, <2>1, <2>2, <3>1
  <2>4. CASE UNCHANGED <<atendido, al_servidor>>
    <3>1. Conexiones'
      BY <1>0, <2>1, <2>4 DEF Conexiones, NADA, Orden, Texto
    <3>2. ASSUME abierto[atendido] PROVE al_cliente'[atendido] # <<>>
      <4>1. PICK corte \in Cortes(respuesta) :
              al_cliente' = [al_cliente EXCEPT ![atendido] = @ \o corte]
        BY <1>3, <3>2 DEF Enviar
      <4> QED BY <1>0, <2>1, <4>1, CorteNoVacio DEF RedTypeOK, ServidorTypeOK
    <3>3. ASSUME ~abierto[atendido] PROVE pendiente[atendido] = NADA
      BY <1>0, <2>1, <3>3 DEF Conexiones
    <3>4. ASSUME NEW d \in Clientes PROVE NoEnVano(d)'
      <4>1. CASE d = atendido
        BY <1>0, <2>1, <2>4, <3>2, <3>3, <4>1 DEF NoEnVano, NADA, Orden, Texto
      <4>2. CASE d # atendido
        BY <1>0, <1>b, <2>1, <2>2, <2>4, <4>2 DEF NoEnVano, Conectado, NADA, Orden, Texto
      <4> QED BY <4>1, <4>2
    <3> QED BY <3>1, <3>4 DEF NadieEsperaEnVano, NoEnVano
  <2> QED BY <1>3, <2>3, <2>4 DEF Enviar
<1>4. CASE Desconectado
  <2>1. atendido \in Clientes /\ UNCHANGED <<cola, abierto, al_cliente>> /\ cerrarCliente
    BY <1>0, <1>a, <1>4 DEF Desconectado
  <2>2. atendido' = NADIE /\ \A d \in Clientes \ {atendido} : al_servidor'[d] = al_servidor[d]
    BY <1>0, <2>1 DEF cerrarCliente, RedTypeOK
  <2> QED BY <1>d, <2>1, <2>2
<1>5. CASE Arrancar
  BY <1>0, <1>5, EsperaIgual DEF Arrancar, red
<1>6. CASE SegundoServidor
  BY <1>0, <1>6, EsperaIgual DEF SegundoServidor, red, sesion
<1>7. CASE Caer
  <2>1. cola' = <<>> /\ atendido' = NADIE /\ UNCHANGED abierto
    BY <1>7 DEF Caer
  <2>2. Conexiones'
    <3>1. Len(cola') <= BACKLOG /\ \A i \in DOMAIN cola' : FALSE
      BY <2>1, ColaVacia
    <3> QED BY <1>0, <2>1, <3>1 DEF Conexiones, NADA, Orden, Texto
  <2>3. ASSUME NEW d \in Clientes PROVE ~Conectado(d)'
    BY <1>c, <2>1 DEF Conectado
  <2> QED BY <2>2, <2>3 DEF NadieEsperaEnVano
<1>8. CASE ConsolaEmpieza
  BY <1>0, <1>8, EsperaIgual DEF ConsolaEmpieza, red, sesion
<1>9. ASSUME NEW v \in Vuelos, ConsolaInserta(v)
      PROVE  Conexiones' /\ NadieEsperaEnVano'
  BY <1>0, <1>9, EsperaIgual DEF ConsolaInserta, red, sesion
<1>10. CASE ConsolaTermina
  BY <1>0, <1>10, EsperaIgual DEF ConsolaTermina, red, sesion
<1> QED BY <1>1, <1>2, <1>3, <1>4, <1>5, <1>6, <1>7, <1>8, <1>9, <1>10
        DEF ServidorNext, PasoServidor

\* EsperaInv holds at the start and every step keeps it.
LEMMA EsperaPaso == EsperaInv /\ [Next]_vars => EsperaInv'
<1> SUFFICES ASSUME EsperaInv, [Next]_vars PROVE EsperaInv'
  OBVIOUS
<1>1. TypeOK'
  BY TipoPaso DEF EsperaInv
<1>2. CASE ServidorNext /\ UNCHANGED cliente
  BY <1>1, <1>2, EsperaServidor DEF EsperaInv
<1>3. ASSUME NEW c \in Clientes, ClienteNext(c, servidor # "apagado"), UNCHANGED <<sesion, bd>>
      PROVE  EsperaInv'
  <2>1. (servidor # "apagado") \in BOOLEAN /\ UNCHANGED servidor
    BY <1>3 DEF sesion
  <2> QED BY <1>1, <1>3, <2>1, EsperaCliente DEF EsperaInv
<1>4. CASE UNCHANGED vars
  BY <1>1, <1>4, EsperaIgual DEF EsperaInv, vars, red, sesion, cliente
<1> QED BY <1>2, <1>3, <1>4 DEF Next

LEMMA EsperaInicial == Init => EsperaInv
<1> SUFFICES ASSUME Init PROVE EsperaInv
  OBVIOUS
<1>1. cola = <<>> /\ \A c \in Clientes : pendiente[c] = NADA
  BY DEF Init, RedInit, ControladorInit
<1>2. Conexiones /\ NadieEsperaEnVano
  BY <1>1, ColaVacia DEF Conexiones, NadieEsperaEnVano
<1> QED BY <1>2, TipoInicial DEF EsperaInv

\* Whatever the network joins and cuts, and whoever dies or starts again, a
\* client that waits in recv on an open connection has its request, the server
\* at work on it or an answer on its way.
THEOREM NadieEsperaSiempre == Spec => []NadieEsperaEnVano
<1>1. EsperaInv => NadieEsperaEnVano
  BY DEF EsperaInv
<1> QED BY <1>1, EsperaInicial, EsperaPaso, PTL DEF Spec

----------------------------------------------------------------------------
(* What a client reads answers what it asked: requests and replies carry   *)
(* no number, so this rests on there being one of them at most.            *)

\* The server holds a request of c that it has not answered yet.
EnMarcha(c) == atendido = c /\ servidor = "enviar"

\* The pieces of one answer to p, from the first to the last.
UnaRespuesta(s, p) == \A i \in DOMAIN s : s[i].r.a = p /\ s[i].de = Len(s)

\* While no answer came in pieces, a client's request is in one place only: in
\* its socket, in the hands of the server, or answered.
UnSitio(c) ==
  /\ al_servidor[c] # <<>> =>
       /\ al_servidor[c] = <<pendiente[c]>> /\ pendiente[c] # NADA
       /\ al_cliente[c] = <<>> /\ ~EnMarcha(c)
  /\ EnMarcha(c) =>
       /\ respuesta.a = pendiente[c] /\ pendiente[c] # NADA
       /\ al_cliente[c] = <<>>
  /\ al_cliente[c] # <<>> =>
       UnaRespuesta(al_cliente[c], pendiente[c]) /\ pendiente[c] # NADA

\* A new connection starts with nothing in it: what was sent to a process that
\* ended, or by it before the server closed, went with the old one.
Conversacion(c) ==
  /\ ~abierto[c] => al_cliente[c] = <<>>
  /\ ~Conectado(c) => al_servidor[c] = <<>>
  /\ (abierto[c] /\ entero[c]) => UnSitio(c)

ConversacionInv == EsperaInv /\ \A c \in Clientes : Conversacion(c)

----------------------------------------------------------------------------

\* What a step does not touch stays as it was.
LEMMA ConversacionIgual ==
  ASSUME NEW c \in Clientes, Conversacion(c),
         abierto'[c] = abierto[c], entero'[c] = entero[c], pendiente'[c] = pendiente[c],
         al_servidor'[c] = al_servidor[c], al_cliente'[c] = al_cliente[c],
         Conectado(c) => Conectado(c)', EnMarcha(c)' <=> EnMarcha(c),
         EnMarcha(c) => respuesta' = respuesta
  PROVE  Conversacion(c)'
<1>1. UnSitio(c) => UnSitio(c)'
  BY DEF UnSitio, UnaRespuesta, NADA, Orden, Texto
<1> QED BY <1>1 DEF Conversacion

\* A recv that takes one whole reply leaves nothing.
LEMMA RecvEntero ==
  ASSUME NEW s \in Seq(Trozo), NEW p, UnaRespuesta(s, p),
         NEW texto \in Prefijos(s), EsEntera(texto)
  PROVE  Resto(s, texto) = <<>>
<1>1. /\ texto \in Seq(Trozo) /\ Len(texto) \in 1..Len(s) /\ texto[1] = s[1]
      /\ Resto(s, texto) \in Seq(Trozo) /\ Len(Resto(s, texto)) = Len(s) - Len(texto)
  BY Recv
<1>2. Len(s) \in Nat /\ 1 \in DOMAIN s
  BY <1>1, LenProperties
<1>3. Len(texto) = Len(s)
  BY <1>1, <1>2 DEF UnaRespuesta, EsEntera
<1>4. Len(Resto(s, texto)) = 0
  BY <1>1, <1>2, <1>3
<1> QED BY <1>1, <1>4, EmptySeq

\* The pieces of a reply are the pieces of one answer.
LEMMA CorteDeUna ==
  ASSUME NEW r \in Respuesta, NEW corte \in Cortes(r)
  PROVE  UnaRespuesta(<<>> \o corte, r.a)
<1>1. corte \in Seq(Trozo)
  BY TipoCortes
<1>2. PICK n \in IF Larga(r) THEN 1..Trozos ELSE {1} :
        corte = [k \in 1..n |-> [r |-> r, parte |-> k, de |-> n]]
  BY DEF Cortes
<1>3. n \in Nat
  BY <1>2, CotasAssumption
<1>4. Len(corte) = n /\ DOMAIN corte = 1..n
  BY <1>1, <1>2, <1>3, LenProperties
<1>5. <<>> \o corte = corte
  BY <1>1, ConcatEmptySeq
<1>6. \A i \in 1..n : corte[i] = [r |-> r, parte |-> i, de |-> n]
  BY <1>2
<1> QED BY <1>4, <1>5, <1>6 DEF UnaRespuesta

\* The only request received is taken whole.
LEMMA RecvUna ==
  ASSUME NEW q \in Peticion, NEW s \in Seq(Peticion), s = <<q>>, NEW p \in Prefijos(s)
  PROVE  p[1] = q /\ Resto(s, p) = <<>>
<1>1. Len(s) = 1 /\ s[1] = q
  OBVIOUS
<1>2. /\ Len(p) \in 1..Len(s) /\ Len(Resto(s, p)) = Len(s) - Len(p)
      /\ Resto(s, p) \in Seq(Peticion)
      /\ \A i \in 1..Len(p) : p[i] = s[i]
  BY Recv
<1>a. Len(p) \in 1..1 /\ Len(Resto(s, p)) = 1 - Len(p)
  BY <1>1, <1>2, Zenon
<1>3. Len(p) = 1 /\ Len(Resto(s, p)) = 0
  BY <1>a
<1>4. p[1] = s[1]
  BY <1>2, <1>3
<1> QED BY <1>1, <1>2, <1>3, <1>4, EmptySeq

\* Every answer is to the first of the requests received.
LEMMA RespuestaDe ==
  ASSUME NEW p, procesarPeticion(p)
  PROVE  respuesta'.a = p[1]
<1>1. \A t, v, b : Responder(t, p, v, b).a = p[1]
  BY DEF Responder
<1>2. Error(p).a = p[1]
  BY <1>1 DEF Error
<1> QED BY <1>1, <1>2 DEF procesarPeticion, procesarLogin, Listar, BuscarVuelo,
      BuscarVuelosOrigenDestino, CargarCSV, ComprarBillete, VerMisBilletes, Salir,
      NoReconocida, SinMemoria

----------------------------------------------------------------------------
(* The steps *)

\* A step of one client is no step of another.
LEMMA ConversacionAjena ==
  ASSUME ConversacionInv, NEW c \in Clientes, NEW d \in Clientes \ {c}, NEW e \in BOOLEAN,
         ClienteNext(c, e), UNCHANGED <<servidor, respuesta>>
  PROVE  Conversacion(d)'
<1>0. RedTypeOK /\ ControladorTypeOK /\ Conversacion(d)
  BY DEF ConversacionInv, EsperaInv, TypeOK
<1>1. UNCHANGED atendido
  BY <1>0, TipoCliente
<1>2. EnMarcha(d)' <=> EnMarcha(d)
  BY <1>1 DEF EnMarcha
<1>3. CASE Conectar(c, e)
  <2>1. /\ abierto'[d] = abierto[d] /\ entero'[d] = entero[d]
        /\ UNCHANGED <<pendiente, al_servidor, al_cliente>>
    BY <1>0, <1>3 DEF Conectar, RedTypeOK, ControladorTypeOK
  <2>2. Conectado(d) => Conectado(d)'
    <3>1. cola = <<>>
      BY <1>0, <1>3, SinSitio DEF Conectar, BACKLOG, RedTypeOK
    <3>2. \A i \in DOMAIN cola : FALSE
      BY <3>1, ColaVacia
    <3> QED BY <1>1, <3>2 DEF Conectado
  <2> QED BY <1>0, <1>2, <2>1, <2>2, ConversacionIgual
<1>4. CASE Terminar(c)
  <2>1. /\ abierto'[d] = abierto[d] /\ entero'[d] = entero[d] /\ pendiente'[d] = pendiente[d]
        /\ al_servidor'[d] = al_servidor[d] /\ al_cliente'[d] = al_cliente[d]
        /\ UNCHANGED <<cola, atendido>>
    BY <1>0, <1>4 DEF Terminar, RedTypeOK, ControladorTypeOK
  <2> QED BY <1>0, <1>2, <2>1, ConversacionIgual DEF Conectado
<1>5. CASE Pide(c)
  <2>1. PICK p \in Peticion \ {NADA} : Pedir(c, p)
    BY <1>5 DEF Pide
  <2>2. /\ abierto'[d] = abierto[d] /\ entero'[d] = entero[d] /\ pendiente'[d] = pendiente[d]
        /\ al_servidor'[d] = al_servidor[d] /\ al_cliente'[d] = al_cliente[d]
        /\ UNCHANGED <<cola, atendido>>
    BY <1>0, <2>1 DEF Pedir, RedTypeOK, ControladorTypeOK
  <2> QED BY <1>0, <1>2, <2>2, ConversacionIgual DEF Conectado
<1>6. CASE Cancelar(c) \/ CambiarUsuario(c)
  <2>1. UNCHANGED <<red, pendiente, entero>>
    BY <1>6 DEF Cancelar, CambiarUsuario
  <2> QED BY <1>0, <1>2, <2>1, ConversacionIgual DEF red, Conectado
<1>7. CASE RecibirRespuesta(c)
  <2>1. PICK texto : Contestar(c, texto)
    BY <1>7 DEF RecibirRespuesta
  <2>2. al_cliente'[d] = al_cliente[d]
    BY <1>0, <1>7 DEF RecibirRespuesta, RedTypeOK
  <2>3. /\ entero'[d] = entero[d] /\ pendiente'[d] = pendiente[d]
        /\ UNCHANGED <<cola, atendido, abierto, al_servidor>>
    BY <1>0, <2>1 DEF Contestar, ControladorTypeOK
  <2> QED BY <1>0, <1>2, <2>2, <2>3, ConversacionIgual DEF Conectado
<1> QED BY <1>0, <1>3, <1>4, <1>5, <1>6, <1>7, PasosDelCliente

\* What the recv of a client does, whoever reads the text: an empty one stands
\* for a recv that failed.
Recibido(c, texto) ==
  /\ \/ /\ texto \in Prefijos(al_cliente[c])
        /\ al_cliente' = [al_cliente EXCEPT ![c] = Resto(@, texto)]
     \/ texto = <<>> /\ SinServidor(c) /\ UNCHANGED al_cliente
  /\ pendiente' = [pendiente EXCEPT ![c] = NADA]
  /\ entero'[c] = (entero[c] /\ (texto # <<>> => EsEntera(texto)))
  /\ UNCHANGED <<cola, atendido, abierto, al_servidor>>

LEMMA RespuestaRecibida ==
  ASSUME ControladorTypeOK, NEW c \in Clientes, RecibirRespuesta(c)
  PROVE  \E texto : Recibido(c, texto)
<1>1. PICK texto : /\ Contestar(c, texto)
                   /\ \/ /\ texto \in Prefijos(al_cliente[c])
                         /\ al_cliente' = [al_cliente EXCEPT ![c] = Resto(@, texto)]
                      \/ texto = <<>> /\ SinServidor(c) /\ UNCHANGED al_cliente
  BY DEF RecibirRespuesta
<1>2. /\ pendiente' = [pendiente EXCEPT ![c] = NADA]
      /\ entero'[c] = (entero[c] /\ (texto # <<>> => EsEntera(texto)))
      /\ UNCHANGED <<cola, atendido, abierto, al_servidor>>
  BY <1>1 DEF Contestar, ControladorTypeOK
<1> QED BY <1>1, <1>2 DEF Recibido

\* A client reads the whole of its answer or no longer counts.
LEMMA ConversacionRecibida ==
  ASSUME ConversacionInv, NEW c \in Clientes, NEW texto, Recibido(c, texto),
         UNCHANGED <<servidor, respuesta>>
  PROVE  Conversacion(c)'
<1>0. RedTypeOK /\ ControladorTypeOK /\ Conversacion(c)
  BY DEF ConversacionInv, EsperaInv, TypeOK
<1>1. /\ pendiente'[c] = NADA
      /\ entero'[c] = (entero[c] /\ (texto # <<>> => EsEntera(texto)))
      /\ UNCHANGED <<cola, atendido, abierto, al_servidor>>
  BY <1>0 DEF Recibido, ControladorTypeOK
<1>2. (EnMarcha(c)' <=> EnMarcha(c)) /\ (Conectado(c)' <=> Conectado(c))
  BY <1>1 DEF EnMarcha, Conectado
<1>3. al_cliente[c] \in Seq(Trozo)
  BY <1>0 DEF RedTypeOK
<1>4. CASE texto \in Prefijos(al_cliente[c])
  <2>1. texto # <<>> /\ al_cliente[c] # <<>>
    <3>1. Len(texto) \in 1..Len(al_cliente[c]) /\ texto \in Seq(Trozo)
      BY <1>3, <1>4, Recv
    <3> QED BY <1>3, <3>1, EmptySeq
  <2>2. al_cliente'[c] = Resto(al_cliente[c], texto)
    BY <1>0, <2>1 DEF RedTypeOK, Recibido
  <2>3. abierto[c]
    BY <1>0, <2>1 DEF Conversacion
  <2>4. CASE entero'[c]
    <3>1. entero[c] /\ EsEntera(texto)
      BY <1>1, <2>1, <2>4
    <3>2. UnSitio(c)
      BY <1>0, <2>3, <3>1 DEF Conversacion
    <3>3. /\ UnaRespuesta(al_cliente[c], pendiente[c])
          /\ al_servidor[c] = <<>> /\ ~EnMarcha(c)
      BY <2>1, <3>2 DEF UnSitio
    <3>4. al_cliente'[c] = <<>>
      BY <1>3, <1>4, <2>2, <3>1, <3>3, RecvEntero
    <3> QED BY <1>1, <1>2, <3>3, <3>4 DEF Conversacion, UnSitio
  <2>5. CASE ~entero'[c]
    BY <1>0, <1>1, <1>2, <2>3, <2>5 DEF Conversacion
  <2> QED BY <2>4, <2>5
<1>5. CASE texto = <<>> /\ SinServidor(c) /\ UNCHANGED al_cliente
  <2>1. al_servidor[c] = <<>> /\ al_cliente[c] = <<>> /\ ~EnMarcha(c)
    BY <1>0, <1>5 DEF Conversacion, SinServidor, EnMarcha, Conectado
  <2> QED BY <1>1, <1>2, <1>5, <2>1 DEF Conversacion, UnSitio
<1> QED BY <1>4, <1>5 DEF Recibido

\* A client asks only when nothing of it is anywhere, and reads the whole of
\* the answer or no longer counts.
LEMMA ConversacionPropia ==
  ASSUME ConversacionInv, NEW c \in Clientes, NEW e \in BOOLEAN, ClienteNext(c, e),
         UNCHANGED <<servidor, respuesta>>
  PROVE  Conversacion(c)'
<1>0. /\ RedTypeOK /\ ControladorTypeOK /\ Conversacion(c) /\ Conexiones
      /\ servidor \in {"recv", "enviar"} <=> atendido # NADIE
  BY DEF ConversacionInv, EsperaInv, TypeOK
<1>1. UNCHANGED atendido
  BY <1>0, TipoCliente
<1>2. EnMarcha(c)' <=> EnMarcha(c)
  BY <1>1 DEF EnMarcha
<1>3. CASE Conectar(c, e)
  <2>1. /\ ~abierto[c] /\ ~Conectado(c) /\ UNCHANGED <<al_servidor, al_cliente>>
    BY <1>3 DEF Conectar
  <2>2. al_servidor'[c] = <<>> /\ al_cliente'[c] = <<>>
    BY <1>0, <2>1 DEF Conversacion
  <2>3. ~EnMarcha(c)'
    BY <1>2, <2>1 DEF EnMarcha, Conectado
  <2> QED BY <2>2, <2>3 DEF Conversacion, UnSitio
<1>4. CASE Terminar(c)
  <2>1. /\ ~abierto'[c] /\ al_cliente'[c] = <<>> /\ UNCHANGED <<cola, atendido>>
        /\ al_servidor'[c] \in {<<>>, al_servidor[c]}
    BY <1>0, <1>4 DEF Terminar, RedTypeOK
  <2>2. Conectado(c)' <=> Conectado(c)
    BY <2>1 DEF Conectado
  <2> QED BY <1>0, <2>1, <2>2 DEF Conversacion
<1>5. CASE Pide(c)
  <2>1. PICK p \in Peticion \ {NADA} : Pedir(c, p)
    BY <1>5 DEF Pide
  <2>2. /\ abierto[c] /\ pendiente[c] = NADA /\ pendiente'[c] = p
        /\ UNCHANGED <<cola, atendido, abierto, al_cliente, entero>>
    BY <1>0, <2>1 DEF Pedir, Libre, ControladorTypeOK
  <2>3. al_servidor'[c] = IF Conectado(c) THEN Append(al_servidor[c], p) ELSE al_servidor[c]
    BY <1>0, <2>1 DEF Pedir, RedTypeOK
  <2>4. Conectado(c)' <=> Conectado(c)
    BY <2>2 DEF Conectado
  <2>5. CASE entero[c]
    <3>1. al_servidor[c] = <<>> /\ al_cliente[c] = <<>> /\ ~EnMarcha(c)
      BY <1>0, <2>2, <2>5 DEF Conversacion, UnSitio
    <3>2. Append(<<>>, p) = <<p>>
      OBVIOUS
    <3>3. al_servidor'[c] = IF Conectado(c) THEN <<p>> ELSE <<>>
      BY <2>3, <3>1, <3>2
    <3>4. p # NADA'
      BY <2>1 DEF NADA, Orden, Texto
    <3> QED BY <1>2, <2>2, <2>4, <3>1, <3>3, <3>4 DEF Conversacion, UnSitio
  <2>6. CASE ~entero[c]
    BY <1>0, <2>2, <2>3, <2>4, <2>6 DEF Conversacion
  <2> QED BY <2>5, <2>6
<1>6. CASE Cancelar(c) \/ CambiarUsuario(c)
  <2>1. UNCHANGED <<red, pendiente, entero>>
    BY <1>6 DEF Cancelar, CambiarUsuario
  <2> QED BY <1>0, <1>2, <2>1, ConversacionIgual DEF red, Conectado
<1>7. CASE RecibirRespuesta(c)
  <2>1. PICK texto : Recibido(c, texto)
    BY <1>0, <1>7, RespuestaRecibida
  <2> QED BY <2>1, ConversacionRecibida
<1> QED BY <1>0, <1>3, <1>4, <1>5, <1>6, <1>7, PasosDelCliente

\* The server takes the one request of its client, holds it while it works and
\* answers it; when it closes the connection, what was in it goes.
LEMMA ConversacionServidor ==
  ASSUME ConversacionInv, ServidorNext, UNCHANGED cliente, NEW c \in Clientes
  PROVE  Conversacion(c)'
<1>0. /\ RedTypeOK /\ ServidorTypeOK /\ ControladorTypeOK /\ Conversacion(c) /\ Conexiones
      /\ servidor \in {"recv", "enviar"} <=> atendido # NADIE
      /\ UNCHANGED <<pendiente, entero>>
  BY DEF ConversacionInv, EsperaInv, TypeOK, cliente
<1>a. atendido # NADIE => atendido \in Clientes
  BY <1>0 DEF RedTypeOK
<1>c. c # NADIE
  BY NadieAssumption
\* closesocket and back to accept.
<1>d. ASSUME atendido \in Clientes, cerrarCliente, UNCHANGED <<cola, abierto>>,
             al_cliente'[c] = al_cliente[c] \/ (c = atendido /\ abierto[c]),
             (c = atendido /\ abierto[c] /\ entero[c] /\ al_cliente'[c] # <<>>) =>
               UnaRespuesta(al_cliente'[c], pendiente[c]) /\ pendiente[c] # NADA
      PROVE  Conversacion(c)'
  <2>1. /\ atendido' = NADIE /\ servidor' = "escucha"
        /\ al_servidor' = [al_servidor EXCEPT ![atendido] = <<>>]
    BY <1>d DEF cerrarCliente
  <2>2. ~EnMarcha(c)'
    BY <2>1 DEF EnMarcha
  <2>3. CASE c = atendido
    <3>1. al_servidor'[c] = <<>>
      BY <1>0, <2>1, <2>3 DEF RedTypeOK
    <3>2. ~abierto[c] => al_cliente'[c] = <<>>
      BY <1>0, <1>d DEF Conversacion
    <3>3. (abierto[c] /\ entero[c]) => UnSitio(c)'
      BY <1>0, <1>d, <2>2, <2>3, <3>1 DEF UnSitio, UnaRespuesta, NADA, Orden, Texto
    <3> QED BY <1>0, <1>d, <3>1, <3>2, <3>3 DEF Conversacion
  <2>4. CASE c # atendido
    <3>1. al_servidor'[c] = al_servidor[c] /\ al_cliente'[c] = al_cliente[c] /\ ~EnMarcha(c)
      BY <1>0, <1>d, <2>1, <2>4 DEF RedTypeOK, EnMarcha
    <3>2. Conectado(c) => Conectado(c)'
      BY <1>d, <2>1, <2>4 DEF Conectado
    <3> QED BY <1>0, <1>d, <2>2, <3>1, <3>2, ConversacionIgual
  <2> QED BY <2>3, <2>4
<1>e. ASSUME UNCHANGED <<red, servidor, respuesta>>
      PROVE  Conversacion(c)'
  BY <1>0, <1>e, ConversacionIgual DEF red, Conectado, EnMarcha
<1>1. CASE Aceptar
  <2>1. UNCHANGED <<abierto, al_servidor, al_cliente>> /\ servidor' = "recv" /\ atendido = NADIE
        /\ servidor = "escucha"
    BY <1>0, <1>1 DEF Aceptar
  <2>2. Conectado(c) => Conectado(c)'
    <3>1. cola \in Seq(Clientes) /\ Len(cola) <= 1 /\ cola # <<>>
      BY <1>0, <1>1 DEF Aceptar, Conexiones, BACKLOG, RedTypeOK
    <3>2. DOMAIN cola = {1} /\ Head(cola) = cola[1]
      BY <3>1, SinSitio
    <3> QED BY <1>1, <1>c, <2>1, <3>2 DEF Aceptar, Conectado
  <2> QED BY <1>0, <2>1, <2>2, ConversacionIgual DEF EnMarcha
<1>2. CASE Recibir
  <2>1. /\ servidor = "recv" /\ servidor' = "enviar" /\ atendido \in Clientes
        /\ UNCHANGED <<cola, atendido, abierto, al_cliente>>
    BY <1>0, <1>a, <1>2 DEF Recibir
  <2>2. PICK p \in Prefijos(al_servidor[atendido]) :
          /\ al_servidor' = [al_servidor EXCEPT ![atendido] = Resto(@, p)]
          /\ procesarPeticion(p)
    BY <1>2 DEF Recibir
  <2>3. Conectado(c)' <=> Conectado(c)
    BY <2>1 DEF Conectado
  <2>4. CASE c # atendido
    <3>1. al_servidor'[c] = al_servidor[c]
      BY <1>0, <2>2, <2>4 DEF RedTypeOK
    <3> QED BY <1>0, <2>1, <2>3, <2>4, <3>1, ConversacionIgual DEF EnMarcha
  <2>5. CASE c = atendido
    <3>1. Conectado(c)
      BY <2>5 DEF Conectado
    <3>2. CASE abierto[c] /\ entero[c]
      <4>1. al_servidor[c] # <<>>
        <5>1. al_servidor[c] \in Seq(Peticion)
          BY <1>0 DEF RedTypeOK
        <5>2. Len(p) \in 1..Len(al_servidor[c])
          BY <2>2, <2>5, <5>1, Recv
        <5> QED BY <5>1, <5>2, EmptySeq
      <4>2. /\ al_servidor[c] = <<pendiente[c]>> /\ pendiente[c] # NADA
            /\ al_cliente[c] = <<>>
        BY <1>0, <3>2, <4>1 DEF Conversacion, UnSitio
      <4>3. p[1] = pendiente[c] /\ Resto(al_servidor[c], p) = <<>>
        <5>1. pendiente[c] \in Peticion /\ al_servidor[c] \in Seq(Peticion)
          BY <1>0 DEF RedTypeOK, ControladorTypeOK
        <5> QED BY <2>2, <2>5, <4>2, <5>1, RecvUna
      <4>4. respuesta'.a = pendiente[c] /\ al_servidor'[c] = <<>>
        BY <1>0, <2>2, <2>5, <4>3, RespuestaDe DEF RedTypeOK
      <4>5. UnSitio(c)'
        BY <1>0, <2>1, <4>2, <4>4 DEF UnSitio, NADA, Orden, Texto
      <4> QED BY <2>1, <2>3, <3>1, <3>2, <4>5 DEF Conversacion
    <3>3. CASE ~(abierto[c] /\ entero[c])
      BY <1>0, <2>1, <2>3, <3>1, <3>3 DEF Conversacion
    <3> QED BY <3>2, <3>3
  <2> QED BY <2>4, <2>5
<1>3. CASE Enviar
  <2>1. atendido \in Clientes /\ servidor = "enviar" /\ UNCHANGED <<cola, abierto>>
    BY <1>0, <1>a, <1>3 DEF Enviar
  <2>2. al_cliente'[c] = al_cliente[c] \/ (c = atendido /\ abierto[c])
    BY <1>0, <1>3, <2>1 DEF Enviar, RedTypeOK
  <2>3. ASSUME c = atendido, abierto[c], entero[c]
        PROVE  /\ UnaRespuesta(al_cliente'[c], pendiente[c]) /\ pendiente[c] # NADA
               /\ al_servidor[c] = <<>>
    <3>1. /\ respuesta.a = pendiente[c] /\ pendiente[c] # NADA
          /\ al_cliente[c] = <<>> /\ al_servidor[c] = <<>>
      BY <1>0, <2>1, <2>3 DEF Conversacion, UnSitio, EnMarcha
    <3>2. PICK corte \in Cortes(respuesta) :
            al_cliente' = [al_cliente EXCEPT ![atendido] = @ \o corte]
      BY <1>3, <2>3 DEF Enviar
    <3>3. al_cliente'[c] = <<>> \o corte
      BY <1>0, <2>3, <3>1, <3>2 DEF RedTypeOK
    <3>4. respuesta \in Respuesta
      BY <1>0 DEF ServidorTypeOK
    <3> QED BY <3>1, <3>2, <3>3, <3>4, CorteDeUna
  <2>4. CASE cerrarCliente
    BY <1>d, <2>1, <2>2, <2>3, <2>4
  <2>5. CASE servidor' = "recv" /\ UNCHANGED <<atendido, al_servidor>>
    <3>1. ~EnMarcha(c)' /\ (Conectado(c)' <=> Conectado(c))
      BY <2>1, <2>5 DEF EnMarcha, Conectado
    <3>2. CASE c = atendido /\ abierto[c]
      <4>1. entero[c] => UnSitio(c)'
        BY <1>0, <2>3, <2>5, <3>1, <3>2 DEF UnSitio, UnaRespuesta, NADA, Orden, Texto
      <4> QED BY <1>0, <2>1, <2>5, <3>1, <3>2, <4>1 DEF Conversacion
    <3>3. CASE c # atendido
      <4>1. ~EnMarcha(c)
        BY <3>3 DEF EnMarcha
      <4> QED BY <1>0, <2>1, <2>2, <2>5, <3>1, <3>3, <4>1, ConversacionIgual
    <3>4. CASE ~abierto[c]
      BY <1>0, <2>1, <2>2, <2>5, <3>1, <3>4 DEF Conversacion
    <3> QED BY <3>2, <3>3, <3>4
  <2> QED BY <1>3, <2>4, <2>5 DEF Enviar
<1>4. CASE Desconectado
  <2>1. /\ atendido \in Clientes /\ ~abierto[atendido] /\ cerrarCliente
        /\ UNCHANGED <<cola, abierto, al_cliente>>
    BY <1>0, <1>a, <1>4 DEF Desconectado
  <2> QED BY <1>d, <2>1
<1>5. CASE Arrancar
  <2>1. UNCHANGED red /\ servidor = "apagado" /\ servidor' = "escucha"
    BY <1>5 DEF Arrancar
  <2> QED BY <1>0, <2>1, ConversacionIgual DEF red, Conectado, EnMarcha
<1>6. CASE SegundoServidor
  BY <1>6, <1>e DEF SegundoServidor, sesion
<1>7. CASE Caer
  <2>1. /\ servidor' = "apagado" /\ UNCHANGED abierto
        /\ al_servidor'[c] = <<>> /\ al_cliente'[c] \in {<<>>, al_cliente[c]}
    BY <1>7 DEF Caer
  <2>2. ~EnMarcha(c)'
    BY <2>1 DEF EnMarcha
  <2>3. (abierto[c] /\ entero[c]) => UnSitio(c)'
    BY <1>0, <2>1, <2>2 DEF Conversacion, UnSitio, UnaRespuesta, NADA, Orden, Texto
  <2> QED BY <1>0, <2>1, <2>3 DEF Conversacion
<1>8. CASE ConsolaEmpieza
  BY <1>8, <1>e DEF ConsolaEmpieza, sesion
<1>9. ASSUME NEW v \in Vuelos, ConsolaInserta(v) PROVE Conversacion(c)'
  BY <1>9, <1>e DEF ConsolaInserta, sesion
<1>10. CASE ConsolaTermina
  BY <1>10, <1>e DEF ConsolaTermina, sesion
<1> QED BY <1>1, <1>2, <1>3, <1>4, <1>5, <1>6, <1>7, <1>8, <1>9, <1>10
        DEF ServidorNext, PasoServidor

----------------------------------------------------------------------------

\* ConversacionInv holds at the start and every step keeps it.
LEMMA ConversacionPaso == ConversacionInv /\ [Next]_vars => ConversacionInv'
<1> SUFFICES ASSUME ConversacionInv, [Next]_vars PROVE ConversacionInv'
  OBVIOUS
<1>1. EsperaInv'
  BY EsperaPaso DEF ConversacionInv
<1>2. ASSUME NEW c \in Clientes PROVE Conversacion(c)'
  <2>1. CASE ServidorNext /\ UNCHANGED cliente
    BY <2>1, ConversacionServidor
  <2>2. ASSUME NEW d \in Clientes, ClienteNext(d, servidor # "apagado"),
               UNCHANGED <<sesion, bd>>
        PROVE  Conversacion(c)'
    <3>1. (servidor # "apagado") \in BOOLEAN /\ UNCHANGED <<servidor, respuesta>>
      BY <2>2 DEF sesion
    <3>2. CASE d = c
      BY <2>2, <3>1, <3>2, ConversacionPropia
    <3>3. CASE d # c
      BY <2>2, <3>1, <3>3, ConversacionAjena
    <3> QED BY <3>2, <3>3
  <2>3. CASE UNCHANGED vars
    <3>1. Conversacion(c)
      BY DEF ConversacionInv
    <3> QED BY <2>3, <3>1, ConversacionIgual DEF vars, red, sesion, cliente, Conectado, EnMarcha
  <2> QED BY <2>1, <2>2, <2>3 DEF Next
<1> QED BY <1>1, <1>2 DEF ConversacionInv

LEMMA ConversacionInicial == Init => ConversacionInv
<1> SUFFICES ASSUME Init PROVE ConversacionInv
  OBVIOUS
<1>1. EsperaInv
  BY EsperaInicial
<1>2. ASSUME NEW c \in Clientes PROVE Conversacion(c)
  BY DEF Init, RedInit, Conversacion
<1> QED BY <1>1, <1>2 DEF ConversacionInv

\* While no answer reached a client in pieces, whatever is in its socket is an
\* answer to the request it waits for: none is ever left from an earlier
\* request, from another connection or from a server that fell.
THEOREM RespuestaSiempreCorresponde == Spec => []RespuestaCorresponde
<1>1. ConversacionInv => RespuestaCorresponde
  <2> SUFFICES ASSUME ConversacionInv, NEW c \in Clientes, entero[c],
                      NEW i \in DOMAIN al_cliente[c]
               PROVE  al_cliente[c][i].r.a = pendiente[c]
    BY DEF RespuestaCorresponde
  <2>1. al_cliente[c] # <<>>
    OBVIOUS
  <2>2. Conversacion(c)
    BY DEF ConversacionInv
  <2> QED BY <2>1, <2>2 DEF Conversacion, UnSitio, UnaRespuesta
<1> QED BY <1>1, ConversacionInicial, ConversacionPaso, PTL DEF Spec

----------------------------------------------------------------------------
(* The session of a client is one in its two copies, and what its caches   *)
(* show is never older than the last load of the server.                   *)

EnLaCola(c) == \E i \in DOMAIN cola : cola[i] = c

\* Only a login is answered with a role, and never in pieces.
Sana(r) == r.tipo = "ROL" => r.a.op = "LOGIN"
SanaPieza(t) == Sana(t.r) /\ (t.r.tipo = "ROL" => t.de = 1)
Sanas ==
  /\ Sana(respuesta)
  /\ \A c \in Clientes : \A i \in DOMAIN al_cliente[c] : SanaPieza(al_cliente[c][i])

\* Nobody has logged in here and nothing is cached.
Nuevo(c) ==
  /\ pc[c] = "login" /\ idUsuarioAutenticado[c] = -1
  /\ \A t \in Listas : cache[c][t].tipo = "no valida"

\* What the place of the menu says of the request and of the role, with no
\* regard to the server.
EnElMenu(c) ==
  /\ ~abierto[c] => Nuevo(c)
  /\ pc[c] = "login" => pendiente[c].op \in {"", "LOGIN"}
  /\ pc[c] # "login" => pendiente[c].op # "LOGIN"
  /\ pendiente[c].op \in {"SALIR", "LISTAR", "CARGAR_CSV"} => pc[c] = "menu"
  /\ pendiente[c].op = "LISTAR" => cache[c][pendiente[c].arg].tipo = "no valida"
  /\ pc[c] # "login" => (rol[c] = "PASAJERO" <=> idUsuarioAutenticado[c] = ID_PASAJERO)

\* In the backlog a client can have sent its login and nothing more.
EnEspera(c) ==
  EnLaCola(c) =>
    /\ Nuevo(c) /\ entero[c] /\ al_cliente[c] = <<>>
    /\ al_servidor[c] # <<>> => \E q \in Peticion : al_servidor[c] = <<q>> /\ q.op = "LOGIN"

\* The id the client will have once it has read r.
Tras(c, r) ==
  IF r.a.op = "SALIR" THEN -1
  ELSE IF r.tipo = "ROL" THEN (IF r.a.arg = "PASAJERO" THEN ID_PASAJERO ELSE -1)
  ELSE idUsuarioAutenticado[c]

\* The answer r, not read yet, leaves the two copies equal and is no listing of
\* before the last load.
Casa(c, r) ==
  /\ idUsuarioActual = Tras(c, r)
  /\ (r.tipo = "DATA" /\ r.a.op = "LISTAR" /\ r.version >= 0) => r.version >= verServidor

\* With a load of its own on its way, what c has cached may be old already.
AlDia(c) ==
  \A t \in Listas : cache[c][t].tipo = "lista" =>
    /\ cache[c][t].tabla = t
    /\ cache[c][t].version >= verServidor \/ pendiente[c].op = "CARGAR_CSV"

\* What server and client have in common, while no answer came in pieces.
EnComun(c) ==
  /\ (~EnMarcha(c) /\ al_cliente[c] = <<>>) => idUsuarioActual = idUsuarioAutenticado[c]
  /\ EnMarcha(c) => Casa(c, respuesta)
  /\ \A i \in DOMAIN al_cliente[c] : Casa(c, al_cliente[c][i].r)
  /\ AlDia(c)

\* A purchase on its way, from a client that may have died since, is for the
\* user of the session.
DeSuUsuario(c) ==
  al_servidor[c] # <<>> =>
    \E q \in Peticion :
      al_servidor[c] = <<q>> /\ (q.op = "COMPRAR_BILLETE" => q.id = idUsuarioActual)

Atencion(c) ==
  (atendido = c /\ entero[c]) => (abierto[c] => EnComun(c)) /\ DeSuUsuario(c)

\* The server's side: with nobody to serve it has no session, and its last
\* load is one of those there were.
EnReposo ==
  /\ servidor \in {"apagado", "escucha"} => idUsuarioActual = -1
  /\ verServidor <= version

SesionInv ==
  /\ ConversacionInv
  /\ EnReposo
  /\ Sanas
  /\ \A c \in Clientes : EnElMenu(c) /\ EnEspera(c) /\ Atencion(c)

----------------------------------------------------------------------------
(* The steps of a client *)

\* What the requests of a client say of its place in the menus.
PideDesde(c, p) ==
  /\ Pedir(c, p)
  /\ p.op = "LOGIN" <=> pc[c] = "login"
  /\ p.op # ""
  /\ p.op \in {"SALIR", "LISTAR", "CARGAR_CSV"} => pc[c] = "menu" /\ pc' = pc
  /\ p.op = "LISTAR" => p.arg \in Listas /\ cache[c][p.arg].tipo = "no valida"
  /\ p.op = "COMPRAR_BILLETE" => p.id = idUsuarioAutenticado[c]
  /\ pc[c] = "login" => pc' = pc
  /\ pc[c] # "login" => pc'[c] # "login"
  /\ \A d \in Clientes \ {c} : pc'[d] = pc[d]

LEMMA PeticionesDelCliente ==
  ASSUME RedTypeOK, ControladorTypeOK, NEW c \in Clientes, NEW e \in BOOLEAN,
         ClienteNext(c, e)
  PROVE  \/ Conectar(c, e) \/ Terminar(c) \/ Cancelar(c) \/ CambiarUsuario(c)
         \/ RecibirRespuesta(c) \/ \E p \in Peticion : PideDesde(c, p)
<1>1. pc \in [Clientes -> {"login", "menu", "comprar", "confirmar"}]
  BY DEF ControladorTypeOK
<1>2. ASSUME NEW x \in Credenciales, hacerLogin(c, x)
      PROVE  \E p \in Peticion : PideDesde(c, p)
  <2>1. x \in Argumentos /\ "LOGIN" \in Ops /\ -1 \in {-1, ID_PASAJERO}
    BY CredencialesAssumption DEF Argumentos, Ops
  <2>2. Texto("LOGIN", x, -1) \in Peticion
    BY <2>1, TipoTexto
  <2>3. PideDesde(c, Texto("LOGIN", x, -1))
    BY <1>2 DEF hacerLogin, PideDesde, Texto
  <2> QED BY <2>2, <2>3
<1>3. ASSUME NEW t \in Listas, VerLista(c, t)
      PROVE  \E p \in Peticion : PideDesde(c, p)
  <2>1. t \in Argumentos /\ "LISTAR" \in Ops /\ -1 \in {-1, ID_PASAJERO}
    BY DEF Argumentos, Ops
  <2>2. Texto("LISTAR", t, -1) \in Peticion
    BY <2>1, TipoTexto
  <2>3. PideDesde(c, Texto("LISTAR", t, -1))
    BY <1>3 DEF VerLista, PideDesde, Texto
  <2> QED BY <2>2, <2>3
<1>4. ASSUME NEW v \in Vuelos, buscarVueloPorCodigo(c, v) \/ comprarBillete(c, v)
      PROVE  \E p \in Peticion : PideDesde(c, p)
  <2>1. v \in Argumentos /\ "BUSCAR_VUELO" \in Ops /\ -1 \in {-1, ID_PASAJERO}
    BY DEF Argumentos, Ops
  <2>2. Texto("BUSCAR_VUELO", v, -1) \in Peticion
    BY <2>1, TipoTexto
  <2>3. PideDesde(c, Texto("BUSCAR_VUELO", v, -1))
    BY <1>1, <1>4 DEF buscarVueloPorCodigo, comprarBillete, PideDesde, Texto
  <2> QED BY <2>2, <2>3
<1>5. ASSUME NEW op \in {"BUSCAR_VUELOS_ORIGEN_DESTINO", "CARGAR_CSV", "VER_MIS_BILLETES",
                         "SALIR"},
             Pedir(c, Orden(op)), pc[c] = "menu", UNCHANGED pc
      PROVE  \E p \in Peticion : PideDesde(c, p)
  <2>1. Orden(op) \in Peticion
    BY TipoOrden DEF Ops
  <2>2. PideDesde(c, Orden(op))
    BY <1>5 DEF PideDesde, Orden, Texto
  <2> QED BY <2>1, <2>2
<1>6. ASSUME \/ buscarVuelosOrigenDestino(c) \/ CargarCSVEnBD(c) \/ verMisBilletes(c)
             \/ SalirDelMenu(c)
      PROVE  \E p \in Peticion : PideDesde(c, p)
  BY <1>5, <1>6 DEF buscarVuelosOrigenDestino, CargarCSVEnBD, verMisBilletes, SalirDelMenu
<1>7. CASE Confirmar(c)
  <2>1. codigo[c] \in Argumentos /\ idUsuarioAutenticado[c] \in {-1, ID_PASAJERO}
        /\ "COMPRAR_BILLETE" \in Ops
    BY DEF ControladorTypeOK, Argumentos, Ops
  <2>2. Texto("COMPRAR_BILLETE", codigo[c], idUsuarioAutenticado[c]) \in Peticion
    BY <2>1, TipoTexto
  <2>3. PideDesde(c, Texto("COMPRAR_BILLETE", codigo[c], idUsuarioAutenticado[c]))
    BY <1>1, <1>7 DEF Confirmar, PideDesde, Texto
  <2> QED BY <2>2, <2>3
<1>8. Morir(c) \/ SalirContestado(c) => Terminar(c)
  BY DEF Morir, SalirContestado
<1> QED BY <1>2, <1>3, <1>4, <1>6, <1>7, <1>8 DEF ClienteNext, PasoCliente

\* What a step does not touch stays as it was.
LEMMA SesionIgual ==
  ASSUME NEW c \in Clientes, EnElMenu(c), EnEspera(c), Atencion(c),
         abierto'[c] = abierto[c], entero'[c] = entero[c], pendiente'[c] = pendiente[c],
         pc'[c] = pc[c], rol'[c] = rol[c], cache'[c] = cache[c],
         idUsuarioAutenticado'[c] = idUsuarioAutenticado[c],
         al_servidor'[c] = al_servidor[c], al_cliente'[c] = al_cliente[c],
         EnLaCola(c)' => EnLaCola(c),
         atendido' = c => /\ atendido = c
                          /\ EnMarcha(c)' <=> EnMarcha(c)
                          /\ EnMarcha(c) => respuesta' = respuesta
                          /\ UNCHANGED <<idUsuarioActual, verServidor>>
  PROVE  EnElMenu(c)' /\ EnEspera(c)' /\ Atencion(c)'
<1>1. EnElMenu(c)'
  BY DEF EnElMenu, Nuevo, ID_PASAJERO
<1>2. EnEspera(c)'
  <2>1. Nuevo(c) => Nuevo(c)'
    BY DEF Nuevo
  <2> QED BY <2>1 DEF EnEspera
<1>3. Atencion(c)'
  <2> SUFFICES ASSUME atendido' = c, entero'[c]
               PROVE  (abierto'[c] => EnComun(c)') /\ DeSuUsuario(c)'
    BY DEF Atencion
  <2>1. /\ EnMarcha(c)' <=> EnMarcha(c)
        /\ EnMarcha(c) => respuesta' = respuesta
        /\ UNCHANGED <<idUsuarioActual, verServidor>>
        /\ (abierto[c] => EnComun(c)) /\ DeSuUsuario(c)
    BY DEF Atencion
  <2>2. DeSuUsuario(c)'
    BY <2>1 DEF DeSuUsuario
  <2>3. \A r : Casa(c, r) => Casa(c, r)'
    BY <2>1 DEF Casa, Tras, ID_PASAJERO
  <2>4. AlDia(c) => AlDia(c)'
    BY <2>1 DEF AlDia
  <2>5. abierto[c] => EnComun(c)'
    <3> SUFFICES ASSUME abierto[c] PROVE EnComun(c)'
      OBVIOUS
    <3>1. (~EnMarcha(c) /\ al_cliente[c] = <<>>)' =>
             idUsuarioActual' = idUsuarioAutenticado'[c]
      BY <2>1 DEF EnComun
    <3>2. EnMarcha(c)' => Casa(c, respuesta)'
      <4>1. EnMarcha(c) => Casa(c, respuesta)
        BY <2>1 DEF EnComun
      <4> QED BY <2>1, <4>1 DEF Casa, Tras, ID_PASAJERO
    <3>3. \A i \in DOMAIN al_cliente'[c] : Casa(c, al_cliente[c][i].r)'
      <4>1. \A i \in DOMAIN al_cliente[c] : Casa(c, al_cliente[c][i].r)
        BY <2>1 DEF EnComun
      <4> QED BY <2>1, <4>1 DEF Casa, Tras, ID_PASAJERO
    <3> QED BY <2>1, <2>4, <3>1, <3>2, <3>3 DEF EnComun
  <2> QED BY <2>2, <2>5
<1> QED BY <1>1, <1>2, <1>3

\* The answer to a login moves the client to a menu of its role, or nowhere.
LEMMA LoginDe ==
  ASSUME ControladorTypeOK, NEW c \in Clientes, NEW texto \in Seq(Trozo),
         LoginContestado(c, texto)
  PROVE  \/ /\ UNCHANGED <<pc, rol, idUsuarioAutenticado>>
            /\ texto # <<>> /\ texto[1].r.tipo = "ROL" =>
                 texto[1].r.a.arg # "PASAJERO" /\ Len(texto) # 1
         \/ /\ texto # <<>> /\ texto[1].r.tipo = "ROL"
            /\ pc'[c] = "menu" /\ rol'[c] = texto[1].r.a.arg
            /\ idUsuarioAutenticado'[c] =
                 IF texto[1].r.a.arg = "PASAJERO" THEN ID_PASAJERO ELSE -1
BY DEF LoginContestado, ControladorTypeOK

\* The menu of a client and its request stay together.
LEMMA MenuPropio ==
  ASSUME RedTypeOK, ControladorTypeOK, Conexiones, NEW c \in Clientes, NEW e \in BOOLEAN,
         ClienteNext(c, e), EnElMenu(c)
  PROVE  EnElMenu(c)'
<1>a. NADA.op = ""
  BY DEF NADA, Orden, Texto
<1>1. CASE Conectar(c, e)
  BY <1>1 DEF Conectar, EnElMenu, ID_PASAJERO, RedTypeOK
<1>2. CASE Terminar(c)
  <2>1. /\ pc'[c] = "login" /\ idUsuarioAutenticado'[c] = -1 /\ pendiente'[c] = NADA
        /\ cache'[c] = SinCache
    BY <1>2 DEF Terminar, ControladorTypeOK
  <2>2. \A t \in Listas : cache'[c][t].tipo = "no valida"
    <3>1. NO_VALIDA.tipo = "no valida" /\ \A t \in Listas : SinCache[t] = NO_VALIDA
      BY DEF SinCache, NO_VALIDA, Contenido
    <3> QED BY <2>1, <3>1
  <2> QED BY <1>a, <2>1, <2>2 DEF EnElMenu, Nuevo
<1>3. CASE Cancelar(c) \/ CambiarUsuario(c)
  <2>1. /\ UNCHANGED <<abierto, pendiente, idUsuarioAutenticado, cache>>
        /\ abierto[c] /\ pendiente[c] = NADA
        /\ pc[c] # "login"
        /\ pc'[c] = "login" \/ UNCHANGED rol
    BY <1>3 DEF Cancelar, CambiarUsuario, Libre, red, ControladorTypeOK
  <2> QED BY <1>a, <2>1 DEF EnElMenu, ID_PASAJERO
<1>4. ASSUME NEW p \in Peticion, PideDesde(c, p) PROVE EnElMenu(c)'
  <2>1. /\ UNCHANGED <<abierto, rol, idUsuarioAutenticado, cache>> /\ abierto[c]
        /\ pendiente'[c] = p
    BY <1>4 DEF PideDesde, Pedir, Libre, ControladorTypeOK
  <2> QED BY <1>4, <2>1 DEF EnElMenu, PideDesde, ID_PASAJERO
<1>5. CASE RecibirRespuesta(c)
  <2>1. PICK texto \in Seq(Trozo) : Contestar(c, texto)
    <3>1. al_cliente[c] \in Seq(Trozo) /\ <<>> \in Seq(Trozo)
      BY DEF RedTypeOK
    <3> QED BY <1>5, <3>1, Recv DEF RecibirRespuesta
  <2>2. pendiente'[c] = NADA /\ UNCHANGED abierto /\ pendiente[c] # NADA
    BY <1>5, <2>1 DEF Contestar, RecibirRespuesta, ControladorTypeOK
  <2>3. abierto[c]
    BY <2>2 DEF Conexiones
  <2>4. pc'[c] # "login" => (rol'[c] = "PASAJERO" <=> idUsuarioAutenticado'[c] = ID_PASAJERO)
    <3>1. CASE LoginContestado(c, texto)
      <4>1. pc[c] = "login" /\ ID_PASAJERO # -1
        BY <3>1 DEF LoginContestado, ID_PASAJERO
      <4> QED BY <3>1, <4>1, LoginDe
    <3>2. CASE ~LoginContestado(c, texto)
      <4>1. UNCHANGED <<rol, idUsuarioAutenticado>> /\ pc[c] # "login"
        BY <2>1, <3>2 DEF Contestar, ListaContestada, CargaContestada, InfoContestada,
             TextoMostrado
      <4> QED BY <4>1 DEF EnElMenu
    <3> QED BY <3>1, <3>2
  <2> QED BY <1>a, <2>2, <2>3, <2>4 DEF EnElMenu, ID_PASAJERO
<1> QED BY <1>1, <1>2, <1>3, <1>4, <1>5, PeticionesDelCliente

\* A client that is open, whole and waits for nothing has nothing anywhere.
LEMMA NadaEnCamino ==
  ASSUME NEW c \in Clientes, Conversacion(c), abierto[c], entero[c], pendiente[c] = NADA
  PROVE  al_servidor[c] = <<>> /\ al_cliente[c] = <<>> /\ ~EnMarcha(c)
BY DEF Conversacion, UnSitio

\* In the backlog a client asks for its login, once, or ends.
LEMMA EnEsperaPropia ==
  ASSUME ConversacionInv, NEW c \in Clientes, NEW e \in BOOLEAN, ClienteNext(c, e),
         EnElMenu(c), EnEspera(c)
  PROVE  EnEspera(c)'
<1>0. RedTypeOK /\ ControladorTypeOK /\ Conexiones /\ Conversacion(c)
  BY DEF ConversacionInv, EsperaInv, TypeOK
<1>1. CASE Conectar(c, e)
  <2>1. /\ ~abierto[c] /\ ~Conectado(c)
        /\ UNCHANGED <<al_servidor, al_cliente, pc, idUsuarioAutenticado, cache>>
        /\ entero'[c]
    BY <1>0, <1>1 DEF Conectar, ControladorTypeOK
  <2>2. al_servidor'[c] = <<>> /\ al_cliente'[c] = <<>>
    BY <1>0, <2>1 DEF Conversacion
  <2>3. Nuevo(c)'
    BY <2>1 DEF EnElMenu, Nuevo
  <2> QED BY <2>1, <2>2, <2>3 DEF EnEspera
<1>2. CASE Terminar(c)
  <2>1. /\ al_cliente'[c] = <<>> /\ al_servidor'[c] \in {<<>>, al_servidor[c]}
        /\ UNCHANGED <<cola, entero>> /\ ~abierto'[c]
    BY <1>0, <1>2 DEF Terminar, RedTypeOK
  <2>2. Nuevo(c)'
    BY <1>0, <2>1, MenuPropio DEF EnElMenu
  <2> QED BY <2>1, <2>2 DEF EnEspera, EnLaCola
<1>3. CASE Cancelar(c) \/ CambiarUsuario(c)
  <2>1. pc[c] # "login" /\ UNCHANGED cola
    BY <1>3 DEF Cancelar, CambiarUsuario, red
  <2> QED BY <2>1 DEF EnEspera, EnLaCola, Nuevo
<1>4. ASSUME NEW p \in Peticion, PideDesde(c, p) PROVE EnEspera(c)'
  <2>1. /\ UNCHANGED <<cola, al_cliente, idUsuarioAutenticado, cache, entero>>
        /\ abierto[c] /\ pendiente[c] = NADA
        /\ al_servidor'[c] = IF Conectado(c) THEN Append(al_servidor[c], p) ELSE al_servidor[c]
    BY <1>0, <1>4 DEF PideDesde, Pedir, Libre, RedTypeOK
  <2>2. CASE EnLaCola(c)
    <3>1. Nuevo(c) /\ entero[c] /\ al_cliente[c] = <<>>
      BY <2>2 DEF EnEspera
    <3>2. al_servidor[c] = <<>> /\ Conectado(c)
      BY <1>0, <2>1, <2>2, <3>1, NadaEnCamino DEF Conectado, EnLaCola
    <3>3. al_servidor'[c] = <<p>>
      BY <2>1, <3>2
    <3>4. p.op = "LOGIN" /\ pc' = pc
      BY <1>4, <3>1 DEF PideDesde, Nuevo
    <3>5. Nuevo(c)'
      BY <2>1, <3>1, <3>4 DEF Nuevo
    <3> QED BY <2>1, <3>1, <3>3, <3>4, <3>5 DEF EnEspera
  <2>3. CASE ~EnLaCola(c)
    BY <2>1, <2>3 DEF EnEspera, EnLaCola
  <2> QED BY <2>2, <2>3
<1>5. CASE RecibirRespuesta(c)
  <2>1. UNCHANGED cola
    BY <1>5 DEF RecibirRespuesta, Contestar
  <2>2. ASSUME EnLaCola(c) PROVE FALSE
    <3>1. al_cliente[c] = <<>> /\ Conectado(c)
      BY <2>2 DEF EnEspera, EnLaCola, Conectado
    <3>2. Prefijos(al_cliente[c]) = {}
      BY <3>1 DEF Prefijos
    <3> QED BY <1>5, <3>1, <3>2 DEF RecibirRespuesta, SinServidor
  <2> QED BY <2>1, <2>2 DEF EnEspera, EnLaCola
<1> QED BY <1>0, <1>1, <1>2, <1>3, <1>4, <1>5, PeticionesDelCliente

\* The listing a cache keeps is the one that was asked for, and not old.
LEMMA GuardadoDe ==
  ASSUME NEW texto \in Seq(Trozo), NEW t, Guardado(texto).tipo = "lista"
  PROVE  /\ texto # <<>> /\ texto[1].r.tipo = "DATA" /\ texto[1].r.a.op = "LISTAR"
         /\ texto[1].r.version >= 0
         /\ Guardado(texto).tabla = texto[1].r.a.arg
         /\ Guardado(texto).version = texto[1].r.version
<1>1. OTRO_TEXTO.tipo = "otro"
  BY DEF OTRO_TEXTO, Contenido
<1> QED BY <1>1 DEF Guardado, Contenido

\* Reading an answer leaves client and server of one mind.
LEMMA ComunRecibida ==
  ASSUME ConversacionInv, Sanas, NEW c \in Clientes, RecibirRespuesta(c),
         UNCHANGED <<servidor, idUsuarioActual, respuesta, verServidor>>,
         EnElMenu(c), Atencion(c), atendido = c, entero'[c]
  PROVE  EnComun(c)'
<1>0. /\ RedTypeOK /\ ControladorTypeOK /\ Conexiones /\ Conversacion(c)
  BY DEF ConversacionInv, EsperaInv, TypeOK
<1>1. PICK texto \in Prefijos(al_cliente[c]) :
        al_cliente' = [al_cliente EXCEPT ![c] = Resto(@, texto)] /\ Contestar(c, texto)
  BY DEF RecibirRespuesta, SinServidor, Conectado
<1>2. /\ texto \in Seq(Trozo) /\ Len(texto) \in 1..Len(al_cliente[c])
      /\ \A i \in 1..Len(texto) : texto[i] = al_cliente[c][i]
      /\ al_cliente[c] \in Seq(Trozo)
  BY <1>0, Recv DEF RedTypeOK
<1>3. texto # <<>> /\ al_cliente[c] # <<>> /\ 1 \in DOMAIN al_cliente[c]
  BY <1>2, EmptySeq
<1>4. texto[1] = al_cliente[c][1]
  BY <1>2
<1>5. entero[c] /\ EsEntera(texto) /\ UNCHANGED <<atendido, abierto, al_servidor>>
      /\ pendiente[c] # NADA
  BY <1>0, <1>1, <1>3 DEF Contestar, ControladorTypeOK, RecibirRespuesta
<1>6. abierto[c]
  BY <1>0, <1>5 DEF Conexiones
<1> DEFINE r == texto[1].r
<1>7. UnSitio(c) /\ EnComun(c)
  BY <1>0, <1>5, <1>6 DEF Conversacion, Atencion
<1>8. UnaRespuesta(al_cliente[c], pendiente[c]) /\ ~EnMarcha(c) /\ r.a = pendiente[c]
  BY <1>3, <1>4, <1>7 DEF UnSitio, UnaRespuesta
<1>9. al_cliente'[c] = <<>>
  <2>1. Resto(al_cliente[c], texto) = <<>>
    BY <1>2, <1>5, <1>8, RecvEntero
  <2> QED BY <1>0, <1>1, <2>1 DEF RedTypeOK
<1>10. Casa(c, r) /\ SanaPieza(texto[1])
  BY <1>3, <1>4, <1>7 DEF EnComun, Sanas
<1>11. ~EnMarcha(c)'
  BY <1>5, <1>8 DEF EnMarcha
<1>12. idUsuarioActual' = idUsuarioAutenticado'[c]
  <2>1. CASE LoginContestado(c, texto)
    <3>1. r.a.op # "SALIR"
      BY <1>8, <2>1 DEF EnElMenu, LoginContestado
    <3>2. r.tipo = "ROL" => Len(texto) = 1
      BY <1>5, <1>10 DEF SanaPieza, EsEntera
    <3> QED BY <1>0, <1>2, <1>3, <1>10, <2>1, <3>1, <3>2, LoginDe DEF Casa, Tras
  <2>2. CASE ~LoginContestado(c, texto)
    <3>1. /\ UNCHANGED idUsuarioAutenticado
          /\ \/ pc[c] = "menu" /\ pendiente[c].op # "SALIR"
             \/ pc[c] = "comprar"
      BY <1>1, <2>2 DEF Contestar, ListaContestada, CargaContestada, InfoContestada,
           TextoMostrado
    <3>2. r.a.op # "SALIR" /\ r.a.op # "LOGIN"
      BY <1>8, <3>1 DEF EnElMenu
    <3>3. r.tipo # "ROL"
      BY <1>10, <3>2 DEF SanaPieza, Sana
    <3> QED BY <1>10, <3>1, <3>2, <3>3 DEF Casa, Tras
  <2> QED BY <2>1, <2>2
<1>13. AlDia(c)'
  <2>1. AlDia(c)
    BY <1>7 DEF EnComun
  <2>2. CASE pendiente[c].op = "CARGAR_CSV"
    <3>1. pc[c] = "menu"
      BY <2>2 DEF EnElMenu
    <3>2. cache' = [cache EXCEPT ![c] = SinCache]
      BY <1>1, <2>2, <3>1 DEF Contestar, LoginContestado, ListaContestada, CargaContestada,
           InfoContestada, TextoMostrado
    <3>3. NO_VALIDA.tipo = "no valida" /\ \A t \in Listas : SinCache[t] = NO_VALIDA
      BY DEF SinCache, NO_VALIDA, Contenido
    <3>4. \A t \in Listas : cache'[c][t].tipo = "no valida"
      BY <1>0, <3>2, <3>3 DEF ControladorTypeOK
    <3> QED BY <3>4 DEF AlDia
  <2>3. CASE pendiente[c].op = "LISTAR"
    <3>1. pc[c] = "menu"
      BY <2>3 DEF EnElMenu
    <3>2. cache' = [cache EXCEPT ![c][pendiente[c].arg] = Guardado(texto)]
      BY <1>1, <2>3, <3>1 DEF Contestar, LoginContestado, ListaContestada, CargaContestada,
           InfoContestada, TextoMostrado
    <3>3. ASSUME NEW t \in Listas, cache'[c][t].tipo = "lista"
          PROVE  cache'[c][t].tabla = t /\ cache'[c][t].version >= verServidor'
      <4>1. CASE t = pendiente[c].arg
        <5>1. cache'[c][t] = Guardado(texto)
          BY <1>0, <3>2, <4>1 DEF ControladorTypeOK
        <5>2. Guardado(texto).tipo = "lista"
          BY <3>3, <5>1
        <5>3. /\ r.tipo = "DATA" /\ r.a.op = "LISTAR" /\ r.version >= 0
              /\ Guardado(texto).tabla = r.a.arg /\ Guardado(texto).version = r.version
          BY <1>2, <5>2, GuardadoDe
        <5>4. r.version >= verServidor
          BY <1>10, <5>3 DEF Casa
        <5> QED BY <1>8, <4>1, <5>1, <5>3, <5>4
      <4>2. CASE t # pendiente[c].arg
        <5>1. cache'[c][t] = cache[c][t]
          BY <1>0, <3>2, <4>2 DEF ControladorTypeOK
        <5> QED BY <2>1, <2>3, <3>3, <5>1 DEF AlDia
      <4> QED BY <4>1, <4>2
    <3> QED BY <3>3 DEF AlDia
  <2>4. CASE pendiente[c].op \notin {"CARGAR_CSV", "LISTAR"}
    <3>1. UNCHANGED cache
      BY <1>1, <2>4 DEF Contestar, LoginContestado, ListaContestada, CargaContestada,
           InfoContestada, TextoMostrado
    <3> QED BY <2>1, <2>4, <3>1 DEF AlDia
  <2> QED BY <2>2, <2>3, <2>4
<1> QED BY <1>9, <1>11, <1>12, <1>13 DEF EnComun

\* While it is served, what a client does keeps both sides of one mind.
LEMMA AtencionPropia ==
  ASSUME ConversacionInv, Sanas, NEW c \in Clientes, NEW e \in BOOLEAN, ClienteNext(c, e),
         UNCHANGED <<servidor, idUsuarioActual, respuesta, verServidor>>,
         EnElMenu(c), Atencion(c)
  PROVE  Atencion(c)'
<1>0. RedTypeOK /\ ControladorTypeOK /\ Conexiones /\ Conversacion(c)
  BY DEF ConversacionInv, EsperaInv, TypeOK
<1>1. UNCHANGED atendido
  BY <1>0, TipoCliente
<1> SUFFICES ASSUME atendido = c, entero'[c]
             PROVE  (abierto'[c] => EnComun(c)') /\ DeSuUsuario(c)'
  BY <1>1 DEF Atencion
<1>2. EnMarcha(c)' <=> EnMarcha(c)
  BY <1>1 DEF EnMarcha
<1>3. CASE Conectar(c, e)
  BY <1>3 DEF Conectar, Conectado
<1>4. CASE Terminar(c)
  <2>1. /\ ~abierto'[c] /\ UNCHANGED entero
        /\ al_servidor'[c] \in {<<>>, al_servidor[c]}
    BY <1>0, <1>4 DEF Terminar, RedTypeOK
  <2> QED BY <2>1 DEF Atencion, DeSuUsuario
<1>5. CASE Cancelar(c) \/ CambiarUsuario(c)
  <2>1. UNCHANGED <<abierto, al_servidor, al_cliente, pendiente, idUsuarioAutenticado,
                    cache, entero>>
    BY <1>5 DEF Cancelar, CambiarUsuario, red
  <2>2. \A r : Casa(c, r) => Casa(c, r)'
    BY <2>1 DEF Casa, Tras, ID_PASAJERO
  <2>3. abierto[c] => EnComun(c)
    BY <2>1 DEF Atencion
  <2>4. AlDia(c) => AlDia(c)'
    BY <2>1 DEF AlDia
  <2>5. Casa(c, respuesta) => Casa(c, respuesta)'
    BY <2>1 DEF Casa, Tras, ID_PASAJERO
  <2>6. (\A i \in DOMAIN al_cliente[c] : Casa(c, al_cliente[c][i].r)) =>
          \A i \in DOMAIN al_cliente'[c] : Casa(c, al_cliente[c][i].r)'
    BY <2>1 DEF Casa, Tras, ID_PASAJERO
  <2>7. abierto'[c] => EnComun(c)'
    BY <1>2, <2>1, <2>3, <2>4, <2>5, <2>6 DEF EnComun
  <2> QED BY <2>1, <2>7 DEF Atencion, DeSuUsuario
<1>6. ASSUME NEW p \in Peticion, PideDesde(c, p)
      PROVE  EnComun(c)' /\ DeSuUsuario(c)'
  <2>1. /\ UNCHANGED <<abierto, al_cliente, idUsuarioAutenticado, cache, entero>>
        /\ abierto[c] /\ pendiente[c] = NADA
        /\ al_servidor'[c] = Append(al_servidor[c], p)
    BY <1>0, <1>6 DEF PideDesde, Pedir, Libre, RedTypeOK, Conectado
  <2>2. al_servidor[c] = <<>> /\ al_cliente[c] = <<>> /\ ~EnMarcha(c)
    BY <1>0, <2>1, NadaEnCamino
  <2>3. al_servidor'[c] = <<p>>
    BY <2>1, <2>2
  <2>4. idUsuarioActual = idUsuarioAutenticado[c] /\ AlDia(c)
    BY <2>1, <2>2 DEF Atencion, EnComun
  <2>5. AlDia(c)'
    <3>0. NADA.op = ""
      BY DEF NADA, Orden, Texto
    <3>1. pendiente[c].op # "CARGAR_CSV"
      BY <2>1, <3>0
    <3> QED BY <2>1, <2>4, <3>1 DEF AlDia
  <2>6. \A i \in DOMAIN al_cliente'[c] : FALSE
    BY <2>1, <2>2
  <2>7. EnComun(c)'
    BY <1>2, <2>1, <2>2, <2>4, <2>5, <2>6 DEF EnComun
  <2>8. p.op = "COMPRAR_BILLETE" => p.id = idUsuarioActual'
    BY <1>6, <2>4 DEF PideDesde
  <2> QED BY <2>3, <2>7, <2>8 DEF DeSuUsuario
<1>7. CASE RecibirRespuesta(c)
  <2>1. UNCHANGED al_servidor /\ (entero'[c] => entero[c])
    BY <1>0, <1>7 DEF RecibirRespuesta, Contestar, ControladorTypeOK
  <2>2. DeSuUsuario(c)'
    BY <2>1 DEF Atencion, DeSuUsuario
  <2> QED BY <1>7, <2>2, ComunRecibida
<1> QED BY <1>0, <1>3, <1>4, <1>5, <1>6, <1>7, PeticionesDelCliente

\* What a step that is not about d leaves as it was.
Intacto(d) ==
  /\ abierto'[d] = abierto[d] /\ entero'[d] = entero[d] /\ pendiente'[d] = pendiente[d]
  /\ pc'[d] = pc[d] /\ rol'[d] = rol[d] /\ cache'[d] = cache[d]
  /\ idUsuarioAutenticado'[d] = idUsuarioAutenticado[d]
  /\ al_servidor'[d] = al_servidor[d] /\ al_cliente'[d] = al_cliente[d]
  /\ EnLaCola(d)' => EnLaCola(d)

\* A step of one client is no step of another.
LEMMA IntactoAjeno ==
  ASSUME RedTypeOK, ControladorTypeOK, NEW c \in Clientes, NEW d \in Clientes \ {c},
         NEW e \in BOOLEAN, ClienteNext(c, e)
  PROVE  Intacto(d)
<1>1. CASE Conectar(c, e)
  <2>1. cola \in Seq(Clientes) /\ Len(cola) < 1 /\ cola' = Append(cola, c)
    BY <1>1 DEF Conectar, BACKLOG, RedTypeOK
  <2>a. cola = <<>> /\ Append(<<>>, c) = <<c>>
    BY <2>1, SinSitio
  <2>2. cola' = <<c>>
    BY <2>1, <2>a
  <2>3. ~EnLaCola(d)'
    BY <2>2, ColaDeUno DEF EnLaCola
  <2> QED BY <1>1, <2>3 DEF Conectar, RedTypeOK, ControladorTypeOK, Intacto
<1>2. CASE Terminar(c)
  <2>1. UNCHANGED cola
    BY <1>2 DEF Terminar
  <2> QED BY <1>2, <2>1 DEF Terminar, RedTypeOK, ControladorTypeOK, EnLaCola, Intacto
<1>3. CASE Cancelar(c) \/ CambiarUsuario(c)
  BY <1>3 DEF Cancelar, CambiarUsuario, red, ControladorTypeOK, EnLaCola, Intacto
<1>4. ASSUME NEW p \in Peticion, PideDesde(c, p)
      PROVE  Intacto(d)
  BY <1>4 DEF PideDesde, Pedir, RedTypeOK, ControladorTypeOK, EnLaCola, Intacto
<1>5. CASE RecibirRespuesta(c)
  <2>1. PICK texto : Contestar(c, texto)
    BY <1>5 DEF RecibirRespuesta
  <2>2. al_cliente'[d] = al_cliente[d]
    BY <1>5 DEF RecibirRespuesta, RedTypeOK
  <2>3. /\ entero'[d] = entero[d] /\ pendiente'[d] = pendiente[d]
        /\ UNCHANGED <<cola, abierto, al_servidor>>
    BY <2>1 DEF Contestar, ControladorTypeOK
  <2>4. /\ pc'[d] = pc[d] /\ rol'[d] = rol[d] /\ cache'[d] = cache[d]
        /\ idUsuarioAutenticado'[d] = idUsuarioAutenticado[d]
    BY <2>1 DEF Contestar, LoginContestado, ListaContestada, CargaContestada,
         InfoContestada, TextoMostrado, ControladorTypeOK
  <2> QED BY <2>2, <2>3, <2>4 DEF EnLaCola, Intacto
<1> QED BY <1>1, <1>2, <1>3, <1>4, <1>5, PeticionesDelCliente

LEMMA SesionAjena ==
  ASSUME NEW d \in Clientes, Intacto(d), UNCHANGED <<atendido, sesion, bd>>,
         EnElMenu(d), EnEspera(d), Atencion(d)
  PROVE  EnElMenu(d)' /\ EnEspera(d)' /\ Atencion(d)'
<1>1. UNCHANGED <<atendido, servidor, respuesta, idUsuarioActual, verServidor>>
  BY DEF sesion, bd
<1>2. EnMarcha(d)' <=> EnMarcha(d)
  BY <1>1 DEF EnMarcha
<1> QED BY <1>1, <1>2, SesionIgual DEF Intacto

----------------------------------------------------------------------------
(* The steps of the server *)

\* Whatever is received, only a login is answered with a role.
LEMMA SanaRespuesta ==
  ASSUME NEW p \in Seq(Peticion), Len(p) >= 1, procesarPeticion(p)
  PROVE  Sana(respuesta')
<1>1. \A v, b : /\ Responder("DATA", p, v, b).tipo = "DATA"
                /\ Responder("OK", p, v, b).tipo = "OK"
  BY DEF Responder
<1>2. Error(p).tipo = "ERROR"
  BY DEF Error, Responder
<1>3. CASE procesarLogin(p)
  <2>1. respuesta'.a = p[1] /\ p[1].op = "LOGIN"
    BY <1>3, RespuestaDe DEF procesarLogin, Es, procesarPeticion
  <2> QED BY <2>1 DEF Sana
<1>4. CASE ~procesarLogin(p)
  <2>1. respuesta'.tipo # "ROL"
    BY <1>1, <1>2, <1>4 DEF procesarPeticion, Listar, BuscarVuelo, BuscarVuelosOrigenDestino,
         CargarCSV, ComprarBillete, VerMisBilletes, Salir, NoReconocida, SinMemoria
  <2> QED BY <2>1 DEF Sana
<1> QED BY <1>3, <1>4

\* What one request does to the session, and what its answer says of it.
Sigue(p) ==
  /\ idUsuarioActual' =
       IF p.op = "SALIR" THEN -1
       ELSE IF respuesta'.tipo = "ROL" THEN (IF p.arg = "PASAJERO" THEN ID_PASAJERO ELSE -1)
       ELSE idUsuarioActual
  /\ (respuesta'.tipo = "DATA" /\ p.op = "LISTAR" /\ respuesta'.version >= 0) =>
       respuesta'.version >= verServidor'
  /\ verServidor' # verServidor => p.op = "CARGAR_CSV"

LEMMA ProcesarUna ==
  ASSUME ServidorTypeOK, verServidor <= version, NEW p \in Seq(Peticion), Len(p) = 1,
         procesarPeticion(p)
  PROVE  Sigue(p[1])
<1>1. \A t, v, b : /\ Responder(t, p, v, b).tipo = t
                   /\ Responder(t, p, v, b).version = v
  BY DEF Responder
<1>2. Error(p).tipo = "ERROR"
  BY <1>1 DEF Error
<1>a. version \in Nat /\ verServidor \in Nat
  BY DEF ServidorTypeOK
<1>3. CASE procesarLogin(p)
  BY <1>1, <1>2, <1>3 DEF procesarLogin, Es, Sigue, bd
<1>4. CASE Listar(p)
  <2>1. /\ p[1].op = "LISTAR" /\ UNCHANGED <<idUsuarioActual, verServidor>>
        /\ respuesta'.tipo = "DATA" /\ respuesta'.version \in {version, SIN_FILAS}
    BY <1>1, <1>4 DEF Listar, Es, bd
  <2>2. respuesta'.version >= 0 => respuesta'.version >= verServidor'
    BY <1>a, <2>1 DEF SIN_FILAS
  <2> QED BY <2>1, <2>2 DEF Sigue
<1>5. CASE BuscarVuelo(p) \/ BuscarVuelosOrigenDestino(p) \/ VerMisBilletes(p) \/ ComprarBillete(p)
  <2>1. /\ p[1].op \in {"BUSCAR_VUELO", "BUSCAR_VUELOS_ORIGEN_DESTINO", "VER_MIS_BILLETES",
                        "COMPRAR_BILLETE"}
        /\ respuesta'.tipo # "ROL" /\ UNCHANGED <<idUsuarioActual, verServidor>>
    BY <1>1, <1>2, <1>5 DEF BuscarVuelo, BuscarVuelosOrigenDestino, VerMisBilletes,
         ComprarBillete, Es, bd
  <2> QED BY <2>1 DEF Sigue
<1>6. CASE CargarCSV(p)
  BY <1>1, <1>6 DEF CargarCSV, Es, Sigue
<1>7. CASE Salir(p)
  BY <1>1, <1>7 DEF Salir, Es, Sigue, bd
<1>8. CASE SinMemoria(p)
  BY <1>2, <1>8 DEF SinMemoria, Es, Sigue, bd
<1> QED BY <1>3, <1>4, <1>5, <1>6, <1>7, <1>8 DEF procesarPeticion, NoReconocida

\* The loads of the server are among those there were.
LEMMA CargasDelServidor ==
  ASSUME ServidorTypeOK, verServidor <= version, NEW p, procesarPeticion(p)
  PROVE  verServidor' <= version'
<1>1. version \in Nat
  BY DEF ServidorTypeOK
<1>2. CASE CargarCSV(p)
  <2>1. version' \in Nat /\ verServidor' = version'
    BY <1>1, <1>2 DEF CargarCSV
  <2> QED BY <2>1
<1>3. CASE ~CargarCSV(p)
  <2>1. UNCHANGED <<version, verServidor>>
    BY <1>3 DEF procesarPeticion, procesarLogin, Listar, BuscarVuelo, BuscarVuelosOrigenDestino,
         ComprarBillete, VerMisBilletes, Salir, NoReconocida, SinMemoria, bd
  <2> QED BY <2>1
<1> QED BY <1>2, <1>3

\* The place of the menu is the client's own.
LEMMA MenuServidor ==
  ASSUME NEW c \in Clientes, EnElMenu(c), UNCHANGED <<cliente, abierto>>
  PROVE  EnElMenu(c)'
BY DEF EnElMenu, Nuevo, cliente, ID_PASAJERO

\* Without a place in the backlog there is nothing to say of it.
LEMMA ColaServidor ==
  ASSUME NEW c \in Clientes, EnEspera(c), UNCHANGED cliente,
         EnLaCola(c)' => /\ EnLaCola(c) /\ al_servidor'[c] = al_servidor[c]
                         /\ al_cliente'[c] = al_cliente[c]
  PROVE  EnEspera(c)'
BY DEF EnEspera, Nuevo, cliente

\* accept: the session starts with nobody logged in on either side.
LEMMA AtencionAceptar ==
  ASSUME ConversacionInv, EnReposo, Aceptar, UNCHANGED cliente, NEW c \in Clientes,
         c = Head(cola), EnEspera(c)
  PROVE  Atencion(c)' /\ ~EnLaCola(c)'
<1>0. RedTypeOK /\ Conexiones
  BY DEF ConversacionInv, EsperaInv, TypeOK
<1>1. cola \in Seq(Clientes) /\ Len(cola) <= 1 /\ cola # <<>>
  BY <1>0 DEF Aceptar, Conexiones, BACKLOG, RedTypeOK
<1>2. DOMAIN cola = {1} /\ Head(cola) = cola[1] /\ cola' = <<>>
  BY <1>1, SinSitio DEF Aceptar
<1>3. Nuevo(c) /\ al_cliente[c] = <<>>
      /\ (al_servidor[c] # <<>> => \E q \in Peticion : al_servidor[c] = <<q>> /\ q.op = "LOGIN")
  BY <1>2 DEF EnEspera, EnLaCola
<1>4. idUsuarioActual = -1 /\ servidor' = "recv"
      /\ UNCHANGED <<al_servidor, al_cliente, idUsuarioActual>>
  BY DEF EnReposo, Aceptar
<1>5. DeSuUsuario(c)'
  BY <1>3, <1>4 DEF DeSuUsuario
<1>6. AlDia(c)'
  BY <1>3 DEF AlDia, Nuevo, cliente
<1>7. ~EnMarcha(c)' /\ al_cliente'[c] = <<>>
  BY <1>3, <1>4 DEF EnMarcha
<1>8. idUsuarioActual' = idUsuarioAutenticado'[c]
  BY <1>3, <1>4 DEF Nuevo, cliente
<1>9. \A i \in DOMAIN al_cliente'[c] : FALSE
  BY <1>7
<1>10. EnComun(c)'
  BY <1>6, <1>7, <1>8, <1>9 DEF EnComun
<1>11. ~EnLaCola(c)'
  BY <1>2 DEF EnLaCola
<1> QED BY <1>5, <1>10, <1>11 DEF Atencion

\* recv and procesarPeticion: the answer carries what the session becomes.
LEMMA AtencionRecibir ==
  ASSUME ConversacionInv, EnReposo, Recibir, UNCHANGED cliente, NEW c \in Clientes,
         c = atendido, EnElMenu(c), Atencion(c)
  PROVE  Atencion(c)'
<1>0. /\ RedTypeOK /\ ServidorTypeOK /\ ControladorTypeOK /\ Conexiones /\ Conversacion(c)
      /\ UNCHANGED <<pendiente, entero, idUsuarioAutenticado, cache>>
  BY DEF ConversacionInv, EsperaInv, TypeOK, cliente
<1>1. /\ servidor' = "enviar" /\ servidor = "recv"
      /\ UNCHANGED <<cola, atendido, abierto, al_cliente>>
  BY DEF Recibir
<1>2. PICK p \in Prefijos(al_servidor[c]) :
        /\ al_servidor' = [al_servidor EXCEPT ![c] = Resto(@, p)]
        /\ procesarPeticion(p)
  BY DEF Recibir
<1> SUFFICES ASSUME entero[c]
             PROVE  (abierto[c] => EnComun(c)') /\ DeSuUsuario(c)'
  BY <1>0, <1>1 DEF Atencion
<1>3. /\ p \in Seq(Peticion) /\ Len(p) \in 1..Len(al_servidor[c])
      /\ al_servidor[c] \in Seq(Peticion)
      /\ Len(Resto(al_servidor[c], p)) = Len(al_servidor[c]) - Len(p)
  BY <1>0, <1>2, Recv DEF RedTypeOK
<1>4. al_servidor[c] # <<>>
  BY <1>3, EmptySeq
<1>5. PICK q \in Peticion :
        al_servidor[c] = <<q>> /\ (q.op = "COMPRAR_BILLETE" => q.id = idUsuarioActual)
  BY <1>4 DEF Atencion, DeSuUsuario
<1>6. p[1] = q /\ Resto(al_servidor[c], p) = <<>>
  BY <1>2, <1>3, <1>5, RecvUna
<1>7. al_servidor'[c] = <<>>
  BY <1>0, <1>2, <1>6 DEF RedTypeOK
<1>8. Len(p) = 1
  <2>1. Len(<<q>>) = 1
    OBVIOUS
  <2>2. Len(al_servidor[c]) = 1
    BY <1>5, <2>1
  <2> QED BY <1>3, <2>2
<1>9. Sigue(q) /\ respuesta'.a = q
  BY <1>0, <1>2, <1>3, <1>6, <1>8, ProcesarUna, RespuestaDe DEF EnReposo
<1>10. ASSUME abierto[c] PROVE EnComun(c)'
  <2>1. UnSitio(c) /\ EnComun(c)
    BY <1>0, <1>10 DEF Conversacion, Atencion
  <2>2. /\ al_servidor[c] = <<pendiente[c]>> /\ al_cliente[c] = <<>> /\ ~EnMarcha(c)
    BY <1>4, <2>1 DEF UnSitio
  <2>3. pendiente[c] = q
    BY <1>5, <2>2
  <2>4. idUsuarioActual = idUsuarioAutenticado[c] /\ AlDia(c)
    BY <2>1, <2>2 DEF EnComun
  <2>5. Casa(c, respuesta)'
    BY <1>0, <1>9, <2>4 DEF Casa, Tras, Sigue, ID_PASAJERO
  <2>6. AlDia(c)'
    BY <1>0, <1>9, <2>3, <2>4 DEF AlDia, Sigue
  <2>7. EnMarcha(c)' /\ al_cliente'[c] = <<>>
    BY <1>1, <2>2 DEF EnMarcha
  <2>8. \A i \in DOMAIN al_cliente'[c] : FALSE
    BY <2>7
  <2> QED BY <2>5, <2>6, <2>7, <2>8 DEF EnComun
<1> QED BY <1>7, <1>10 DEF DeSuUsuario

\* All the pieces of an answer are of that answer.
LEMMA PiezasDe ==
  ASSUME NEW r \in Respuesta, NEW corte \in Cortes(r), NEW i \in DOMAIN corte
  PROVE  corte[i].r = r /\ (~Larga(r) => corte[i].de = 1)
<1>1. PICK n \in IF Larga(r) THEN 1..Trozos ELSE {1} :
        corte = [k \in 1..n |-> [r |-> r, parte |-> k, de |-> n]]
  BY DEF Cortes
<1>2. i \in 1..n
  BY <1>1
<1>3. corte[i] = [r |-> r, parte |-> i, de |-> n]
  BY <1>1, <1>2
<1> QED BY <1>1, <1>3

\* send: what the answer said of the session is now on its way.
LEMMA AtencionEnviar ==
  ASSUME ConversacionInv, Enviar, UNCHANGED cliente, NEW c \in Clientes,
         c = atendido, Atencion(c)
  PROVE  Atencion(c)'
<1>0. /\ RedTypeOK /\ ServidorTypeOK /\ ControladorTypeOK /\ Conexiones /\ Conversacion(c)
      /\ UNCHANGED <<pendiente, entero, idUsuarioAutenticado, cache>>
  BY DEF ConversacionInv, EsperaInv, TypeOK, cliente
<1>1. servidor = "enviar" /\ UNCHANGED <<cola, abierto, verServidor>>
  BY DEF Enviar, bd
<1>2. CASE cerrarCliente
  <2>1. atendido' # c
    BY <1>2, NadieAssumption DEF cerrarCliente
  <2> QED BY <2>1 DEF Atencion
<1>3. CASE /\ servidor' = "recv"
           /\ UNCHANGED <<atendido, idUsuarioActual, al_servidor>>
  <2> SUFFICES ASSUME entero[c]
               PROVE  (abierto[c] => EnComun(c)') /\ DeSuUsuario(c)'
    BY <1>0, <1>1 DEF Atencion
  <2>1. DeSuUsuario(c)'
    BY <1>3 DEF Atencion, DeSuUsuario
  <2>2. ASSUME abierto[c] PROVE EnComun(c)'
    <3>1. UnSitio(c) /\ EnComun(c) /\ EnMarcha(c)
      BY <1>0, <1>1, <2>2 DEF Conversacion, Atencion, EnMarcha
    <3>2. al_cliente[c] = <<>> /\ Casa(c, respuesta) /\ AlDia(c) /\ respuesta \in Respuesta
      BY <1>0, <3>1 DEF UnSitio, EnComun, ServidorTypeOK
    <3>3. PICK corte \in Cortes(respuesta) :
            al_cliente' = [al_cliente EXCEPT ![c] = @ \o corte]
      BY <2>2 DEF Enviar
    <3>4. corte \in Seq(Trozo) /\ <<>> \o corte # <<>>
      <4>1. <<>> \in Seq(Trozo)
        OBVIOUS
      <4> QED BY <3>2, <4>1, TipoCortes, CorteNoVacio
    <3>5. al_cliente'[c] = corte /\ corte # <<>>
      BY <1>0, <3>2, <3>3, <3>4, ConcatEmptySeq DEF RedTypeOK
    <3>6. ~EnMarcha(c)'
      BY <1>3 DEF EnMarcha
    <3>7. Casa(c, respuesta) =>
            \A i \in DOMAIN al_cliente'[c] : Casa(c, al_cliente[c][i].r)'
      <4>1. \A i \in DOMAIN al_cliente'[c] : al_cliente'[c][i].r = respuesta
        BY <3>2, <3>5, PiezasDe
      <4> QED BY <1>0, <1>1, <1>3, <4>1 DEF Casa, Tras, ID_PASAJERO
    <3>8. AlDia(c)'
      BY <1>0, <1>1, <3>2 DEF AlDia
    <3> QED BY <3>2, <3>5, <3>6, <3>7, <3>8 DEF EnComun
  <2> QED BY <2>1, <2>2
<1> QED BY <1>2, <1>3 DEF Enviar

\* Every step of the server's side keeps what it has in common with c.
LEMMA SesionServidor ==
  ASSUME ConversacionInv, EnReposo, ServidorNext, UNCHANGED cliente, NEW c \in Clientes,
         EnElMenu(c), EnEspera(c), Atencion(c)
  PROVE  EnElMenu(c)' /\ EnEspera(c)' /\ Atencion(c)'
<1>0. /\ RedTypeOK /\ Conexiones
      /\ servidor \in {"recv", "enviar"} <=> atendido # NADIE
      /\ c # NADIE
  BY NadieAssumption DEF ConversacionInv, EsperaInv, TypeOK
<1>a. atendido # NADIE => atendido \in Clientes
  BY <1>0 DEF RedTypeOK
<1>b. /\ UNCHANGED <<entero, pendiente, pc, rol, cache, idUsuarioAutenticado>>
  BY DEF cliente
\* The end of a connection.
<1>c. ASSUME UNCHANGED abierto, atendido' = NADIE,
             EnLaCola(c)' => /\ EnLaCola(c) /\ al_servidor'[c] = al_servidor[c]
                             /\ al_cliente'[c] = al_cliente[c]
      PROVE  EnElMenu(c)' /\ EnEspera(c)' /\ Atencion(c)'
  BY <1>0, <1>c, MenuServidor, ColaServidor DEF Atencion
\* A step that is not about connections.
<1>d. ASSUME UNCHANGED red,
             atendido = c => UNCHANGED <<servidor, respuesta, idUsuarioActual, verServidor>>
      PROVE  EnElMenu(c)' /\ EnEspera(c)' /\ Atencion(c)'
  BY <1>b, <1>d, SesionIgual DEF red, EnLaCola, EnMarcha
<1>1. CASE Aceptar
  <2>1. UNCHANGED <<abierto, al_servidor, al_cliente>> /\ atendido = NADIE
        /\ atendido' = Head(cola)
    BY <1>0, <1>1 DEF Aceptar
  <2>2. EnLaCola(c)' => EnLaCola(c)
    <3>1. cola \in Seq(Clientes) /\ Len(cola) <= 1 /\ cola # <<>>
      BY <1>0, <1>1 DEF Aceptar, Conexiones, BACKLOG, RedTypeOK
    <3>2. cola' = <<>>
      BY <1>1, <3>1, SinSitio DEF Aceptar
    <3> QED BY <3>2 DEF EnLaCola
  <2>3. CASE c = Head(cola)
    <3>1. Atencion(c)' /\ ~EnLaCola(c)'
      BY <1>1, <2>3, AtencionAceptar
    <3> QED BY <2>1, <3>1, MenuServidor, ColaServidor
  <2>4. CASE c # Head(cola)
    BY <1>b, <2>1, <2>2, <2>4, SesionIgual
  <2> QED BY <2>3, <2>4
<1>2. CASE Recibir
  <2>1. UNCHANGED <<cola, atendido, abierto, al_cliente>>
    BY <1>2 DEF Recibir
  <2>2. CASE c = atendido
    <3>1. ~EnLaCola(c)'
      BY <1>0, <2>1, <2>2 DEF Conexiones, EnLaCola
    <3> QED BY <1>2, <2>1, <2>2, <3>1, AtencionRecibir, MenuServidor, ColaServidor
  <2>3. CASE c # atendido
    <3>1. al_servidor'[c] = al_servidor[c]
      BY <1>0, <1>2, <2>3 DEF Recibir, RedTypeOK
    <3>2. EnLaCola(c)' => EnLaCola(c)
      BY <2>1 DEF EnLaCola
    <3> QED BY <1>b, <2>1, <2>3, <3>1, <3>2, SesionIgual
  <2> QED BY <2>2, <2>3
<1>3. CASE Enviar
  <2>1. UNCHANGED <<cola, abierto>> /\ atendido \in Clientes /\ atendido' \in {atendido, NADIE}
    BY <1>0, <1>a, <1>3 DEF Enviar, cerrarCliente
  <2>2. CASE c = atendido
    <3>1. ~EnLaCola(c)'
      BY <1>0, <2>1, <2>2 DEF Conexiones, EnLaCola
    <3> QED BY <1>3, <2>1, <2>2, <3>1, AtencionEnviar, MenuServidor, ColaServidor
  <2>3. CASE c # atendido
    <3>1. al_servidor'[c] = al_servidor[c] /\ al_cliente'[c] = al_cliente[c]
      BY <1>0, <1>3, <2>1, <2>3 DEF Enviar, cerrarCliente, RedTypeOK
    <3>2. EnLaCola(c)' => EnLaCola(c)
      BY <2>1 DEF EnLaCola
    <3> QED BY <1>0, <1>b, <2>1, <2>3, <3>1, <3>2, SesionIgual
  <2> QED BY <2>2, <2>3
<1>4. CASE Desconectado
  <2>1. /\ atendido \in Clientes /\ atendido' = NADIE /\ UNCHANGED <<cola, abierto, al_cliente>>
        /\ al_servidor' = [al_servidor EXCEPT ![atendido] = <<>>]
    BY <1>0, <1>a, <1>4 DEF Desconectado, cerrarCliente
  <2>2. EnLaCola(c)' => EnLaCola(c) /\ c # atendido
    BY <1>0, <2>1 DEF Conexiones, EnLaCola
  <2>3. c # atendido => al_servidor'[c] = al_servidor[c]
    BY <1>0, <2>1 DEF RedTypeOK
  <2> QED BY <1>c, <2>1, <2>2, <2>3
<1>5. CASE Arrancar
  <2>1. UNCHANGED red /\ atendido = NADIE
    BY <1>0, <1>5 DEF Arrancar
  <2> QED BY <1>0, <1>d, <2>1
<1>6. CASE SegundoServidor
  BY <1>6, <1>d DEF SegundoServidor, sesion
<1>7. CASE Caer
  <2>1. UNCHANGED abierto /\ atendido' = NADIE /\ cola' = <<>>
    BY <1>7 DEF Caer
  <2>2. ~EnLaCola(c)'
    BY <2>1 DEF EnLaCola
  <2> QED BY <1>c, <2>1, <2>2
<1>8. CASE ConsolaEmpieza
  BY <1>8, <1>d DEF ConsolaEmpieza, sesion
<1>9. ASSUME NEW v \in Vuelos, ConsolaInserta(v)
      PROVE  EnElMenu(c)' /\ EnEspera(c)' /\ Atencion(c)'
  BY <1>9, <1>d DEF ConsolaInserta, sesion
<1>10. CASE ConsolaTermina
  BY <1>10, <1>d DEF ConsolaTermina, sesion
<1> QED BY <1>1, <1>2, <1>3, <1>4, <1>5, <1>6, <1>7, <1>8, <1>9, <1>10
        DEF ServidorNext, PasoServidor

\* With nobody to serve there is no session.
LEMMA ReposoPaso ==
  ASSUME TypeOK, EnReposo, Next
  PROVE  EnReposo'
<1>0. ServidorTypeOK /\ version \in Nat /\ verServidor \in Nat /\ RedTypeOK
  BY DEF TypeOK, ServidorTypeOK
<1>a. ASSUME UNCHANGED <<servidor, idUsuarioActual, version, verServidor>> PROVE EnReposo'
  BY <1>a DEF EnReposo
<1>1. CASE Aceptar
  BY <1>1 DEF Aceptar, EnReposo, bd
<1>2. CASE Recibir
  <2>1. servidor' = "enviar" /\ \E p : procesarPeticion(p)
    BY <1>2 DEF Recibir
  <2>2. verServidor' <= version'
    BY <1>0, <2>1, CargasDelServidor DEF EnReposo
  <2> QED BY <2>1, <2>2 DEF EnReposo
<1>3. CASE Enviar
  BY <1>3 DEF Enviar, cerrarCliente, EnReposo, bd
<1>4. CASE Desconectado
  BY <1>4 DEF Desconectado, cerrarCliente, EnReposo, bd
<1>5. CASE Arrancar
  BY <1>5 DEF Arrancar, EnReposo
<1>6. CASE SegundoServidor
  BY <1>6, <1>a DEF SegundoServidor, sesion
<1>7. CASE Caer
  BY <1>7 DEF Caer, EnReposo
<1>8. CASE ConsolaEmpieza
  BY <1>8, <1>a DEF ConsolaEmpieza, sesion
<1>9. ASSUME NEW v \in Vuelos, ConsolaInserta(v) PROVE EnReposo'
  BY <1>9, <1>a DEF ConsolaInserta, sesion
<1>10. CASE ConsolaTermina
  <2>1. version' = version + 1 /\ UNCHANGED <<servidor, idUsuarioActual, verServidor>>
    BY <1>10 DEF ConsolaTermina, sesion
  <2>2. verServidor' <= version'
    BY <1>0, <2>1 DEF EnReposo
  <2> QED BY <2>1, <2>2 DEF EnReposo
<1>11. CASE UNCHANGED <<sesion, bd>>
  BY <1>11, <1>a DEF sesion, bd
<1> QED BY <1>1, <1>2, <1>3, <1>4, <1>5, <1>6, <1>7, <1>8, <1>9, <1>10, <1>11
        DEF Next, ServidorNext, PasoServidor

\* What is left of a socket was in it.
LEMMA RestoDe ==
  ASSUME NEW s \in Seq(Trozo), NEW p \in Prefijos(s), NEW i \in DOMAIN Resto(s, p)
  PROVE  \E j \in DOMAIN s : Resto(s, p)[i] = s[j]
<1>1. /\ Len(p) \in 1..Len(s) /\ Resto(s, p) \in Seq(Trozo)
      /\ Len(Resto(s, p)) = Len(s) - Len(p)
      /\ \A k \in 1..Len(Resto(s, p)) : Resto(s, p)[k] = s[k + Len(p)]
  BY Recv
<1>2. Len(s) \in Nat /\ i \in 1..Len(Resto(s, p))
  BY <1>1, LenProperties
<1>3. i + Len(p) \in 1..Len(s)
  BY <1>1, <1>2
<1>4. i + Len(p) \in DOMAIN s
  BY <1>3, LenProperties
<1> QED BY <1>1, <1>2, <1>4

\* What a send adds comes behind what was in the socket.
LEMMA PegadoDe ==
  ASSUME NEW s \in Seq(Trozo), NEW t \in Seq(Trozo), NEW i \in DOMAIN (s \o t)
  PROVE  \/ \E j \in DOMAIN s : (s \o t)[i] = s[j]
         \/ \E j \in DOMAIN t : (s \o t)[i] = t[j]
<1>1. /\ s \o t \in Seq(Trozo) /\ Len(s \o t) = Len(s) + Len(t)
      /\ \A k \in 1..Len(s) + Len(t) :
           (s \o t)[k] = IF k <= Len(s) THEN s[k] ELSE t[k - Len(s)]
  BY ConcatProperties
<1>2. Len(s) \in Nat /\ Len(t) \in Nat /\ DOMAIN s = 1..Len(s) /\ DOMAIN t = 1..Len(t)
  BY LenProperties
<1>3. i \in 1..Len(s) + Len(t)
  BY <1>1, LenProperties
<1>4. CASE i <= Len(s)
  <2>1. i \in DOMAIN s
    BY <1>2, <1>3, <1>4
  <2> QED BY <1>1, <1>3, <1>4, <2>1
<1>5. CASE ~(i <= Len(s))
  <2>1. i - Len(s) \in DOMAIN t
    BY <1>2, <1>3, <1>5
  <2> QED BY <1>1, <1>3, <1>5, <2>1
<1> QED BY <1>4, <1>5

\* The sockets only lose what is in them, but for an answer that is sent.
LEMMA SanasMenos ==
  ASSUME Sanas, Sana(respuesta'),
         \A c \in Clientes : \A i \in DOMAIN al_cliente'[c] :
           \E j \in DOMAIN al_cliente[c] : al_cliente'[c][i] = al_cliente[c][j]
  PROVE  Sanas'
BY DEF Sanas

LEMMA SanasRecibida ==
  ASSUME RedTypeOK, Sanas, Sana(respuesta'), NEW c \in Clientes, NEW texto,
         Recibido(c, texto)
  PROVE  Sanas'
<1>1. CASE UNCHANGED al_cliente
  BY <1>1, SanasMenos
<1>2. ASSUME texto \in Prefijos(al_cliente[c]),
             al_cliente' = [al_cliente EXCEPT ![c] = Resto(@, texto)]
      PROVE  Sanas'
  <2>1. ASSUME NEW d \in Clientes, NEW i \in DOMAIN al_cliente'[d]
        PROVE  \E j \in DOMAIN al_cliente[d] : al_cliente'[d][i] = al_cliente[d][j]
    <3>1. CASE d = c
      <4>1. al_cliente'[d] = Resto(al_cliente[d], texto) /\ al_cliente[d] \in Seq(Trozo)
        BY <1>2, <3>1 DEF RedTypeOK
      <4> QED BY <1>2, <2>1, <3>1, <4>1, RestoDe
    <3>2. CASE d # c
      <4>1. al_cliente'[d] = al_cliente[d]
        BY <1>2, <3>2 DEF RedTypeOK
      <4> QED BY <2>1, <4>1
    <3> QED BY <3>1, <3>2
  <2> QED BY <2>1, SanasMenos
<1> QED BY <1>1, <1>2 DEF Recibido

LEMMA SanasPaso ==
  ASSUME TypeOK, Sanas, Next
  PROVE  Sanas'
<1>0. /\ RedTypeOK /\ ControladorTypeOK /\ ServidorTypeOK
      /\ servidor \in {"recv", "enviar"} <=> atendido # NADIE
  BY DEF TypeOK
<1>a. Sana(SIN_RESPUESTA)
  <2>1. SIN_RESPUESTA.tipo = "ERROR"
    BY DEF SIN_RESPUESTA, Error, Responder
  <2> QED BY <2>1 DEF Sana
<1>b. ASSUME UNCHANGED al_cliente, Sana(respuesta') PROVE Sanas'
  BY <1>b, SanasMenos
<1>c. Sana(respuesta)
  BY DEF Sanas
<1>1. ASSUME NEW c \in Clientes, ClienteNext(c, servidor # "apagado"), UNCHANGED <<sesion, bd>>
      PROVE  Sanas'
  <2>0. (servidor # "apagado") \in BOOLEAN /\ Sana(respuesta')
    BY <1>1, <1>c DEF sesion
  <2>1. CASE RecibirRespuesta(c)
    <3>1. PICK texto : Recibido(c, texto)
      BY <1>0, <2>1, RespuestaRecibida
    <3> QED BY <1>0, <2>0, <3>1, SanasRecibida
  <2>2. CASE Terminar(c)
    <3>1. \A d \in Clientes : al_cliente'[d] \in {<<>>, al_cliente[d]}
      BY <1>0, <2>2 DEF Terminar, RedTypeOK
    <3> QED BY <2>0, <3>1, SanasMenos
  <2>3. CASE ~(RecibirRespuesta(c) \/ Terminar(c))
    <3>1. UNCHANGED al_cliente
      BY <1>0, <1>1, <2>0, <2>3, PeticionesDelCliente
         DEF Conectar, Cancelar, CambiarUsuario, PideDesde, Pedir, red
    <3> QED BY <1>b, <2>0, <3>1
  <2> QED BY <2>1, <2>2, <2>3
<1>2. CASE Recibir
  <2>1. atendido \in Clientes /\ UNCHANGED al_cliente
    BY <1>0, <1>2 DEF Recibir, RedTypeOK
  <2>2. PICK p \in Prefijos(al_servidor[atendido]) : procesarPeticion(p)
    BY <1>2 DEF Recibir
  <2>3. al_servidor[atendido] \in Seq(Peticion)
    BY <1>0, <2>1 DEF RedTypeOK
  <2>4. p \in Seq(Peticion) /\ Len(p) \in 1..Len(al_servidor[atendido])
    BY <2>2, <2>3, Recv
  <2>5. Sana(respuesta')
    BY <2>2, <2>4, SanaRespuesta
  <2> QED BY <1>b, <2>1, <2>5
<1>3. CASE Enviar
  <2>0. atendido \in Clientes /\ respuesta' = SIN_RESPUESTA /\ respuesta \in Respuesta
    BY <1>0, <1>3 DEF Enviar, RedTypeOK, ServidorTypeOK
  <2>1. CASE UNCHANGED al_cliente
    BY <1>a, <1>b, <2>0, <2>1
  <2>2. ASSUME NEW corte \in Cortes(respuesta),
               al_cliente' = [al_cliente EXCEPT ![atendido] = @ \o corte]
        PROVE  Sanas'
    <3>1. corte \in Seq(Trozo)
      BY <2>0, <2>2, TipoCortes
    <3>2. \A j \in DOMAIN corte : SanaPieza(corte[j])
      <4>1. \A j \in DOMAIN corte : corte[j].r = respuesta /\ (~Larga(respuesta) => corte[j].de = 1)
        BY <2>0, <2>2, PiezasDe
      <4>2. respuesta.tipo = "ROL" => ~Larga(respuesta)
        BY DEF Larga
      <4> QED BY <1>c, <4>1, <4>2 DEF SanaPieza
    <3>3. ASSUME NEW d \in Clientes, NEW i \in DOMAIN al_cliente'[d]
          PROVE  SanaPieza(al_cliente'[d][i])
      <4>1. \A j \in DOMAIN al_cliente[d] : SanaPieza(al_cliente[d][j])
        BY DEF Sanas
      <4>2. CASE d = atendido
        <5>1. al_cliente'[d] = al_cliente[d] \o corte /\ al_cliente[d] \in Seq(Trozo)
          BY <1>0, <2>2, <4>2 DEF RedTypeOK
        <5>2. \/ \E j \in DOMAIN al_cliente[d] : al_cliente'[d][i] = al_cliente[d][j]
              \/ \E j \in DOMAIN corte : al_cliente'[d][i] = corte[j]
          <6>1. i \in DOMAIN (al_cliente[d] \o corte)
            BY <3>3, <5>1
          <6>2. \/ \E j \in DOMAIN al_cliente[d] : (al_cliente[d] \o corte)[i] = al_cliente[d][j]
                \/ \E j \in DOMAIN corte : (al_cliente[d] \o corte)[i] = corte[j]
            BY <3>1, <5>1, <6>1, PegadoDe
          <6> QED BY <5>1, <6>2
        <5> QED BY <3>2, <4>1, <5>2
      <4>3. CASE d # atendido
        <5>1. al_cliente'[d] = al_cliente[d]
          BY <1>0, <2>2, <4>3 DEF RedTypeOK
        <5> QED BY <3>3, <4>1, <5>1
      <4> QED BY <4>2, <4>3
    <3>4. \A d \in Clientes : \A i \in DOMAIN al_cliente'[d] : SanaPieza(al_cliente[d][i])'
      BY <3>3 DEF SanaPieza, Sana
    <3> QED BY <1>a, <2>0, <3>4 DEF Sanas
  <2> QED BY <1>3, <2>1, <2>2 DEF Enviar
<1>4. CASE Caer
  <2>1. /\ respuesta' = SIN_RESPUESTA
        /\ \A d \in Clientes : al_cliente'[d] \in {<<>>, al_cliente[d]}
    BY <1>4 DEF Caer
  <2> QED BY <1>a, <2>1, SanasMenos
<1>5. ASSUME UNCHANGED <<al_cliente, respuesta>> PROVE Sanas'
  BY <1>b, <1>c, <1>5
<1>6. CASE Aceptar \/ Desconectado \/ Arrancar
  BY <1>5, <1>6 DEF Aceptar, Desconectado, Arrancar, red
<1>7. ASSUME \/ SegundoServidor \/ ConsolaEmpieza \/ ConsolaTermina
             \/ \E v \in Vuelos : ConsolaInserta(v)
      PROVE  Sanas'
  BY <1>5, <1>7 DEF SegundoServidor, ConsolaEmpieza, ConsolaTermina, ConsolaInserta, red, sesion
<1> QED BY <1>1, <1>2, <1>3, <1>4, <1>6, <1>7 DEF Next, ServidorNext, PasoServidor

----------------------------------------------------------------------------

LEMMA SesionPaso == SesionInv /\ [Next]_vars => SesionInv'
<1> SUFFICES ASSUME SesionInv, [Next]_vars PROVE SesionInv'
  OBVIOUS
<1>0. ConversacionInv /\ TypeOK /\ EnReposo /\ Sanas
  BY DEF SesionInv, ConversacionInv, EsperaInv
<1>1. ConversacionInv'
  BY <1>0, ConversacionPaso
<1>2. CASE UNCHANGED vars
  <2>1. EnReposo' /\ Sanas'
    <3>1. UNCHANGED <<servidor, idUsuarioActual, version, verServidor, respuesta, al_cliente>>
      BY <1>2 DEF vars, red, sesion, bd
    <3>2. Sana(respuesta')
      BY <1>0, <3>1 DEF Sanas
    <3> QED BY <1>0, <3>1, <3>2, SanasMenos DEF EnReposo
  <2>2. ASSUME NEW c \in Clientes PROVE EnElMenu(c)' /\ EnEspera(c)' /\ Atencion(c)'
    <3>1. EnElMenu(c) /\ EnEspera(c) /\ Atencion(c)
      BY DEF SesionInv
    <3> QED BY <1>2, <3>1, SesionIgual DEF vars, red, sesion, bd, cliente, EnLaCola, EnMarcha
  <2> QED BY <1>1, <2>1, <2>2 DEF SesionInv
<1>3. CASE Next
  <2>1. EnReposo' /\ Sanas'
    BY <1>0, <1>3, ReposoPaso, SanasPaso
  <2>2. ASSUME NEW c \in Clientes PROVE EnElMenu(c)' /\ EnEspera(c)' /\ Atencion(c)'
    <3>0. EnElMenu(c) /\ EnEspera(c) /\ Atencion(c)
      BY DEF SesionInv
    <3>1. CASE ServidorNext /\ UNCHANGED cliente
      BY <1>0, <3>0, <3>1, SesionServidor
    <3>2. ASSUME NEW d \in Clientes, ClienteNext(d, servidor # "apagado"),
                 UNCHANGED <<sesion, bd>>
          PROVE  EnElMenu(c)' /\ EnEspera(c)' /\ Atencion(c)'
      <4>1. (servidor # "apagado") \in BOOLEAN
            /\ UNCHANGED <<servidor, idUsuarioActual, respuesta, verServidor>>
        BY <3>2 DEF sesion, bd
      <4>2. CASE d = c
        <5>1. RedTypeOK /\ ControladorTypeOK /\ Conexiones
          BY <1>0 DEF ConversacionInv, EsperaInv, TypeOK
        <5> QED BY <1>0, <3>0, <3>2, <4>1, <4>2, <5>1, MenuPropio, EnEsperaPropia,
                   AtencionPropia
      <4>3. CASE d # c
        <5>1. RedTypeOK /\ ControladorTypeOK /\ (servidor # "apagado") \in BOOLEAN
          BY <1>0 DEF TypeOK
        <5>2. UNCHANGED atendido /\ Intacto(c)
          BY <3>2, <4>3, <5>1, TipoCliente, IntactoAjeno
        <5> QED BY <3>0, <3>2, <5>2, SesionAjena
      <4> QED BY <4>2, <4>3
    <3> QED BY <1>3, <3>1, <3>2 DEF Next
  <2> QED BY <1>1, <2>1, <2>2 DEF SesionInv
<1> QED BY <1>2, <1>3

LEMMA SesionInicial == Init => SesionInv
<1> SUFFICES ASSUME Init PROVE SesionInv
  OBVIOUS
<1>1. ConversacionInv
  BY ConversacionInicial
<1>2. EnReposo
  BY DEF Init, ServidorInit, EnReposo
<1>3. Sanas
  <2>1. SIN_RESPUESTA.tipo = "ERROR"
    BY DEF SIN_RESPUESTA, Error, Responder
  <2> QED BY <2>1 DEF Init, RedInit, ServidorInit, Sanas, Sana
<1>4. ASSUME NEW c \in Clientes PROVE EnElMenu(c) /\ EnEspera(c) /\ Atencion(c)
  <2>1. NO_VALIDA.tipo = "no valida" /\ NADA.op = ""
    BY DEF NO_VALIDA, Contenido, NADA, Orden, Texto
  <2>2. Nuevo(c)
    BY <2>1 DEF Init, ControladorInit, SinCache, Nuevo
  <2>3. EnElMenu(c)
    BY <2>1, <2>2 DEF Init, ControladorInit, EnElMenu, Nuevo
  <2>4. EnEspera(c)
    BY ColaVacia DEF Init, RedInit, EnEspera, EnLaCola
  <2>5. Atencion(c)
    BY NadieAssumption DEF Init, RedInit, Atencion
  <2> QED BY <2>3, <2>4, <2>5
<1> QED BY <1>1, <1>2, <1>3, <1>4 DEF SesionInv

\* The two copies of the session agree whenever the client waits for its user,
\* for any clients, logins, changes of user, deaths and restarts, as long as
\* the answers come whole.
THEOREM SesionSiempreAcorde == Spec => []AcuerdoSesion
<1>1. SesionInv => AcuerdoSesion
  <2> SUFFICES ASSUME SesionInv, NEW c \in Clientes, atendido = c, entero[c], Libre(c)
               PROVE  /\ idUsuarioActual = idUsuarioAutenticado[c]
                      /\ pc[c] # "login" => (rol[c] = "PASAJERO" <=> idUsuarioActual = ID_PASAJERO)
    BY DEF AcuerdoSesion, Acuerdo
  <2>1. al_cliente[c] = <<>> /\ ~EnMarcha(c) /\ abierto[c]
    BY NadaEnCamino DEF SesionInv, ConversacionInv, Libre
  <2>2. EnComun(c) /\ EnElMenu(c)
    BY <2>1 DEF SesionInv, Atencion
  <2> QED BY <2>1, <2>2 DEF EnComun, EnElMenu
<1> QED BY <1>1, SesionInicial, SesionPaso, PTL DEF Spec

\* No listing a served client shows as valid is older than the last load of the
\* server, for any listings, clients and loads.
THEOREM CacheSiempreAlDia == Spec => []CacheAlDia
<1>1. SesionInv => CacheAlDia
  <2> SUFFICES ASSUME SesionInv, NEW c \in Clientes, NEW t \in Listas,
                      atendido = c, entero[c], Libre(c), cache[c][t].tipo = "lista"
               PROVE  cache[c][t].tabla = t /\ cache[c][t].version >= verServidor
    BY DEF CacheAlDia
  <2>1. pendiente[c].op # "CARGAR_CSV"
    <3>1. NADA.op = ""
      BY DEF NADA, Orden, Texto
    <3> QED BY <3>1 DEF Libre
  <2>2. AlDia(c)
    BY DEF SesionInv, Atencion, EnComun, Libre
  <2> QED BY <2>1, <2>2 DEF AlDia
<1> QED BY <1>1, SesionInicial, SesionPaso, PTL DEF Spec

----------------------------------------------------------------------------
(* What a step may never do *)

\* The tickets only grow in the step that serves a purchase.
LEMMA FilasNuevas ==
  ASSUME ServidorTypeOK, Next, NEW f \in billete'.filas \ billete.filas
  PROVE  /\ servidor = "recv"
         /\ \E p \in Prefijos(al_servidor[atendido]) :
              Len(p) = 1 /\ p[1].op = "COMPRAR_BILLETE" /\ f.id_usuario = p[1].id
<1>1. billete' # billete
  OBVIOUS
<1>2. Recibir \/ Limpiar
  BY <1>1 DEF Next, ServidorNext, PasoServidor, Aceptar, Enviar, Desconectado, Arrancar,
       SegundoServidor, Caer, ConsolaEmpieza, ConsolaInserta, ConsolaTermina, bd
<1>3. ~Limpiar
  <2>1. ASSUME billete' = db_limpiar_billetes(billete) PROVE FALSE
    <3>1. db_limpiar_billetes(billete).filas = {}
      BY DEF db_limpiar_billetes, ServidorTypeOK, Tabla
    <3> QED BY <2>1, <3>1
  <2> QED BY <1>1, <2>1 DEF Limpiar
<1>4. PICK p \in Prefijos(al_servidor[atendido]) : procesarPeticion(p)
  BY <1>2, <1>3 DEF Recibir
<1>5. ComprarBillete(p)
  BY <1>1, <1>4 DEF procesarPeticion, procesarLogin, Listar, BuscarVuelo,
       BuscarVuelosOrigenDestino, CargarCSV, VerMisBilletes, Salir, NoReconocida, SinMemoria, bd
<1>6. Len(p) = 1 /\ p[1].op = "COMPRAR_BILLETE"
      /\ billete' = billete_insertar(billete, p[1].id, p[1].arg)
  BY <1>1, <1>5 DEF ComprarBillete, Es
<1>7. f.id_usuario = p[1].id
  BY <1>6 DEF billete_insertar, Insertar
<1> QED BY <1>2, <1>3, <1>6, <1>7 DEF Recibir

\* A ticket is written for the session of the connection that asked for it,
\* though the id comes in the request and nothing compares the two: the client
\* asks with the id of its own session, and what it had sent before a change of
\* user or before its end was sent with the session the server still has.
THEOREM CompraSiempreConSesion == Spec => CompraConSesion
<1>1. SesionInv /\ [Next]_vars =>
        [\A f \in billete'.filas \ billete.filas :
           entero[atendido] => f.id_usuario = idUsuarioActual]_vars
  <2> SUFFICES ASSUME SesionInv, Next, NEW f \in billete'.filas \ billete.filas,
                      entero[atendido]
               PROVE  f.id_usuario = idUsuarioActual
    OBVIOUS
  <2>0. /\ ServidorTypeOK /\ RedTypeOK
        /\ servidor \in {"recv", "enviar"} <=> atendido # NADIE
    BY DEF SesionInv, ConversacionInv, EsperaInv, TypeOK
  <2>1. PICK p \in Prefijos(al_servidor[atendido]) :
          Len(p) = 1 /\ p[1].op = "COMPRAR_BILLETE" /\ f.id_usuario = p[1].id
    BY <2>0, FilasNuevas
  <2>2. atendido \in Clientes /\ al_servidor[atendido] \in Seq(Peticion)
    BY <2>0, FilasNuevas DEF RedTypeOK
  <2>3. Len(p) \in 1..Len(al_servidor[atendido])
    BY <2>2, Recv
  <2>4. al_servidor[atendido] # <<>>
    BY <2>2, <2>3, EmptySeq
  <2>5. PICK q \in Peticion :
          al_servidor[atendido] = <<q>> /\ (q.op = "COMPRAR_BILLETE" => q.id = idUsuarioActual)
    BY <2>2, <2>4 DEF SesionInv, Atencion, DeSuUsuario
  <2>6. p[1] = q
    BY <2>2, <2>5, RecvUna
  <2> QED BY <2>1, <2>5, <2>6
<1> QED BY <1>1, SesionInicial, SesionPaso, PTL DEF Spec, CompraConSesion

\* What becomes of a valid cache in one step of its client.
QuedaOSeVacia(c, t) ==
  \/ cache'[c][t] = cache[c][t]
  \/ /\ pendiente[c].op = "CARGAR_CSV" /\ pendiente'[c] = NADA
     /\ cache'[c] = SinCache

LEMMA CachePropia ==
  ASSUME RedTypeOK, ControladorTypeOK, NEW c \in Clientes, NEW d \in Clientes,
         NEW e \in BOOLEAN, ClienteNext(d, e), EnElMenu(c), NEW t \in Listas,
         cache[c][t].tipo # "no valida", abierto'[c]
  PROVE  QuedaOSeVacia(c, t)
<1>1. CASE Terminar(d)
  <2>1. c # d /\ cache' = [cache EXCEPT ![d] = SinCache]
    BY <1>1 DEF Terminar, RedTypeOK
  <2> QED BY <2>1 DEF QuedaOSeVacia, ControladorTypeOK
<1>2. CASE RecibirRespuesta(d)
  <2>1. PICK texto : Contestar(d, texto)
    BY <1>2 DEF RecibirRespuesta
  <2>2. CASE UNCHANGED cache
    BY <2>2 DEF QuedaOSeVacia
  <2>3. CASE CargaContestada(d)
    <3>1. /\ cache' = [cache EXCEPT ![d] = SinCache]
          /\ pendiente[d].op = "CARGAR_CSV" /\ pendiente'[d] = NADA
      BY <2>1, <2>3 DEF CargaContestada, Contestar, ControladorTypeOK
    <3> QED BY <3>1 DEF QuedaOSeVacia, ControladorTypeOK
  <2>4. CASE ListaContestada(d, texto)
    <3>1. /\ cache' = [cache EXCEPT ![d][pendiente[d].arg] = Guardado(texto)]
          /\ pendiente[d].op = "LISTAR"
      BY <2>4 DEF ListaContestada
    <3>2. c # d \/ t # pendiente[d].arg
      BY <3>1 DEF EnElMenu
    <3> QED BY <3>1, <3>2 DEF QuedaOSeVacia, ControladorTypeOK
  <2> QED BY <2>1, <2>2, <2>3, <2>4 DEF Contestar, LoginContestado, InfoContestada, TextoMostrado
<1>3. CASE ~(Terminar(d) \/ RecibirRespuesta(d))
  <2>1. UNCHANGED cache
    BY <1>3, PeticionesDelCliente DEF Conectar, Cancelar, CambiarUsuario, PideDesde, Pedir
  <2> QED BY <2>1 DEF QuedaOSeVacia
<1> QED BY <1>1, <1>2, <1>3

\* What a client shows as valid changes with no other answer than that of its
\* own load, which empties all of it: logins, changes of user, answers that come
\* late or in pieces leave it alone.
THEOREM CacheCambiaSoloPorCarga == Spec => CacheSoloPorCarga
<1>1. SesionInv /\ [Next]_vars =>
        [\A c \in Clientes, t \in Listas :
           (cache[c][t].tipo # "no valida" /\ abierto'[c]) =>
             \/ cache'[c][t] = cache[c][t]
             \/ /\ pendiente[c].op = "CARGAR_CSV" /\ pendiente'[c] = NADA
                /\ cache'[c] = SinCache]_vars
  <2> SUFFICES ASSUME SesionInv, Next, NEW c \in Clientes, NEW t \in Listas,
                      cache[c][t].tipo # "no valida", abierto'[c]
               PROVE  QuedaOSeVacia(c, t)
    BY DEF QuedaOSeVacia
  <2>1. CASE ServidorNext /\ UNCHANGED cliente
    BY <2>1 DEF cliente, QuedaOSeVacia
  <2>2. ASSUME NEW d \in Clientes, ClienteNext(d, servidor # "apagado")
        PROVE  QuedaOSeVacia(c, t)
    <3>1. RedTypeOK /\ ControladorTypeOK /\ EnElMenu(c) /\ (servidor # "apagado") \in BOOLEAN
      BY DEF SesionInv, ConversacionInv, EsperaInv, TypeOK
    <3> QED BY <2>2, <3>1, CachePropia
  <2> QED BY <2>1, <2>2 DEF Next
<1> QED BY <1>1, SesionInicial, SesionPaso, PTL DEF Spec, CacheSoloPorCarga

\* Away from the server's end of its connection, a client finds nothing to read.
LEMMA AisladoPropio ==
  ASSUME RedTypeOK, ControladorTypeOK, NEW c \in Clientes, NEW e \in BOOLEAN,
         ClienteNext(c, e), Aislado(c)
  PROVE  Aislado(c)' \/ ~abierto'[c]
<1>1. CASE Conectar(c, e)
  BY <1>1 DEF Conectar, Aislado
<1>2. CASE Terminar(c)
  BY <1>2 DEF Terminar, RedTypeOK
<1>3. CASE Cancelar(c) \/ CambiarUsuario(c)
  BY <1>3 DEF Cancelar, CambiarUsuario, Aislado
<1>4. ASSUME NEW p \in Peticion, PideDesde(c, p)
      PROVE  Aislado(c)'
  BY <1>4 DEF PideDesde, Pedir, Aislado, Conectado
<1>5. CASE RecibirRespuesta(c)
  <2>1. Prefijos(al_cliente[c]) = {}
    <3>1. Len(<<>>) = 0 /\ 1..0 = {}
      OBVIOUS
    <3> QED BY <3>1 DEF Aislado, Prefijos
  <2>2. UNCHANGED al_cliente /\ Contestar(c, <<>>)
    BY <1>5, <2>1 DEF RecibirRespuesta
  <2>3. UNCHANGED <<pc, cola, atendido, abierto>>
    BY <2>2 DEF Aislado, Contestar, LoginContestado, ListaContestada, CargaContestada,
         InfoContestada, TextoMostrado
  <2> QED BY <2>2, <2>3 DEF Aislado, Conectado
<1> QED BY <1>1, <1>2, <1>3, <1>4, <1>5, PeticionesDelCliente

\* Other clients connect and end, but not for it.
LEMMA AisladoAjeno ==
  ASSUME RedTypeOK, ControladorTypeOK, NEW c \in Clientes, NEW d \in Clientes \ {c},
         NEW e \in BOOLEAN, ClienteNext(d, e), Aislado(c)
  PROVE  Aislado(c)'
<1>1. UNCHANGED atendido
  BY TipoCliente
<1>2. CASE Conectar(d, e)
  <2>1. cola \in Seq(Clientes) /\ Len(cola) < 1 /\ cola' = Append(cola, d)
    BY <1>2 DEF Conectar, BACKLOG, RedTypeOK
  <2>2. cola = <<>> /\ Append(<<>>, d) = <<d>>
    BY <2>1, SinSitio
  <2>3. \A i \in DOMAIN cola' : cola'[i] = d
    BY <2>1, <2>2, ColaDeUno
  <2>4. /\ UNCHANGED <<al_cliente, pc>> /\ abierto'[c] = abierto[c]
    BY <1>2 DEF Conectar, RedTypeOK
  <2> QED BY <1>1, <2>3, <2>4 DEF Aislado, Conectado
<1>3. CASE Terminar(d)
  BY <1>3 DEF Terminar, RedTypeOK, ControladorTypeOK, Aislado, Conectado
<1>4. CASE Cancelar(d) \/ CambiarUsuario(d)
  BY <1>4 DEF Cancelar, CambiarUsuario, red, ControladorTypeOK, Aislado, Conectado
<1>5. ASSUME NEW p \in Peticion, PideDesde(d, p)
      PROVE  Aislado(c)'
  <2>1. pc'[c] = pc[c] /\ UNCHANGED <<cola, atendido, abierto, al_cliente>>
    BY <1>5 DEF PideDesde, Pedir
  <2> QED BY <2>1 DEF Aislado, Conectado
<1>6. CASE RecibirRespuesta(d)
  <2>1. PICK texto : Contestar(d, texto)
    BY <1>6 DEF RecibirRespuesta
  <2>2. al_cliente'[c] = al_cliente[c]
    BY <1>6 DEF RecibirRespuesta, RedTypeOK
  <2>3. pc'[c] = pc[c] /\ UNCHANGED <<cola, atendido, abierto>>
    BY <2>1 DEF Contestar, LoginContestado, ListaContestada, CargaContestada,
         InfoContestada, TextoMostrado, ControladorTypeOK
  <2> QED BY <2>2, <2>3 DEF Aislado, Conectado
<1> QED BY <1>2, <1>3, <1>4, <1>5, <1>6, PeticionesDelCliente

\* The server takes clients from its backlog only.
LEMMA AisladoServidor ==
  ASSUME TypeOK, Conexiones, NEW c \in Clientes, ServidorNext, UNCHANGED cliente, Aislado(c)
  PROVE  Aislado(c)'
<1>0. RedTypeOK /\ UNCHANGED pc /\ c # NADIE /\ atendido # c
      /\ \A i \in DOMAIN cola : cola[i] # c
  BY NadieAssumption DEF TypeOK, cliente, Aislado, Conectado
<1>a. ASSUME UNCHANGED <<abierto, cola>>, atendido' \in {atendido, NADIE},
             al_cliente'[c] = al_cliente[c]
      PROVE  Aislado(c)'
  BY <1>0, <1>a DEF Aislado, Conectado
<1>1. CASE Aceptar
  <2>1. cola \in Seq(Clientes) /\ Len(cola) <= 1 /\ cola # <<>>
    BY <1>0, <1>1 DEF Aceptar, Conexiones, BACKLOG, RedTypeOK
  <2>2. DOMAIN cola = {1} /\ Head(cola) = cola[1] /\ cola' = <<>>
    BY <1>1, <2>1, SinSitio DEF Aceptar
  <2>3. atendido' # c /\ UNCHANGED <<abierto, al_cliente>>
    BY <1>0, <1>1, <2>2 DEF Aceptar
  <2>4. \A i \in DOMAIN cola' : FALSE
    BY <2>2, ColaVacia
  <2> QED BY <1>0, <2>3, <2>4 DEF Aislado, Conectado
<1>2. CASE Recibir
  BY <1>2, <1>a DEF Recibir
<1>3. CASE Enviar
  <2>1. al_cliente'[c] = al_cliente[c]
    BY <1>0, <1>3 DEF Enviar, RedTypeOK
  <2> QED BY <1>3, <1>a, <2>1 DEF Enviar, cerrarCliente
<1>4. CASE Desconectado
  BY <1>4, <1>a DEF Desconectado, cerrarCliente
<1>5. CASE Caer
  <2>1. cola' = <<>> /\ atendido' = NADIE /\ UNCHANGED abierto
    BY <1>5 DEF Caer
  <2>2. al_cliente'[c] = <<>>
    BY <1>5 DEF Caer, Aislado
  <2>3. \A i \in DOMAIN cola' : FALSE
    BY <2>1, ColaVacia
  <2> QED BY <1>0, <2>1, <2>2, <2>3 DEF Aislado, Conectado
<1>6. CASE UNCHANGED red
  BY <1>6, <1>a DEF red
<1> QED BY <1>1, <1>2, <1>3, <1>4, <1>5, <1>6 DEF ServidorNext, PasoServidor, Arrancar,
      SegundoServidor, ConsolaEmpieza, ConsolaInserta, ConsolaTermina

\* A client at its login whose server went away stays there, whatever servers
\* start and whatever it types, until its process ends.
THEOREM SinOtraSalida == Spec => SinSalida
<1>1. EsperaInv /\ [Next]_vars =>
        [\A c \in Clientes : Aislado(c) => Aislado(c)' \/ ~abierto'[c]]_vars
  <2> SUFFICES ASSUME EsperaInv, Next, NEW c \in Clientes, Aislado(c)
               PROVE  Aislado(c)' \/ ~abierto'[c]
    OBVIOUS
  <2>0. TypeOK /\ Conexiones /\ RedTypeOK /\ ControladorTypeOK
    BY DEF EsperaInv, TypeOK
  <2>1. CASE ServidorNext /\ UNCHANGED cliente
    BY <2>0, <2>1, AisladoServidor
  <2>2. ASSUME NEW d \in Clientes, ClienteNext(d, servidor # "apagado")
        PROVE  Aislado(c)' \/ ~abierto'[c]
    <3>1. (servidor # "apagado") \in BOOLEAN
      OBVIOUS
    <3>2. CASE d = c
      BY <2>0, <2>2, <3>1, <3>2, AisladoPropio
    <3>3. CASE d # c
      BY <2>0, <2>2, <3>1, <3>3, AisladoAjeno
    <3> QED BY <3>2, <3>3
  <2> QED BY <2>1, <2>2 DEF Next
<1> QED BY <1>1, EsperaInicial, EsperaPaso, PTL DEF Spec, SinSalida

----------------------------------------------------------------------------
(* How long the server can be at work for one client.                      *)

\* What the server's thread still has to do with what c has sent: a recv and
\* a send for each request, and the send of the answer it has ready.
Restan(c) == 2 * Len(al_servidor[c]) + (IF servidor = "enviar" THEN 1 ELSE 0)

\* The server serves c, which waits for an answer or is gone.
SeEspera(c) == atendido = c /\ (pendiente[c] # NADA \/ ~abierto[c])

\* RespuestaLlega and SeSuelta without their fairness.  Every step of the
\* server's thread brings the answer, or the end of the connection, nearer;
\* until c reads an answer or dies nothing puts it off, neither other clients
\* and the console nor a second server.  When nothing is left to do there is
\* an answer to read, or a client that is gone, whose recv fails.
AtencionAcotada ==
  [][ \A c \in Clientes : SeEspera(c) =>
        /\ Restan(c) \in Nat
        /\ Restan(c) = 0 =>
             \/ abierto[c] /\ al_cliente[c] # <<>>
             \/ ~abierto[c] /\ servidor = "recv" /\ al_servidor[c] = <<>>
        /\ PasoServidor => atendido' # c \/ Restan(c)' < Restan(c)
        /\ \/ atendido' # c
           \/ abierto[c] /\ pendiente'[c] = NADA
           \/ Restan(c)' <= Restan(c) ]_vars

LEMMA RestanNatural ==
  ASSUME TypeOK, NEW c \in Clientes
  PROVE  /\ Len(al_servidor[c]) \in Nat /\ Restan(c) \in Nat
         /\ Restan(c) = 0 => servidor # "enviar" /\ al_servidor[c] = <<>>
<1>1. al_servidor[c] \in Seq(Peticion)
  BY DEF TypeOK, RedTypeOK
<1>2. Len(al_servidor[c]) \in Nat /\ (Len(al_servidor[c]) = 0 => al_servidor[c] = <<>>)
  BY <1>1, LenProperties, EmptySeq
<1>3. CASE servidor = "enviar"
  <2>1. Restan(c) = 2 * Len(al_servidor[c]) + 1
    BY <1>3 DEF Restan
  <2> QED BY <1>2, <2>1
<1>4. CASE servidor # "enviar"
  <2>1. Restan(c) = 2 * Len(al_servidor[c])
    BY <1>2, <1>4 DEF Restan
  <2> QED BY <1>2, <1>4, <2>1
<1> QED BY <1>3, <1>4

\* Each step of the thread does one thing less, or closes the connection.
LEMMA RestanMenos ==
  ASSUME TypeOK, TypeOK', NEW c \in Clientes, atendido = c, PasoServidor
  PROVE  atendido' # c \/ Restan(c)' < Restan(c)
<1>0. RedTypeOK /\ servidor \in {"recv", "enviar"} /\ c # NADIE
  BY NadieAssumption DEF TypeOK
<1>1. Len(al_servidor[c]) \in Nat /\ Len(al_servidor'[c]) \in Nat
  BY RestanNatural DEF TypeOK, RedTypeOK
<1>2. CASE Aceptar
  BY <1>0, <1>2 DEF Aceptar
<1>3. CASE Recibir
  <2>1. PICK p \in Prefijos(al_servidor[c]) :
          al_servidor' = [al_servidor EXCEPT ![c] = Resto(@, p)]
    BY <1>3 DEF Recibir
  <2>2. al_servidor[c] \in Seq(Peticion) /\ al_servidor'[c] = Resto(al_servidor[c], p)
    BY <1>0, <2>1 DEF RedTypeOK
  <2>3. /\ Len(p) \in 1..Len(al_servidor[c])
        /\ Len(al_servidor'[c]) = Len(al_servidor[c]) - Len(p)
    BY <2>2, Recv
  <2>4. servidor = "recv"
    BY <1>3 DEF Recibir
  <2>5. servidor' = "enviar"
    BY <1>3 DEF Recibir
  <2>6. Restan(c) = 2 * Len(al_servidor[c]) /\ Restan(c)' = 2 * Len(al_servidor'[c]) + 1
    BY <1>1, <2>4, <2>5 DEF Restan
  <2> QED BY <1>1, <2>3, <2>6
<1>4. CASE Enviar
  <2>1. CASE cerrarCliente
    BY <1>0, <2>1 DEF cerrarCliente
  <2>2. CASE servidor' = "recv" /\ UNCHANGED al_servidor
    <3>1. Restan(c) = 2 * Len(al_servidor[c]) + 1 /\ Restan(c)' = 2 * Len(al_servidor[c])
      BY <1>1, <1>4, <2>2 DEF Restan, Enviar
    <3> QED BY <1>1, <3>1
  <2> QED BY <1>4, <2>1, <2>2 DEF Enviar
<1>5. CASE Desconectado
  BY <1>0, <1>5 DEF Desconectado, cerrarCliente
<1> QED BY <1>2, <1>3, <1>4, <1>5 DEF PasoServidor

\* The steps of others leave what c has sent as it is.
LEMMA RestanIgual ==
  ASSUME TypeOK, NEW c \in Clientes, atendido = c, ServidorNext, ~PasoServidor
  PROVE  atendido' # c \/ Restan(c)' = Restan(c)
<1>0. servidor \in {"recv", "enviar"} /\ c # NADIE
  BY NadieAssumption DEF TypeOK
<1>1. CASE Arrancar
  BY <1>0, <1>1 DEF Arrancar
<1>2. CASE Caer
  BY <1>0, <1>2 DEF Caer
<1>3. ASSUME \/ SegundoServidor \/ ConsolaEmpieza \/ ConsolaTermina
             \/ \E v \in Vuelos : ConsolaInserta(v)
      PROVE  Restan(c)' = Restan(c)
  BY <1>3 DEF SegundoServidor, ConsolaEmpieza, ConsolaTermina, ConsolaInserta,
     red, sesion, Restan
<1> QED BY <1>1, <1>2, <1>3 DEF ServidorNext

\* A client that waits asks for nothing more, and one that is gone neither.
LEMMA RestanCliente ==
  ASSUME EsperaInv, NEW c \in Clientes, SeEspera(c), NEW d \in Clientes, NEW e \in BOOLEAN,
         ClienteNext(d, e), UNCHANGED servidor
  PROVE  \/ abierto[c] /\ pendiente'[c] = NADA
         \/ Restan(c)' <= Restan(c)
<1>0. TypeOK /\ RedTypeOK /\ ControladorTypeOK /\ Conexiones
  BY DEF EsperaInv, TypeOK
<1>a. ASSUME al_servidor'[c] = al_servidor[c] PROVE Restan(c)' <= Restan(c)
  <2>1. Restan(c)' = Restan(c) /\ Restan(c) \in Nat
    BY <1>0, <1>a, RestanNatural DEF Restan
  <2> QED BY <2>1
<1>1. CASE Conectar(d, e) \/ Cancelar(d) \/ CambiarUsuario(d)
  BY <1>a, <1>1 DEF Conectar, Cancelar, CambiarUsuario, red
<1>2. CASE Terminar(d)
  <2>1. CASE al_servidor'[c] = al_servidor[c]
    BY <1>a, <2>1
  <2>2. CASE al_servidor'[c] # al_servidor[c]
    <3>1. al_servidor'[c] = <<>>
      BY <1>0, <1>2, <2>2 DEF Terminar, RedTypeOK
    <3>2. Len(al_servidor'[c]) = 0
      BY <3>1
    <3>3. CASE servidor = "enviar"
      <4>1. Restan(c)' = 1 /\ Restan(c) = 2 * Len(al_servidor[c]) + 1
        BY <3>2, <3>3 DEF Restan
      <4> QED BY <1>0, <4>1, RestanNatural
    <3>4. CASE servidor # "enviar"
      <4>1. Restan(c)' = 0
        BY <3>2, <3>4 DEF Restan
      <4> QED BY <1>0, <4>1, RestanNatural
    <3> QED BY <3>3, <3>4
  <2> QED BY <2>1, <2>2
<1>3. CASE Pide(d)
  <2>1. PICK p \in Peticion : Pedir(d, p)
    BY <1>3 DEF Pide
  <2>2. d # c
    BY <2>1 DEF Pedir, Libre, SeEspera
  <2> QED BY <1>0, <1>a, <2>1, <2>2 DEF Pedir, RedTypeOK
<1>4. CASE RecibirRespuesta(d)
  BY <1>a, <1>4 DEF RecibirRespuesta, Contestar
<1> QED BY <1>0, <1>1, <1>2, <1>3, <1>4, PasosDelCliente

\* A client that waits is served by a bounded number of steps of the server,
\* whatever it has sent and whatever the others do meanwhile.
THEOREM AtencionSiempreAcotada == Spec => AtencionAcotada
<1>1. EsperaInv /\ EsperaInv' /\ [Next]_vars =>
        [ \A c \in Clientes : SeEspera(c) =>
            /\ Restan(c) \in Nat
            /\ Restan(c) = 0 =>
                 \/ abierto[c] /\ al_cliente[c] # <<>>
                 \/ ~abierto[c] /\ servidor = "recv" /\ al_servidor[c] = <<>>
            /\ PasoServidor => atendido' # c \/ Restan(c)' < Restan(c)
            /\ \/ atendido' # c
               \/ abierto[c] /\ pendiente'[c] = NADA
               \/ Restan(c)' <= Restan(c) ]_vars
  <2> SUFFICES ASSUME EsperaInv, EsperaInv', Next, NEW c \in Clientes, SeEspera(c)
               PROVE  /\ Restan(c) \in Nat
                      /\ Restan(c) = 0 =>
                           \/ abierto[c] /\ al_cliente[c] # <<>>
                           \/ ~abierto[c] /\ servidor = "recv" /\ al_servidor[c] = <<>>
                      /\ PasoServidor => atendido' # c \/ Restan(c)' < Restan(c)
                      /\ \/ atendido' # c
                         \/ abierto[c] /\ pendiente'[c] = NADA
                         \/ Restan(c)' <= Restan(c)
    OBVIOUS
  <2>0. TypeOK /\ TypeOK' /\ Conexiones /\ atendido = c /\ c # NADIE
    BY NadieAssumption DEF EsperaInv, SeEspera
  <2>1. Restan(c) \in Nat /\ (Restan(c) = 0 => servidor = "recv" /\ al_servidor[c] = <<>>)
    <3>1. servidor \in {"recv", "enviar"}
      BY <2>0 DEF TypeOK
    <3> QED BY <2>0, <3>1, RestanNatural
  <2>2. ASSUME Restan(c) = 0, abierto[c] PROVE al_cliente[c] # <<>>
    BY <2>0, <2>1, <2>2 DEF EsperaInv, NadieEsperaEnVano, SeEspera, Conectado
  <2>3. PasoServidor => atendido' # c \/ Restan(c)' < Restan(c)
    BY <2>0, RestanMenos
  <2>4. CASE ServidorNext
    <3>1. Restan(c)' \in Nat
      <4>1. Len(al_servidor'[c]) \in Nat
        BY <2>0, LenProperties DEF TypeOK, RedTypeOK
      <4>2. CASE servidor' = "enviar"
        <5>1. Restan(c)' = 2 * Len(al_servidor'[c]) + 1
          BY <4>2 DEF Restan
        <5> QED BY <4>1, <5>1
      <4>3. CASE servidor' # "enviar"
        <5>1. Restan(c)' = 2 * Len(al_servidor'[c])
          BY <4>1, <4>3 DEF Restan
        <5> QED BY <4>1, <5>1
      <4> QED BY <4>2, <4>3
    <3> QED BY <2>0, <2>1, <2>2, <2>3, <2>4, <3>1, RestanIgual
  <2>5. ASSUME NEW d \in Clientes, ClienteNext(d, servidor # "apagado"), UNCHANGED sesion
        PROVE  (abierto[c] /\ pendiente'[c] = NADA) \/ Restan(c)' <= Restan(c)
    <3>1. (servidor # "apagado") \in BOOLEAN /\ UNCHANGED servidor
      BY <2>5 DEF sesion
    <3> QED BY <2>5, <3>1, RestanCliente
  <2> QED BY <2>1, <2>2, <2>3, <2>4, <2>5 DEF Next
<1> QED BY <1>1, EsperaInicial, EsperaPaso, PTL DEF Spec, AtencionAcotada

----------------------------------------------------------------------------
(* Clients of both kinds.  Every step of the first client is one its       *)
(* successor could take, but for the answer to a login and for std::cin.   *)

\* The answer r, not read yet, opens a menu only if the server has no session.
SinSesion(r) == (r.tipo = "ROL" /\ r.a.arg # "PASAJERO") => idUsuarioActual = -1

\* A client of the first kind never learns an id, knows two menus and, while no
\* answer came in pieces, is at one of them only when the server has no session.
Antiguo(c) ==
  /\ idUsuarioAutenticado[c] = -1
  /\ pc[c] \in {"login", "menu"}
  /\ pc[c] = "menu" => rol[c] \in {"ADMIN", "EMPLEADO"}
  /\ (atendido = c /\ abierto[c] /\ entero[c]) =>
       /\ pc[c] = "menu" => idUsuarioActual = -1
       /\ EnMarcha(c) => SinSesion(respuesta)
       /\ \A i \in DOMAIN al_cliente[c] : SinSesion(al_cliente[c][i].r)

\* Only a client that has asked to leave has its leaving on its way.
Despedida(c) ==
  (abierto[c] /\ pendiente[c].op # "SALIR") =>
    /\ \A i \in DOMAIN al_servidor[c] : al_servidor[c][i].op # "SALIR"
    /\ EnMarcha(c) => ~salirCliente

\* With std::cin failed it goes round its menu and asks for nothing.
SinPreguntas(c) == trabado[c] => abierto[c] /\ pc[c] = "menu" /\ pendiente[c] = NADA

MixtoInv ==
  /\ ConversacionInv /\ EnReposo /\ Sanas
  /\ trabado \in [Clientes -> BOOLEAN]
  /\ \A c \in Clientes : EnElMenu(c) /\ EnEspera(c) /\ Despedida(c)
  /\ \A c \in Clientes \ Antiguos : Atencion(c)
  /\ \A c \in Antiguos : Antiguo(c) /\ SinPreguntas(c)

----------------------------------------------------------------------------
(* The answer to a login of the first client *)

LEMMA TextoDelLogin ==
  ASSUME RedTypeOK, ControladorTypeOK, NEW c \in Clientes, LoginRecibido(c)
  PROVE  \E texto \in Seq(Trozo) :
           /\ Recibido(c, texto) /\ LoginAntiguo(c, texto)
           /\ UNCHANGED <<cargas, pedidas, confirmados>>
           /\ \A d \in Clientes \ {c} : entero'[d] = entero[d]
           /\ entero' \in [Clientes -> BOOLEAN]
<1>0. <<>> \in Seq(Trozo)
  OBVIOUS
<1>1. al_cliente[c] \in Seq(Trozo) /\ entero \in [Clientes -> BOOLEAN]
  BY DEF RedTypeOK, ControladorTypeOK
<1>2. /\ pendiente' = [pendiente EXCEPT ![c] = NADA]
      /\ UNCHANGED <<cola, atendido, abierto, al_servidor, cargas, pedidas, confirmados>>
  BY DEF LoginRecibido
<1>3. ASSUME NEW texto \in Prefijos(al_cliente[c]),
             al_cliente' = [al_cliente EXCEPT ![c] = Resto(@, texto)],
             LoginAntiguo(c, texto),
             entero' = [entero EXCEPT ![c] = @ /\ EsEntera(texto)]
      PROVE  /\ texto \in Seq(Trozo) /\ Recibido(c, texto)
             /\ \A d \in Clientes \ {c} : entero'[d] = entero[d]
             /\ entero' \in [Clientes -> BOOLEAN]
  <2>1. texto \in Seq(Trozo) /\ texto # <<>>
    <3>1. texto \in Seq(Trozo) /\ Len(texto) \in 1..Len(al_cliente[c])
      BY <1>1, Recv
    <3> QED BY <3>1, <1>1, EmptySeq
  <2>2. entero'[c] = (entero[c] /\ EsEntera(texto))
    BY <1>1, <1>3
  <2>3. entero'[c] = (entero[c] /\ (texto # <<>> => EsEntera(texto)))
    BY <2>1, <2>2
  <2>4. EsEntera(texto) \in BOOLEAN
    BY DEF EsEntera
  <2>5. entero' \in [Clientes -> BOOLEAN] /\ \A d \in Clientes \ {c} : entero'[d] = entero[d]
    BY <1>1, <1>3, <2>4
  <2> QED BY <1>2, <1>3, <2>1, <2>3, <2>5 DEF Recibido
<1>4. ASSUME SinServidor(c), LoginAntiguo(c, <<>>), UNCHANGED <<al_cliente, entero>>
      PROVE  Recibido(c, <<>>)
  BY <1>1, <1>2, <1>4 DEF Recibido
<1> QED BY <1>0, <1>1, <1>2, <1>3, <1>4 DEF LoginRecibido

\* What it finds in the answer: a menu, or nothing.
LEMMA LoginAntiguoDe ==
  ASSUME ControladorTypeOK, NEW c \in Clientes, NEW texto \in Seq(Trozo),
         LoginAntiguo(c, texto)
  PROVE  /\ pc[c] = "login" /\ UNCHANGED <<codigo, cache, idUsuarioAutenticado>>
         /\ \/ UNCHANGED <<pc, rol>>
            \/ /\ texto # <<>> /\ texto[1].r.tipo = "ROL" /\ texto[1].r.a.arg # "PASAJERO"
               /\ texto[1].r.a.arg \in Roles
               /\ pc' = [pc EXCEPT ![c] = "menu"]
               /\ rol' = [rol EXCEPT ![c] = texto[1].r.a.arg]
<1>1. texto # <<>> /\ texto[1].r.tipo = "ROL" => texto[1].r.a.arg \in Roles
  BY Primero, TipoPieza
<1> QED BY <1>1 DEF LoginAntiguo

LEMMA TipoLoginRecibido ==
  ASSUME TypeOK, NEW c \in Clientes, LoginRecibido(c), UNCHANGED <<sesion, bd>>
  PROVE  TypeOK'
<1>0. RedTypeOK /\ ControladorTypeOK /\ ServidorTypeOK
  BY DEF TypeOK
<1>1. PICK texto \in Seq(Trozo) :
        /\ Recibido(c, texto) /\ LoginAntiguo(c, texto)
        /\ UNCHANGED <<cargas, pedidas, confirmados>>
        /\ entero' \in [Clientes -> BOOLEAN]
  BY <1>0, TextoDelLogin
<1>2. /\ pc' \in [Clientes -> {"login", "menu", "comprar", "confirmar"}]
      /\ rol' \in [Clientes -> Roles \cup {""}]
      /\ UNCHANGED <<codigo, cache, idUsuarioAutenticado>>
  BY <1>0, <1>1, LoginAntiguoDe DEF ControladorTypeOK
<1>3. pendiente' \in [Clientes -> Peticion]
  BY <1>0, <1>1, TipoNada DEF Recibido, ControladorTypeOK
<1>4. ControladorTypeOK'
  BY <1>0, <1>1, <1>2, <1>3 DEF ControladorTypeOK
<1>5. RedTypeOK'
  <2>1. al_cliente' \in [Clientes -> Seq(Trozo)]
    BY <1>0, <1>1, TipoQuitar DEF Recibido
  <2> QED BY <1>0, <1>1, <2>1 DEF Recibido, RedTypeOK
<1>6. ServidorTypeOK' /\ UNCHANGED <<servidor, atendido>>
  BY <1>0, <1>1 DEF Recibido, ServidorTypeOK, sesion, bd
<1> QED BY <1>4, <1>5, <1>6 DEF TypeOK

LEMMA IntactoLogin ==
  ASSUME RedTypeOK, ControladorTypeOK, NEW c \in Clientes, NEW d \in Clientes \ {c},
         LoginRecibido(c)
  PROVE  Intacto(d) /\ UNCHANGED <<cola, atendido>>
<1>1. PICK texto \in Seq(Trozo) :
        /\ Recibido(c, texto) /\ LoginAntiguo(c, texto)
        /\ \A x \in Clientes \ {c} : entero'[x] = entero[x]
  BY TextoDelLogin
<1>2. /\ al_cliente'[d] = al_cliente[d] /\ pendiente'[d] = pendiente[d]
      /\ entero'[d] = entero[d] /\ UNCHANGED <<cola, atendido, abierto, al_servidor>>
  BY <1>1 DEF Recibido, RedTypeOK, ControladorTypeOK
<1>3. /\ UNCHANGED <<cache, idUsuarioAutenticado>>
      /\ \/ UNCHANGED <<pc, rol>>
         \/ /\ pc' = [pc EXCEPT ![c] = "menu"]
            /\ rol' = [rol EXCEPT ![c] = texto[1].r.a.arg]
  BY <1>1, LoginAntiguoDe
<1>4. pc'[d] = pc[d] /\ rol'[d] = rol[d]
  BY <1>3 DEF ControladorTypeOK
<1> QED BY <1>2, <1>3, <1>4 DEF Intacto, EnLaCola

LEMMA ConversacionLogin ==
  ASSUME ConversacionInv, NEW c \in Clientes, LoginRecibido(c), UNCHANGED <<sesion, bd>>
  PROVE  ConversacionInv'
<1>0. TypeOK /\ RedTypeOK /\ ControladorTypeOK /\ EsperaInv /\ UNCHANGED <<servidor, respuesta>>
  BY DEF ConversacionInv, EsperaInv, TypeOK, sesion
<1>1. TypeOK'
  BY <1>0, TipoLoginRecibido
<1>2. PICK texto \in Seq(Trozo) : Recibido(c, texto)
  BY <1>0, TextoDelLogin
<1>3. \A d \in Clientes \ {c} : Intacto(d)
  BY <1>0, IntactoLogin
<1>4. EsperaInv'
  <2>1. /\ pendiente' = [pendiente EXCEPT ![c] = NADA]
        /\ UNCHANGED <<cola, atendido>>
    BY <1>2 DEF Recibido
  <2> QED BY <1>0, <1>1, <1>3, <2>1, EsperaNada DEF EsperaInv, Intacto
<1>5. ASSUME NEW d \in Clientes PROVE Conversacion(d)'
  <2>1. CASE d = c
    BY <1>0, <1>2, <2>1, ConversacionRecibida
  <2>2. CASE d # c
    <3>1. Conversacion(d) /\ Intacto(d) /\ UNCHANGED <<cola, atendido>>
      BY <1>0, <2>2, IntactoLogin DEF ConversacionInv
    <3> QED BY <1>0, <3>1, ConversacionIgual DEF Intacto, Conectado, EnMarcha
  <2> QED BY <2>1, <2>2
<1> QED BY <1>4, <1>5 DEF ConversacionInv

----------------------------------------------------------------------------
(* What each step does to what is known of one client *)

\* Every step of a client of the first kind but the answer to its login is one
\* of its successor, or one that only std::cin sees.
LEMMA PasosDelAntiguo ==
  ASSUME NEW c \in Clientes, NEW e \in BOOLEAN, AntiguoNext(c, e)
  PROVE  \/ ClienteNext(c, e) \/ LoginRecibido(c)
         \/ UNCHANGED <<red, cargas, pedidas, cliente>>
<1>1. ejecutarMenuAdmin(c) \/ ejecutarMenuEmpleado(c) => ClienteNext(c, e)
  BY DEF ejecutarMenuAdmin, ejecutarMenuEmpleado, ClienteNext
<1>2. MenuRecibido(c) \/ TerminarAntiguo(c) => ClienteNext(c, e)
  BY DEF MenuRecibido, TerminarAntiguo, ClienteNext, PasoCliente
<1> QED BY <1>1, <1>2 DEF AntiguoNext, PasoAntiguo, OpcionNoNumerica, ClienteNext

\* What a step does not touch, or only takes away, stays as it was.
LEMMA AntiguoIgual ==
  ASSUME NEW c \in Clientes, Antiguo(c), idUsuarioAutenticado'[c] = idUsuarioAutenticado[c],
         pc'[c] = "login" \/ (pc'[c] = pc[c] /\ rol'[c] = rol[c]),
         (atendido' = c /\ abierto'[c] /\ entero'[c]) =>
           /\ atendido = c /\ abierto[c] /\ entero[c]
           /\ UNCHANGED idUsuarioActual
           /\ EnMarcha(c)' => EnMarcha(c) /\ UNCHANGED respuesta
           /\ \A i \in DOMAIN al_cliente'[c] :
                \E j \in DOMAIN al_cliente[c] : al_cliente'[c][i] = al_cliente[c][j]
  PROVE  Antiguo(c)'
<1>1. /\ idUsuarioAutenticado'[c] = -1 /\ pc'[c] \in {"login", "menu"}
      /\ pc'[c] = "menu" => pc[c] = "menu" /\ rol'[c] \in {"ADMIN", "EMPLEADO"}
  BY DEF Antiguo
<1>2. ASSUME atendido' = c, abierto'[c], entero'[c]
      PROVE  /\ pc'[c] = "menu" => idUsuarioActual' = -1
             /\ EnMarcha(c)' => SinSesion(respuesta)'
             /\ \A i \in DOMAIN al_cliente'[c] : SinSesion(al_cliente[c][i].r)'
  <2>1. /\ pc[c] = "menu" => idUsuarioActual = -1
        /\ EnMarcha(c) => SinSesion(respuesta)
        /\ \A i \in DOMAIN al_cliente[c] : SinSesion(al_cliente[c][i].r)
        /\ UNCHANGED idUsuarioActual
        /\ EnMarcha(c)' => EnMarcha(c) /\ UNCHANGED respuesta
    BY <1>2 DEF Antiguo
  <2>2. EnMarcha(c)' => SinSesion(respuesta)'
    BY <2>1 DEF SinSesion
  <2>3. ASSUME NEW i \in DOMAIN al_cliente'[c] PROVE SinSesion(al_cliente[c][i].r)'
    <3>1. PICK j \in DOMAIN al_cliente[c] : al_cliente'[c][i] = al_cliente[c][j]
      BY <1>2, <2>3
    <3> QED BY <2>1, <3>1 DEF SinSesion
  <2> QED BY <1>1, <2>1, <2>2, <2>3
<1> QED BY <1>1, <1>2 DEF Antiguo

\* What a recv leaves in a socket was in it.
LEMMA QuedaDe ==
  ASSUME RedTypeOK, NEW c \in Clientes, NEW texto, Recibido(c, texto),
         NEW i \in DOMAIN al_cliente'[c]
  PROVE  \E j \in DOMAIN al_cliente[c] : al_cliente'[c][i] = al_cliente[c][j]
<1>1. CASE UNCHANGED al_cliente
  BY <1>1
<1>2. CASE /\ texto \in Prefijos(al_cliente[c])
           /\ al_cliente' = [al_cliente EXCEPT ![c] = Resto(@, texto)]
  <2>1. al_cliente'[c] = Resto(al_cliente[c], texto) /\ al_cliente[c] \in Seq(Trozo)
    BY <1>2 DEF RedTypeOK
  <2> QED BY <1>2, <2>1, RestoDe
<1> QED BY <1>1, <1>2 DEF Recibido

\* With an answer read whole while it is served, the first client is at a menu
\* only if the server has no session.
LEMMA AntiguoLogin ==
  ASSUME RedTypeOK, ControladorTypeOK, NEW c \in Clientes, LoginRecibido(c),
         UNCHANGED sesion, Antiguo(c)
  PROVE  Antiguo(c)'
<1>1. PICK texto \in Seq(Trozo) : Recibido(c, texto) /\ LoginAntiguo(c, texto)
  BY TextoDelLogin
<1>2. /\ UNCHANGED <<atendido, abierto, idUsuarioActual, respuesta, servidor>>
      /\ entero'[c] => entero[c]
      /\ \A i \in DOMAIN al_cliente'[c] :
           \E j \in DOMAIN al_cliente[c] : al_cliente'[c][i] = al_cliente[c][j]
  BY <1>1, QuedaDe DEF Recibido, sesion
<1>3. UNCHANGED idUsuarioAutenticado
  BY <1>1, LoginAntiguoDe
<1>4. EnMarcha(c)' => EnMarcha(c)
  BY <1>2 DEF EnMarcha
<1>5. CASE UNCHANGED <<pc, rol>>
  BY <1>2, <1>3, <1>4, <1>5, AntiguoIgual
<1>6. CASE /\ texto # <<>> /\ texto[1].r.tipo = "ROL" /\ texto[1].r.a.arg # "PASAJERO"
           /\ texto[1].r.a.arg \in Roles
           /\ pc' = [pc EXCEPT ![c] = "menu"]
           /\ rol' = [rol EXCEPT ![c] = texto[1].r.a.arg]
  <2>1. pc'[c] = "menu" /\ rol'[c] \in {"ADMIN", "EMPLEADO"} /\ idUsuarioAutenticado'[c] = -1
    BY <1>3, <1>6 DEF ControladorTypeOK, Antiguo, Roles
  <2>2. ASSUME atendido' = c, abierto'[c], entero'[c]
        PROVE  /\ idUsuarioActual' = -1
               /\ EnMarcha(c)' => SinSesion(respuesta)'
               /\ \A i \in DOMAIN al_cliente'[c] : SinSesion(al_cliente[c][i].r)'
    <3>1. \A i \in DOMAIN al_cliente[c] : SinSesion(al_cliente[c][i].r)
      BY <1>2, <2>2 DEF Antiguo
    <3>2. texto[1] = al_cliente[c][1] /\ 1 \in DOMAIN al_cliente[c]
      <4>1. texto \in Prefijos(al_cliente[c]) /\ al_cliente[c] \in Seq(Trozo)
        BY <1>1, <1>6 DEF Recibido, RedTypeOK
      <4>2. /\ Len(texto) \in 1..Len(al_cliente[c])
            /\ \A i \in 1..Len(texto) : texto[i] = al_cliente[c][i]
        BY <4>1, Recv
      <4> QED BY <4>1, <4>2
    <3>3. idUsuarioActual = -1
      BY <1>6, <3>1, <3>2 DEF SinSesion
    <3> QED BY <1>2, <3>3 DEF SinSesion
  <2> QED BY <2>1, <2>2 DEF Antiguo
<1> QED BY <1>1, <1>5, <1>6, LoginAntiguoDe

\* Requests, changes of user and answers in a menu.
LEMMA AntiguoPropio ==
  ASSUME RedTypeOK, ControladorTypeOK, NEW c \in Clientes, NEW e \in BOOLEAN,
         AntiguoNext(c, e), UNCHANGED sesion, Antiguo(c)
  PROVE  Antiguo(c)'
<1>1. UNCHANGED <<idUsuarioActual, respuesta, servidor>>
  BY DEF sesion
<1>2. CASE Conectar(c, e)
  BY <1>2, AntiguoIgual DEF Conectar, Conectado
<1>3. ASSUME NEW p, Pedir(c, p), UNCHANGED pc
      PROVE  Antiguo(c)'
  BY <1>1, <1>3, AntiguoIgual DEF Pedir, EnMarcha
<1>4. CASE CambiarUsuario(c)
  <2>1. /\ pc'[c] = "login"
        /\ UNCHANGED <<atendido, abierto, entero, al_cliente, idUsuarioAutenticado>>
    BY <1>4 DEF CambiarUsuario, red, ControladorTypeOK
  <2> QED BY <1>1, <2>1, AntiguoIgual DEF EnMarcha
<1>5. CASE \E credencial \in Credenciales : hacerLogin(c, credencial)
  BY <1>3, <1>5 DEF hacerLogin
<1>6. CASE ejecutarMenuAdmin(c) \/ ejecutarMenuEmpleado(c)
  BY <1>3, <1>4, <1>6 DEF ejecutarMenuAdmin, ejecutarMenuEmpleado, CargarCSVEnBD, VerLista,
     buscarVueloPorCodigo, SalirDelMenu
<1>7. CASE LoginRecibido(c)
  BY <1>7, AntiguoLogin
<1>8. CASE MenuRecibido(c)
  <2>1. PICK texto : Recibido(c, texto)
    BY <1>8, RespuestaRecibida DEF MenuRecibido
  <2>2. /\ UNCHANGED <<atendido, abierto>>
        /\ entero'[c] => entero[c]
        /\ \A i \in DOMAIN al_cliente'[c] :
             \E j \in DOMAIN al_cliente[c] : al_cliente'[c][i] = al_cliente[c][j]
    BY <2>1, QuedaDe DEF Recibido
  <2>3. UNCHANGED <<pc, rol, idUsuarioAutenticado>>
    BY <1>8 DEF MenuRecibido, RecibirRespuesta, Contestar, LoginContestado, ListaContestada,
       CargaContestada, InfoContestada, TextoMostrado
  <2> QED BY <1>1, <2>2, <2>3, AntiguoIgual DEF EnMarcha
<1>9. CASE OpcionNoNumerica(c)
  BY <1>1, <1>9, AntiguoIgual DEF OpcionNoNumerica, red, cliente, EnMarcha
<1>10. CASE Terminar(c)
  <2>1. pc'[c] = "login" /\ idUsuarioAutenticado'[c] = -1 /\ ~abierto'[c]
    BY <1>10 DEF Terminar, ControladorTypeOK, RedTypeOK
  <2> QED BY <2>1, AntiguoIgual DEF Antiguo
<1>11. TerminarAntiguo(c) => Terminar(c)
  BY DEF TerminarAntiguo, Morir, SalirContestado
<1> QED BY <1>2, <1>5, <1>6, <1>7, <1>8, <1>9, <1>10, <1>11 DEF AntiguoNext, PasoAntiguo

\* A step of another client.
LEMMA AntiguoAjeno ==
  ASSUME NEW c \in Clientes, Intacto(c), UNCHANGED <<atendido, sesion>>, Antiguo(c)
  PROVE  Antiguo(c)'
BY AntiguoIgual DEF Intacto, sesion, EnMarcha

\* A login answered with a menu of the first client leaves no session, and
\* only a login starts one.
LEMMA SinSesionTras ==
  ASSUME NEW p \in Seq(Peticion), Len(p) >= 1, procesarPeticion(p)
  PROVE  /\ SinSesion(respuesta)'
         /\ idUsuarioActual = -1 /\ p[1].op # "LOGIN" => idUsuarioActual' = -1
<1>1. \A t, v, b : /\ Responder(t, p, v, b).tipo = t /\ Responder(t, p, v, b).a = p[1]
  BY DEF Responder
<1>2. Error(p).tipo = "ERROR"
  BY <1>1 DEF Error
<1>3. CASE procesarLogin(p)
  BY <1>1, <1>2, <1>3 DEF procesarLogin, Es, SinSesion
<1>4. CASE ~procesarLogin(p)
  <2>1. respuesta'.tipo # "ROL" /\ idUsuarioActual' \in {-1, idUsuarioActual}
    BY <1>1, <1>2, <1>4 DEF procesarPeticion, Listar, BuscarVuelo, BuscarVuelosOrigenDestino,
         CargarCSV, ComprarBillete, VerMisBilletes, Salir, NoReconocida, SinMemoria
  <2> QED BY <2>1 DEF SinSesion
<1> QED BY <1>3, <1>4

LEMMA AntiguoRecibir ==
  ASSUME ConversacionInv, Recibir, UNCHANGED cliente, NEW c \in Clientes, c = atendido,
         EnElMenu(c), Antiguo(c)
  PROVE  Antiguo(c)'
<1>0. RedTypeOK /\ Conversacion(c) /\ UNCHANGED <<pc, rol, idUsuarioAutenticado, entero>>
  BY DEF ConversacionInv, EsperaInv, TypeOK, cliente
<1>1. UNCHANGED <<atendido, abierto, al_cliente>> /\ servidor = "recv"
  BY DEF Recibir
<1>2. PICK p \in Prefijos(al_servidor[c]) : procesarPeticion(p)
  BY DEF Recibir
<1>3. al_servidor[c] \in Seq(Peticion)
  BY <1>0 DEF RedTypeOK
<1>4. p \in Seq(Peticion) /\ Len(p) \in 1..Len(al_servidor[c])
  BY <1>2, <1>3, Recv
<1>5. SinSesion(respuesta)'
      /\ (idUsuarioActual = -1 /\ p[1].op # "LOGIN" => idUsuarioActual' = -1)
  BY <1>2, <1>4, SinSesionTras
<1>6. ASSUME abierto[c], entero[c]
      PROVE  /\ pc[c] = "menu" => idUsuarioActual' = -1
             /\ al_cliente[c] = <<>>
  <2>1. al_servidor[c] # <<>>
    BY <1>3, <1>4, EmptySeq
  <2>2. al_servidor[c] = <<pendiente[c]>> /\ al_cliente[c] = <<>>
    BY <1>0, <1>6, <2>1 DEF Conversacion, UnSitio
  <2>3. Len(<<pendiente[c]>>) = 1 /\ <<pendiente[c]>>[1] = pendiente[c]
    OBVIOUS
  <2>4. p[1] = pendiente[c]
    <3>1. \A i \in 1..Len(p) : p[i] = al_servidor[c][i]
      BY <1>2, <1>3, Recv
    <3>2. 1 \in 1..Len(p)
      BY <1>4
    <3>3. p[1] = al_servidor[c][1]
      BY <3>1, <3>2
    <3> QED BY <2>2, <2>3, <3>3
  <2>5. pc[c] = "menu" => pendiente[c].op # "LOGIN" /\ idUsuarioActual = -1
    BY <1>1, <1>6 DEF EnElMenu, Antiguo
  <2> QED BY <1>5, <2>2, <2>4, <2>5
<1>7. \A i \in DOMAIN <<>> : FALSE
  OBVIOUS
<1> QED BY <1>0, <1>1, <1>5, <1>6, <1>7 DEF Antiguo

LEMMA AntiguoEnviar ==
  ASSUME ConversacionInv, Enviar, UNCHANGED cliente, NEW c \in Clientes, c = atendido,
         Antiguo(c)
  PROVE  Antiguo(c)'
<1>0. /\ RedTypeOK /\ ServidorTypeOK
      /\ UNCHANGED <<pc, rol, idUsuarioAutenticado, entero, abierto>>
  BY DEF ConversacionInv, EsperaInv, TypeOK, cliente, Enviar
<1>1. EnMarcha(c)
  BY DEF EnMarcha, Enviar
<1>2. CASE cerrarCliente
  <2>1. atendido' # c
    BY <1>2, NadieAssumption DEF cerrarCliente
  <2> QED BY <1>0, <2>1 DEF Antiguo
<1>3. CASE servidor' = "recv" /\ UNCHANGED <<atendido, idUsuarioActual>>
  <2>1. ~EnMarcha(c)'
    BY <1>3 DEF EnMarcha
  <2>2. ASSUME abierto[c], entero[c], NEW i \in DOMAIN al_cliente'[c]
        PROVE  SinSesion(al_cliente[c][i].r)'
    <3>1. SinSesion(respuesta) /\ \A j \in DOMAIN al_cliente[c] : SinSesion(al_cliente[c][j].r)
      BY <1>1, <2>2 DEF Antiguo, EnMarcha
    <3>2. PICK corte \in Cortes(respuesta) :
            al_cliente' = [al_cliente EXCEPT ![c] = @ \o corte]
      BY <2>2 DEF Enviar
    <3>3. al_cliente'[c] = al_cliente[c] \o corte /\ al_cliente[c] \in Seq(Trozo)
      BY <1>0, <3>2 DEF RedTypeOK
    <3>4. corte \in Seq(Trozo) /\ \A j \in DOMAIN corte : corte[j].r = respuesta
      BY <1>0, <3>2, TipoCortes, PiezasDe DEF ServidorTypeOK
    <3>5. i \in DOMAIN (al_cliente[c] \o corte)
      BY <2>2, <3>3
    <3>6. \/ \E j \in DOMAIN al_cliente[c] : (al_cliente[c] \o corte)[i] = al_cliente[c][j]
          \/ \E j \in DOMAIN corte : (al_cliente[c] \o corte)[i] = corte[j]
      BY <3>3, <3>4, <3>5, PegadoDe
    <3>7. \/ al_cliente'[c][i].r = respuesta
          \/ \E j \in DOMAIN al_cliente[c] : al_cliente'[c][i].r = al_cliente[c][j].r
      BY <3>3, <3>4, <3>6
    <3> QED BY <1>3, <3>1, <3>7 DEF SinSesion
  <2> QED BY <1>0, <1>3, <2>1, <2>2 DEF Antiguo
<1> QED BY <1>2, <1>3 DEF Enviar

\* A step of the server or the console.
LEMMA AntiguoServidor ==
  ASSUME ConversacionInv, EnReposo, ServidorNext, UNCHANGED cliente, NEW c \in Clientes,
         EnElMenu(c), EnEspera(c), Antiguo(c)
  PROVE  Antiguo(c)'
<1>0. /\ RedTypeOK /\ Conexiones
      /\ servidor \in {"recv", "enviar"} <=> atendido # NADIE
      /\ c # NADIE
      /\ UNCHANGED <<pc, rol, idUsuarioAutenticado, entero>>
  BY NadieAssumption DEF ConversacionInv, EsperaInv, TypeOK, cliente
<1>a. ASSUME atendido' # c PROVE Antiguo(c)'
  BY <1>0, <1>a DEF Antiguo
<1>b. ASSUME UNCHANGED <<red, sesion>> PROVE Antiguo(c)'
  BY <1>0, <1>b, AntiguoIgual DEF red, sesion, EnMarcha
<1>1. CASE Aceptar
  <2>1. UNCHANGED <<abierto, al_cliente, idUsuarioActual>> /\ atendido = NADIE
        /\ atendido' = Head(cola) /\ servidor' = "recv"
    BY <1>0, <1>1 DEF Aceptar
  <2>2. CASE c = Head(cola)
    <3>1. cola \in Seq(Clientes) /\ Len(cola) <= 1 /\ cola # <<>>
      BY <1>0, <1>1 DEF Aceptar, Conexiones, BACKLOG, RedTypeOK
    <3>2. EnLaCola(c)
      BY <2>2, <3>1, SinSitio DEF EnLaCola
    <3>3. al_cliente'[c] = <<>> /\ pc'[c] = "login" /\ ~EnMarcha(c)'
      BY <1>0, <2>1, <3>2 DEF EnEspera, Nuevo, EnMarcha
    <3>4. \A i \in DOMAIN al_cliente'[c] : FALSE
      BY <3>3
    <3> QED BY <1>0, <3>3, <3>4 DEF Antiguo
  <2>3. CASE c # Head(cola)
    BY <1>a, <2>1, <2>3
  <2> QED BY <2>2, <2>3
<1>2. CASE Recibir
  <2>1. UNCHANGED atendido
    BY <1>2 DEF Recibir
  <2> QED BY <1>2, <1>a, <2>1, AntiguoRecibir
<1>3. CASE Enviar
  <2>1. atendido' \in {atendido, NADIE}
    BY <1>3 DEF Enviar, cerrarCliente
  <2> QED BY <1>0, <1>3, <1>a, <2>1, AntiguoEnviar
<1>4. CASE Desconectado \/ Caer
  BY <1>0, <1>4, <1>a DEF Desconectado, cerrarCliente, Caer
<1>5. CASE Arrancar
  BY <1>0, <1>5, <1>a DEF Arrancar, red
<1>6. ASSUME \/ SegundoServidor \/ ConsolaEmpieza \/ ConsolaTermina
             \/ \E v \in Vuelos : ConsolaInserta(v)
      PROVE  Antiguo(c)'
  BY <1>6, <1>b DEF SegundoServidor, ConsolaEmpieza, ConsolaTermina, ConsolaInserta
<1> QED BY <1>1, <1>2, <1>3, <1>4, <1>5, <1>6 DEF ServidorNext, PasoServidor

----------------------------------------------------------------------------
(* A client that has not asked to leave is not taken for one that has *)

\* What a step does not touch, or only takes away, stays as it was.
LEMMA DespedidaIgual ==
  ASSUME NEW c \in Clientes, Despedida(c),
         (abierto'[c] /\ pendiente'[c].op # "SALIR") =>
           /\ abierto[c] /\ pendiente[c].op # "SALIR"
           /\ \A i \in DOMAIN al_servidor'[c] :
                \E j \in DOMAIN al_servidor[c] : al_servidor'[c][i] = al_servidor[c][j]
           /\ EnMarcha(c)' => EnMarcha(c) /\ UNCHANGED salirCliente
  PROVE  Despedida(c)'
BY DEF Despedida

\* Its request, if it asks, is not SALIR; SALIR is answered with its end.
LEMMA DespedidaPropia ==
  ASSUME ConversacionInv, NEW c \in Clientes, NEW e \in BOOLEAN, ClienteNext(c, e),
         UNCHANGED sesion, EnElMenu(c), Despedida(c)
  PROVE  Despedida(c)'
<1>0. RedTypeOK /\ ControladorTypeOK /\ Conversacion(c) /\ UNCHANGED <<servidor, salirCliente>>
  BY DEF ConversacionInv, EsperaInv, TypeOK, sesion
<1>1. UNCHANGED atendido /\ (EnMarcha(c)' <=> EnMarcha(c))
  BY <1>0, TipoCliente DEF EnMarcha
<1>a. NADA.op = ""
  BY DEF NADA, Orden, Texto
<1>2. CASE Conectar(c, e)
  <2>1. al_servidor'[c] = <<>> /\ ~EnMarcha(c)'
    BY <1>0, <1>1, <1>2 DEF Conectar, Conversacion, EnMarcha, Conectado
  <2>2. \A i \in DOMAIN al_servidor'[c] : FALSE
    BY <2>1
  <2> QED BY <2>1, <2>2 DEF Despedida
<1>3. CASE Terminar(c)
  <2>1. ~abierto'[c]
    BY <1>0, <1>3 DEF Terminar, RedTypeOK
  <2> QED BY <2>1, DespedidaIgual
<1>4. CASE Cancelar(c) \/ CambiarUsuario(c)
  BY <1>0, <1>1, <1>4, DespedidaIgual DEF Cancelar, CambiarUsuario, red
<1>5. ASSUME NEW p \in Peticion, PideDesde(c, p) PROVE Despedida(c)'
  <2>1. /\ abierto[c] /\ pendiente[c] = NADA /\ pendiente'[c] = p /\ UNCHANGED abierto
        /\ al_servidor'[c] \in {Append(al_servidor[c], p), al_servidor[c]}
        /\ al_servidor[c] \in Seq(Peticion)
    BY <1>0, <1>5 DEF PideDesde, Pedir, Libre, RedTypeOK, ControladorTypeOK
  <2>2. /\ \A i \in DOMAIN al_servidor[c] : al_servidor[c][i].op # "SALIR"
        /\ EnMarcha(c) => ~salirCliente
    BY <1>a, <2>1 DEF Despedida
  <2>3. ASSUME p.op # "SALIR", NEW i \in DOMAIN Append(al_servidor[c], p)
        PROVE  Append(al_servidor[c], p)[i].op # "SALIR"
    <3>1. /\ i \in 1..Len(al_servidor[c]) + 1
          /\ Append(al_servidor[c], p)[i] =
               IF i = Len(al_servidor[c]) + 1 THEN p ELSE al_servidor[c][i]
          /\ DOMAIN al_servidor[c] = 1..Len(al_servidor[c]) /\ Len(al_servidor[c]) \in Nat
      BY <2>1, <2>3, AppendProperties, LenProperties
    <3> QED BY <2>2, <2>3, <3>1
  <2> QED BY <1>0, <1>1, <2>1, <2>2, <2>3 DEF Despedida
<1>6. CASE RecibirRespuesta(c)
  <2>1. UNCHANGED <<abierto, al_servidor>>
    BY <1>6 DEF RecibirRespuesta, Contestar
  <2>2. pendiente[c].op # "SALIR"
    <3>1. pendiente[c].op = "SALIR" => pc[c] = "menu"
      BY DEF EnElMenu
    <3> QED BY <1>6, <3>1 DEF RecibirRespuesta, Contestar, LoginContestado, ListaContestada,
               CargaContestada, InfoContestada, TextoMostrado
  <2> QED BY <1>0, <1>1, <2>1, <2>2, DespedidaIgual
<1> QED BY <1>0, <1>2, <1>3, <1>4, <1>5, <1>6, PeticionesDelCliente

LEMMA DespedidaAjena ==
  ASSUME NEW c \in Clientes, Intacto(c), UNCHANGED <<atendido, sesion>>, Despedida(c)
  PROVE  Despedida(c)'
BY DespedidaIgual DEF Intacto, sesion, EnMarcha

LEMMA DespedidaServidor ==
  ASSUME TypeOK, ServidorNext, UNCHANGED cliente, NEW c \in Clientes, Despedida(c)
  PROVE  Despedida(c)'
<1>0. RedTypeOK /\ UNCHANGED pendiente
      /\ (servidor \in {"recv", "enviar"} <=> atendido # NADIE) /\ c # NADIE
  BY NadieAssumption DEF TypeOK, cliente
<1>a. atendido # NADIE => atendido \in Clientes
  BY <1>0 DEF RedTypeOK
<1>b. ASSUME UNCHANGED <<abierto, al_servidor>>,
             EnMarcha(c)' => EnMarcha(c) /\ UNCHANGED salirCliente
      PROVE  Despedida(c)'
  BY <1>0, <1>b, DespedidaIgual
<1>c. ASSUME UNCHANGED abierto, ~EnMarcha(c)', al_servidor'[c] \in {<<>>, al_servidor[c]}
      PROVE  Despedida(c)'
  <2>1. \A i \in DOMAIN <<>> : FALSE
    OBVIOUS
  <2>2. \A i \in DOMAIN al_servidor'[c] :
          \E j \in DOMAIN al_servidor[c] : al_servidor'[c][i] = al_servidor[c][j]
    BY <1>c, <2>1
  <2> QED BY <1>0, <1>c, <2>2, DespedidaIgual
<1>1. CASE Aceptar
  BY <1>1, <1>b DEF Aceptar, EnMarcha
<1>2. CASE Recibir
  <2>0. /\ atendido \in Clientes /\ UNCHANGED <<atendido, abierto>>
        /\ al_servidor[atendido] \in Seq(Peticion)
    BY <1>0, <1>a, <1>2 DEF Recibir, RedTypeOK
  <2>1. PICK p \in Prefijos(al_servidor[atendido]) :
          /\ al_servidor' = [al_servidor EXCEPT ![atendido] = Resto(@, p)]
          /\ salirCliente' = (p = <<Orden("SALIR")>>)
    BY <1>2 DEF Recibir
  <2>2. CASE c = atendido
    <3> SUFFICES ASSUME abierto[c], pendiente[c].op # "SALIR"
                 PROVE  /\ \A i \in DOMAIN al_servidor'[c] : al_servidor'[c][i].op # "SALIR"
                        /\ ~salirCliente'
      BY <1>0, <2>0 DEF Despedida
    <3>1. \A i \in DOMAIN al_servidor[c] : al_servidor[c][i].op # "SALIR"
      BY DEF Despedida
    <3>2. al_servidor'[c] = Resto(al_servidor[c], p)
      BY <1>0, <2>1, <2>2 DEF RedTypeOK
    <3>3. /\ Len(p) \in 1..Len(al_servidor[c]) /\ \A i \in 1..Len(p) : p[i] = al_servidor[c][i]
          /\ Resto(al_servidor[c], p) \in Seq(Peticion)
          /\ Len(Resto(al_servidor[c], p)) = Len(al_servidor[c]) - Len(p)
          /\ \A i \in 1..Len(Resto(al_servidor[c], p)) :
               Resto(al_servidor[c], p)[i] = al_servidor[c][i + Len(p)]
      <4> DEFINE s == al_servidor[c]
      <4>1. p \in Prefijos(s) /\ s \in Seq(Peticion)
        BY <2>0, <2>1, <2>2
      <4> HIDE DEF s
      <4>2. Len(p) \in 1..Len(s) /\ \A i \in 1..Len(p) : p[i] = s[i]
        BY <4>1, Recv
      <4>3. /\ Resto(s, p) \in Seq(Peticion) /\ Len(Resto(s, p)) = Len(s) - Len(p)
            /\ \A i \in 1..Len(Resto(s, p)) : Resto(s, p)[i] = s[i + Len(p)]
        BY <4>1, Recv
      <4> QED BY <4>2, <4>3 DEF s
    <3>4. DOMAIN al_servidor[c] = 1..Len(al_servidor[c]) /\ Len(al_servidor[c]) \in Nat
          /\ DOMAIN Resto(al_servidor[c], p) = 1..Len(Resto(al_servidor[c], p))
      BY <2>0, <2>2, <3>3, LenProperties
    <3>5. ASSUME NEW i \in DOMAIN al_servidor'[c] PROVE al_servidor'[c][i].op # "SALIR"
      <4>1. i \in 1..Len(Resto(al_servidor[c], p))
        BY <3>2, <3>4, <3>5
      <4>2. i + Len(p) \in DOMAIN al_servidor[c]
        BY <3>3, <3>4, <4>1
      <4> QED BY <3>1, <3>2, <3>3, <4>1, <4>2
    <3>6. p[1].op # "SALIR"
      <4>1. 1 \in DOMAIN al_servidor[c] /\ 1 \in 1..Len(p)
        BY <3>3, <3>4
      <4> QED BY <3>1, <3>3, <4>1
    <3>7. <<Orden("SALIR")>>[1].op = "SALIR"
      BY DEF Orden, Texto
    <3> QED BY <2>1, <3>5, <3>6, <3>7
  <2>3. CASE c # atendido
    <3>1. al_servidor'[c] = al_servidor[c] /\ ~EnMarcha(c)'
      BY <1>0, <2>0, <2>1, <2>3 DEF RedTypeOK, EnMarcha
    <3> QED BY <1>c, <2>0, <3>1
  <2> QED BY <2>2, <2>3
<1>3. CASE Enviar \/ Desconectado
  <2>1. UNCHANGED abierto /\ servidor' # "enviar" /\ atendido \in Clientes
        /\ \/ UNCHANGED al_servidor
           \/ al_servidor' = [al_servidor EXCEPT ![atendido] = <<>>]
    BY <1>0, <1>a, <1>3 DEF Enviar, Desconectado, cerrarCliente
  <2>2. al_servidor'[c] \in {<<>>, al_servidor[c]}
    BY <1>0, <2>1 DEF RedTypeOK
  <2> QED BY <1>c, <2>1, <2>2 DEF EnMarcha
<1>4. CASE Arrancar
  BY <1>4, <1>b DEF Arrancar, red, EnMarcha
<1>5. CASE SegundoServidor
  BY <1>5, <1>b DEF SegundoServidor, red, sesion, EnMarcha
<1>6. CASE Caer
  <2>1. UNCHANGED abierto /\ servidor' = "apagado" /\ al_servidor'[c] = <<>>
    BY <1>6 DEF Caer
  <2> QED BY <1>c, <2>1 DEF EnMarcha
<1>7. ASSUME \/ ConsolaEmpieza \/ ConsolaTermina \/ \E v \in Vuelos : ConsolaInserta(v)
      PROVE  Despedida(c)'
  BY <1>7, <1>b DEF ConsolaEmpieza, ConsolaTermina, ConsolaInserta, red, sesion, EnMarcha
<1> QED BY <1>1, <1>2, <1>3, <1>4, <1>5, <1>6, <1>7 DEF ServidorNext, PasoServidor

----------------------------------------------------------------------------

\* The backlog loses clients to accept, and never what they have sent.
LEMMA MenuEsperaServidor ==
  ASSUME TypeOK, Conexiones, ServidorNext, UNCHANGED cliente, NEW c \in Clientes,
         EnElMenu(c), EnEspera(c)
  PROVE  EnElMenu(c)' /\ EnEspera(c)' /\ UNCHANGED abierto
<1>0. /\ RedTypeOK /\ c # NADIE
      /\ servidor \in {"recv", "enviar"} <=> atendido # NADIE
  BY NadieAssumption DEF TypeOK
<1>a. EnLaCola(c) => c # atendido
  BY DEF Conexiones, EnLaCola
<1>b. ASSUME UNCHANGED <<cola, abierto>>,
             \A d \in Clientes \ {atendido} :
               al_servidor'[d] = al_servidor[d] /\ al_cliente'[d] = al_cliente[d]
      PROVE  EnElMenu(c)' /\ EnEspera(c)' /\ UNCHANGED abierto
  <2>1. EnLaCola(c)' => /\ EnLaCola(c) /\ al_servidor'[c] = al_servidor[c]
                        /\ al_cliente'[c] = al_cliente[c]
    BY <1>a, <1>b DEF EnLaCola
  <2> QED BY <1>b, <2>1, MenuServidor, ColaServidor
<1>c. ASSUME UNCHANGED abierto, cola' = <<>>
      PROVE  EnElMenu(c)' /\ EnEspera(c)' /\ UNCHANGED abierto
  <2>1. ~EnLaCola(c)'
    BY <1>c DEF EnLaCola
  <2> QED BY <1>c, <2>1, MenuServidor, ColaServidor
<1>1. CASE Aceptar
  <2>1. cola \in Seq(Clientes) /\ Len(cola) <= 1 /\ cola # <<>>
    BY <1>0, <1>1 DEF Aceptar, Conexiones, BACKLOG, RedTypeOK
  <2>2. cola' = <<>> /\ UNCHANGED abierto
    BY <1>1, <2>1, SinSitio DEF Aceptar
  <2> QED BY <1>c, <2>2
<1>2. CASE Recibir
  BY <1>0, <1>2, <1>b DEF Recibir, RedTypeOK
<1>3. CASE Enviar
  BY <1>0, <1>3, <1>b DEF Enviar, cerrarCliente, RedTypeOK
<1>4. CASE Desconectado
  BY <1>0, <1>4, <1>b DEF Desconectado, cerrarCliente, RedTypeOK
<1>5. CASE Caer
  BY <1>5, <1>c DEF Caer
<1>6. ASSUME \/ Arrancar \/ SegundoServidor \/ ConsolaEmpieza \/ ConsolaTermina
             \/ \E v \in Vuelos : ConsolaInserta(v)
      PROVE  EnElMenu(c)' /\ EnEspera(c)' /\ UNCHANGED abierto
  BY <1>6, <1>b DEF Arrancar, SegundoServidor, ConsolaEmpieza, ConsolaTermina,
     ConsolaInserta, red
<1> QED BY <1>1, <1>2, <1>3, <1>4, <1>5, <1>6 DEF ServidorNext, PasoServidor

\* The answer to the login of the first client takes it to a menu, or nowhere.
LEMMA MenuLogin ==
  ASSUME ConversacionInv, NEW c \in Clientes, LoginRecibido(c), UNCHANGED sesion,
         EnElMenu(c), EnEspera(c), Despedida(c), Antiguo(c)
  PROVE  EnElMenu(c)' /\ EnEspera(c)' /\ Despedida(c)'
<1>0. RedTypeOK /\ ControladorTypeOK /\ Conexiones
  BY DEF ConversacionInv, EsperaInv, TypeOK
<1>a. NADA.op = ""
  BY DEF NADA, Orden, Texto
<1>1. PICK texto \in Seq(Trozo) : Recibido(c, texto) /\ LoginAntiguo(c, texto)
  BY <1>0, TextoDelLogin
<1>2. pendiente[c].op = "LOGIN" /\ pendiente[c] # NADA
  BY <1>a DEF LoginRecibido
<1>3. abierto[c] /\ pendiente'[c] = NADA /\ pc[c] = "login"
      /\ UNCHANGED <<cola, atendido, abierto, al_servidor, servidor, salirCliente>>
  BY <1>0, <1>1, <1>2 DEF Conexiones, Recibido, ControladorTypeOK, LoginAntiguo, sesion
<1>4. EnElMenu(c)'
  <2>1. pc'[c] # "login" => rol'[c] # "PASAJERO" /\ idUsuarioAutenticado'[c] # ID_PASAJERO
    <3>1. UNCHANGED idUsuarioAutenticado
      BY <1>0, <1>1, LoginAntiguoDe
    <3>2. \/ UNCHANGED pc
          \/ /\ texto[1].r.a.arg # "PASAJERO"
             /\ rol' = [rol EXCEPT ![c] = texto[1].r.a.arg]
      BY <1>0, <1>1, LoginAntiguoDe
    <3>3. rol'[c] # "PASAJERO" \/ UNCHANGED pc
      BY <1>0, <3>2 DEF ControladorTypeOK
    <3>4. idUsuarioAutenticado'[c] # ID_PASAJERO
      BY <3>1 DEF Antiguo, ID_PASAJERO
    <3> QED BY <1>3, <3>3, <3>4
  <2> QED BY <1>a, <1>3, <2>1 DEF EnElMenu, ID_PASAJERO
<1>5. EnEspera(c)'
  <2>1. ASSUME EnLaCola(c) PROVE FALSE
    <3>1. al_cliente[c] = <<>> /\ Conectado(c)
      BY <2>1 DEF EnEspera, EnLaCola, Conectado
    <3>2. Prefijos(al_cliente[c]) = {}
      BY <3>1 DEF Prefijos
    <3> QED BY <1>1, <3>1, <3>2 DEF Recibido, SinServidor
  <2> QED BY <1>3, <2>1 DEF EnEspera, EnLaCola
<1>6. Despedida(c)'
  <2>1. pendiente[c].op # "SALIR" /\ (EnMarcha(c)' => EnMarcha(c))
    BY <1>2, <1>3 DEF EnMarcha
  <2> QED BY <1>3, <2>1, DespedidaIgual
<1> QED BY <1>4, <1>5, <1>6

\* std::cin fails for one client, whose user is then gone for good.
LEMMA SinPreguntasPropias ==
  ASSUME RedTypeOK, ControladorTypeOK, trabado \in [Clientes -> BOOLEAN],
         NEW c \in Clientes, NEW e \in BOOLEAN, AntiguoNext(c, e), SinPreguntas(c)
  PROVE  /\ trabado' \in [Clientes -> BOOLEAN]
         /\ \A d \in Clientes \ {c} : trabado'[d] = trabado[d]
         /\ SinPreguntas(c)'
<1>a. NADA.op = ""
  BY DEF NADA, Orden, Texto
<1>1. ASSUME ~trabado[c], UNCHANGED trabado
      PROVE  /\ trabado' \in [Clientes -> BOOLEAN]
             /\ \A d \in Clientes \ {c} : trabado'[d] = trabado[d]
             /\ SinPreguntas(c)'
  BY <1>1 DEF SinPreguntas
<1>2. ASSUME \/ Conectar(c, e) \/ (\E credencial \in Credenciales : hacerLogin(c, credencial))
             \/ ejecutarMenuAdmin(c) \/ ejecutarMenuEmpleado(c)
             \/ LoginRecibido(c) \/ MenuRecibido(c)
      PROVE  ~trabado[c]
  BY <1>a, <1>2 DEF Conectar, hacerLogin, ejecutarMenuAdmin, ejecutarMenuEmpleado, AlMenu,
     LoginRecibido, MenuRecibido, RecibirRespuesta, SinPreguntas
<1>3. CASE OpcionNoNumerica(c)
  <2>1. abierto'[c] /\ pc'[c] = "menu" /\ pendiente'[c] = NADA
    BY <1>3 DEF OpcionNoNumerica, Libre, red, cliente
  <2> QED BY <1>3, <2>1 DEF OpcionNoNumerica, SinPreguntas, NADA, Orden, Texto
<1>4. CASE TerminarAntiguo(c)
  BY <1>4 DEF TerminarAntiguo, SinPreguntas
<1> QED BY <1>1, <1>2, <1>3, <1>4 DEF AntiguoNext, PasoAntiguo

LEMMA MixtoPaso == MixtoInv /\ [NextMixto]_varsMixto => MixtoInv'
<1> SUFFICES ASSUME MixtoInv, [NextMixto]_varsMixto PROVE MixtoInv'
  OBVIOUS
<1>0. /\ ConversacionInv /\ EnReposo /\ Sanas /\ trabado \in [Clientes -> BOOLEAN]
      /\ TypeOK /\ RedTypeOK /\ ControladorTypeOK /\ Conexiones
      /\ (servidor # "apagado") \in BOOLEAN
  BY DEF MixtoInv, ConversacionInv, EsperaInv, TypeOK
<1>a. \A c \in Antiguos : c \in Clientes
  BY AntiguosAssumption
\* What a step of Airflow keeps.
<1>b. ASSUME [Next]_vars PROVE ConversacionInv' /\ EnReposo' /\ Sanas'
  <2>1. ConversacionInv'
    BY <1>0, <1>b, ConversacionPaso
  <2>2. CASE Next
    BY <1>0, <2>1, <2>2, ReposoPaso, SanasPaso
  <2>3. CASE UNCHANGED vars
    <3>1. UNCHANGED <<servidor, idUsuarioActual, version, verServidor, respuesta, al_cliente>>
      BY <2>3 DEF vars, red, sesion, bd
    <3>2. Sana(respuesta')
      BY <1>0, <3>1 DEF Sanas
    <3> QED BY <1>0, <2>1, <3>1, <3>2, SanasMenos DEF EnReposo
  <2> QED BY <1>b, <2>2, <2>3
\* What one client's step leaves of the others.
<1>c. ASSUME NEW d \in Clientes, Intacto(d), UNCHANGED <<atendido, sesion, bd>>
      PROVE  /\ EnElMenu(d)' /\ EnEspera(d)' /\ Despedida(d)'
             /\ d \notin Antiguos => Atencion(d)'
             /\ d \in Antiguos => Antiguo(d)'
  <2>1. UNCHANGED <<servidor, respuesta, idUsuarioActual, verServidor>>
        /\ (EnMarcha(d)' <=> EnMarcha(d))
    BY <1>c DEF sesion, bd, EnMarcha
  <2>2. EnElMenu(d) /\ EnEspera(d) /\ Despedida(d)
    BY DEF MixtoInv
  <2>3. EnElMenu(d)'
    BY <1>c, <2>2 DEF Intacto, EnElMenu, Nuevo, ID_PASAJERO
  <2>4. EnEspera(d)'
    <3>1. Nuevo(d) => Nuevo(d)'
      BY <1>c DEF Intacto, Nuevo
    <3> QED BY <1>c, <2>2, <3>1 DEF Intacto, EnEspera
  <2>5. Despedida(d)'
    BY <1>c, <2>2, DespedidaAjena
  <2>6. d \notin Antiguos => Atencion(d)'
    BY <1>c, <2>2, SesionAjena DEF MixtoInv
  <2>7. d \in Antiguos => Antiguo(d)'
    BY <1>c, AntiguoAjeno DEF MixtoInv
  <2> QED BY <2>3, <2>4, <2>5, <2>6, <2>7
<1>1. CASE ServidorNext /\ UNCHANGED <<cliente, trabado>>
  <2>1. [Next]_vars
    BY <1>1 DEF Next
  <2>2. ASSUME NEW c \in Clientes
        PROVE  /\ EnElMenu(c)' /\ EnEspera(c)' /\ Despedida(c)'
               /\ c \notin Antiguos => Atencion(c)'
    <3>0. EnElMenu(c) /\ EnEspera(c) /\ Despedida(c)
      BY DEF MixtoInv
    <3>1. Despedida(c)'
      BY <1>0, <1>1, <3>0, DespedidaServidor
    <3>2. c \notin Antiguos => EnElMenu(c)' /\ EnEspera(c)' /\ Atencion(c)'
      BY <1>0, <1>1, <3>0, SesionServidor DEF MixtoInv
    <3>3. EnElMenu(c)' /\ EnEspera(c)'
      BY <1>0, <1>1, <3>0, MenuEsperaServidor
    <3> QED BY <3>1, <3>2, <3>3
  <2>3. ASSUME NEW c \in Antiguos PROVE Antiguo(c)' /\ SinPreguntas(c)'
    <3>1. c \in Clientes /\ EnElMenu(c) /\ EnEspera(c) /\ Antiguo(c) /\ SinPreguntas(c)
      BY <1>a DEF MixtoInv
    <3>2. UNCHANGED abierto
      BY <1>1 DEF ServidorNext, PasoServidor, Aceptar, Recibir, Enviar, Desconectado, Arrancar,
         SegundoServidor, Caer, ConsolaEmpieza, ConsolaInserta, ConsolaTermina, red
    <3>3. SinPreguntas(c)'
      BY <1>1, <3>1, <3>2 DEF SinPreguntas, cliente, NADA, Orden, Texto
    <3> QED BY <1>0, <1>1, <3>1, <3>3, AntiguoServidor
  <2> QED BY <1>0, <1>1, <1>b, <2>1, <2>2, <2>3 DEF MixtoInv
<1>2. ASSUME NEW c \in Clientes \ Antiguos, ClienteNext(c, servidor # "apagado"),
             UNCHANGED <<sesion, bd, trabado>>
      PROVE  MixtoInv'
  <2>0. [Next]_vars /\ UNCHANGED <<servidor, idUsuarioActual, respuesta, verServidor>>
    BY <1>2 DEF Next, sesion, bd
  <2>1. \A d \in Clientes \ {c} : Intacto(d) /\ UNCHANGED atendido
    BY <1>0, <1>2, IntactoAjeno, TipoCliente
  <2>2. EnElMenu(c) /\ EnEspera(c) /\ Despedida(c) /\ Atencion(c)
    BY DEF MixtoInv
  <2>3. EnElMenu(c)' /\ EnEspera(c)' /\ Despedida(c)' /\ Atencion(c)'
    BY <1>0, <1>2, <2>0, <2>2, MenuPropio, EnEsperaPropia, AtencionPropia, DespedidaPropia
  <2>4. ASSUME NEW d \in Antiguos PROVE Antiguo(d)' /\ SinPreguntas(d)'
    <3>1. d \in Clientes \ {c} /\ SinPreguntas(d)
      BY <1>a DEF MixtoInv
    <3> QED BY <1>2, <1>c, <2>1, <3>1 DEF SinPreguntas, Intacto, NADA, Orden, Texto
  <2> QED BY <1>0, <1>2, <1>b, <1>c, <2>0, <2>1, <2>3, <2>4 DEF MixtoInv
<1>3. ASSUME NEW c \in Antiguos, AntiguoNext(c, servidor # "apagado"), UNCHANGED <<sesion, bd>>
      PROVE  MixtoInv'
  <2>0. /\ c \in Clientes /\ EnElMenu(c) /\ EnEspera(c) /\ Despedida(c) /\ Antiguo(c)
        /\ SinPreguntas(c)
    BY <1>a DEF MixtoInv
  <2>1. /\ trabado' \in [Clientes -> BOOLEAN]
        /\ \A d \in Clientes \ {c} : trabado'[d] = trabado[d]
        /\ SinPreguntas(c)'
    BY <1>0, <1>3, <2>0, SinPreguntasPropias
  <2>2. Antiguo(c)'
    BY <1>0, <1>3, <2>0, AntiguoPropio
  <2>3. /\ ConversacionInv' /\ EnReposo' /\ Sanas'
        /\ EnElMenu(c)' /\ EnEspera(c)' /\ Despedida(c)'
        /\ \A d \in Clientes \ {c} : Intacto(d) /\ UNCHANGED atendido
    <3>1. CASE ClienteNext(c, servidor # "apagado")
      <4>1. [Next]_vars
        BY <1>3, <2>0, <3>1 DEF Next
      <4> QED BY <1>0, <1>3, <1>b, <2>0, <3>1, <4>1, MenuPropio, EnEsperaPropia, DespedidaPropia,
                 IntactoAjeno, TipoCliente
    <3>2. CASE LoginRecibido(c)
      <4>1. EnReposo'
        BY <1>0, <1>3 DEF EnReposo, sesion, bd
      <4>2. Sanas'
        <5>1. PICK texto : Recibido(c, texto)
          BY <1>0, <2>0, <3>2, TextoDelLogin
        <5>2. Sana(respuesta')
          BY <1>0, <1>3 DEF Sanas, sesion
        <5> QED BY <1>0, <2>0, <5>1, <5>2, SanasRecibida
      <4> QED BY <1>0, <1>3, <2>0, <3>2, <4>1, <4>2, ConversacionLogin, MenuLogin, IntactoLogin
    <3>3. CASE UNCHANGED <<red, cargas, pedidas, cliente>>
      <4>1. UNCHANGED vars
        BY <1>3, <3>3 DEF vars
      <4>2. \A d \in Clientes : Intacto(d) /\ UNCHANGED atendido
        BY <3>3 DEF Intacto, red, cliente, EnLaCola
      <4> QED BY <1>3, <1>b, <1>c, <2>0, <4>1, <4>2
    <3> QED BY <1>0, <1>3, <2>0, <3>1, <3>2, <3>3, PasosDelAntiguo
  <2>4. ASSUME NEW d \in Antiguos PROVE Antiguo(d)' /\ SinPreguntas(d)'
    <3>1. CASE d = c
      BY <2>1, <2>2, <3>1
    <3>2. CASE d # c
      <4>1. d \in Clientes \ {c} /\ SinPreguntas(d)
        BY <1>a, <3>2 DEF MixtoInv
      <4>2. Intacto(d) /\ trabado'[d] = trabado[d]
        BY <2>1, <2>3, <4>1
      <4>3. SinPreguntas(d)'
        BY <4>1, <4>2 DEF SinPreguntas, Intacto, NADA, Orden, Texto
      <4> QED BY <1>3, <1>c, <2>3, <4>1, <4>3
    <3> QED BY <3>1, <3>2
  <2>5. ASSUME NEW d \in Clientes PROVE EnElMenu(d)' /\ EnEspera(d)' /\ Despedida(d)'
    BY <1>3, <1>c, <2>3
  <2>6. ASSUME NEW d \in Clientes \ Antiguos PROVE Atencion(d)'
    BY <1>3, <1>c, <2>3
  <2> QED BY <2>1, <2>3, <2>4, <2>5, <2>6 DEF MixtoInv
<1>4. CASE UNCHANGED varsMixto
  <2>1. UNCHANGED <<vars, trabado>>
    BY <1>4 DEF varsMixto
  <2>2. \A d \in Clientes : Intacto(d) /\ UNCHANGED <<atendido, sesion, bd>>
    BY <2>1 DEF vars, Intacto, red, cliente, EnLaCola
  <2>3. ASSUME NEW d \in Antiguos PROVE SinPreguntas(d)'
    <3>1. d \in Clientes /\ SinPreguntas(d)
      BY <1>a DEF MixtoInv
    <3> QED BY <2>1, <2>2, <3>1 DEF SinPreguntas, Intacto, NADA, Orden, Texto
  <2> QED BY <1>0, <1>a, <1>b, <1>c, <2>1, <2>2, <2>3 DEF MixtoInv
<1> QED BY <1>1, <1>2, <1>3, <1>4 DEF NextMixto

LEMMA MixtoInicial == InitMixto => MixtoInv
<1> SUFFICES ASSUME InitMixto PROVE MixtoInv
  OBVIOUS
<1>1. SesionInv
  BY SesionInicial DEF InitMixto
<1>2. trabado = [c \in Clientes |-> FALSE]
  BY DEF InitMixto, AntiguoInit
<1>3. ASSUME NEW c \in Clientes PROVE Despedida(c)
  <2>1. al_servidor[c] = <<>> /\ servidor = "apagado"
    BY DEF InitMixto, Init, RedInit, ServidorInit
  <2>2. \A i \in DOMAIN al_servidor[c] : FALSE
    BY <2>1
  <2> QED BY <2>1, <2>2 DEF Despedida, EnMarcha
<1>4. ASSUME NEW c \in Antiguos PROVE Antiguo(c) /\ SinPreguntas(c)
  <2>1. c \in Clientes /\ c # NADIE
    BY AntiguosAssumption, NadieAssumption
  <2>2. Antiguo(c)
    BY <2>1 DEF InitMixto, Init, RedInit, ControladorInit, Antiguo
  <2> QED BY <1>2, <2>1, <2>2 DEF SinPreguntas
<1> QED BY <1>1, <1>2, <1>3, <1>4 DEF MixtoInv, SesionInv

\* However many answers come in pieces to others, a client of the first kind
\* that waits for its user at a menu, and whose own came whole, is served by a
\* server without session, for any clients of both kinds.
THEOREM AntiguoSiempreSinPasajero == SpecMixta => []AntiguoSinPasajero
<1>1. MixtoInv => AntiguoSinPasajero
  BY DEF MixtoInv, Antiguo, AntiguoSinPasajero, Libre
<1> QED BY <1>1, MixtoInicial, MixtoPaso, PTL DEF SpecMixta

\* The two copies of the session of every other client agree, whatever the
\* clients of the first kind do before and meanwhile.
THEOREM NuevosSiempreDeAcuerdo == SpecMixta => []AcuerdoNuevos
<1>1. MixtoInv => AcuerdoNuevos
  <2> SUFFICES ASSUME MixtoInv, NEW c \in Clientes \ Antiguos,
                      atendido = c, entero[c], Libre(c)
               PROVE  /\ idUsuarioActual = idUsuarioAutenticado[c]
                      /\ pc[c] # "login" => (rol[c] = "PASAJERO" <=> idUsuarioActual = ID_PASAJERO)
    BY DEF AcuerdoNuevos, Acuerdo
  <2>1. al_cliente[c] = <<>> /\ ~EnMarcha(c) /\ abierto[c]
    BY NadaEnCamino DEF MixtoInv, ConversacionInv, Libre
  <2>2. EnComun(c) /\ EnElMenu(c)
    BY <2>1 DEF MixtoInv, Atencion
  <2> QED BY <2>1, <2>2 DEF EnComun, EnElMenu
<1> QED BY <1>1, MixtoInicial, MixtoPaso, PTL DEF SpecMixta

\* A client whose std::cin has failed asks for nothing and does not leave, so
\* recv keeps the server with it until one of the two is killed.
THEOREM TrabadoSiempreRetiene == SpecMixta => TrabadoRetiene
<1>1. MixtoInv /\ [NextMixto]_varsMixto =>
        [\A c \in Antiguos : (trabado[c] /\ atendido = c) =>
           \/ atendido' = c
           \/ servidor' = "apagado"
           \/ ~abierto[c]]_varsMixto
  <2> SUFFICES ASSUME MixtoInv, NextMixto, NEW c \in Antiguos, trabado[c], atendido = c,
                      abierto[c]
               PROVE  atendido' = c \/ servidor' = "apagado"
    OBVIOUS
  <2>0. /\ c \in Clientes /\ Despedida(c) /\ pendiente[c] = NADA
        /\ RedTypeOK /\ ControladorTypeOK
        /\ servidor \in {"recv", "enviar"} <=> atendido # NADIE
        /\ c # NADIE
    BY AntiguosAssumption, NadieAssumption
       DEF MixtoInv, SinPreguntas, ConversacionInv, EsperaInv, TypeOK
  <2>1. EnMarcha(c) => ~salirCliente
    <3>1. NADA.op = ""
      BY DEF NADA, Orden, Texto
    <3> QED BY <2>0, <3>1 DEF Despedida
  <2>2. CASE ServidorNext
    BY <2>0, <2>1, <2>2 DEF EnMarcha, ServidorNext, PasoServidor, Aceptar, Recibir, Enviar,
       Desconectado, Arrancar, SegundoServidor, Caer, ConsolaEmpieza, ConsolaInserta,
       ConsolaTermina, red
  <2>3. ASSUME NEW d \in Clientes, NEW e \in BOOLEAN,
               ClienteNext(d, e) \/ (d \in Antiguos /\ AntiguoNext(d, e))
        PROVE  UNCHANGED atendido
    <3>1. LoginRecibido(d) => UNCHANGED atendido
      BY DEF LoginRecibido
    <3>2. ClienteNext(d, e) => UNCHANGED atendido
      BY <2>0, TipoCliente
    <3>3. UNCHANGED <<red, cargas, pedidas, cliente>> => UNCHANGED atendido
      BY DEF red
    <3> QED BY <2>3, <3>1, <3>2, <3>3, PasosDelAntiguo
  <2>4. (servidor # "apagado") \in BOOLEAN
    OBVIOUS
  <2> QED BY <2>2, <2>3, <2>4, AntiguosAssumption DEF NextMixto
<1> QED BY <1>1, MixtoInicial, MixtoPaso, PTL DEF SpecMixta, TrabadoRetiene
====
