-------------------------- MODULE CargaCSV_proofs --------------------------
(***************************************************************************)
(* Theorems of CargaCSV, for every content of the four files and every     *)
(* bound on loads and tickets.                                             *)
(***************************************************************************)
EXTENDS CargaCSV, WellFoundedInduction, TLAPS

\* A set of naturals with an element has a least one.
LEMMA MinimoNat ==
  ASSUME NEW S \in SUBSET Nat, S # {}
  PROVE  \E i \in S : \A j \in S : i <= j
<1> DEFINE R == {ss \in Nat \X Nat : ss[1] < ss[2]}
<1>1. IsWellFoundedOn(R, Nat)
  BY NatLessThanWellFounded, Zenon DEF OpToRel
<1> HIDE DEF R
<1>2. \E x \in S : \A y \in S : ~ (<<y, x>> \in R)
  BY <1>1, WFMin, Zenon
<1>3. \A x, y \in S : ~ (<<y, x>> \in R) => x <= y
  BY SMT DEF R
<1> QED BY <1>2, <1>3

\* The line a loader works on is a valid line of its file.
LEMMA LineaValida ==
  ASSUME NEW p, NEW t, EnLinea(p, t)
  PROVE  Actual(p) \in Validas(t)
<1>1. Actual(p) \in Lineas(t)
  BY DEF EnLinea, Actual, Lineas
<1> QED BY <1>1 DEF EnLinea, Validas

\* A column of a valid line is a value of that column.
LEMMA ColumnaDeLinea ==
  ASSUME NEW t, NEW k, NEW l \in Validas(t)
  PROVE  l[k] \in Columna(t, k)
BY DEF Columna

\* atoi always gives an integer.
LEMMA AtoiEntero == ASSUME NEW campo PROVE atoi(campo) \in Int
BY NumeroAssumption DEF atoi

\* The airport lookup returns the id of an airport with that code, or -1.
LEMMA BuscarAeropuerto ==
  ASSUME NEW t \in Tabla(FilaDeAeropuerto), NEW cod,
         NEW i, i = db_aeropuerto_buscar_codigo(t, cod)
  PROVE  /\ i \in Int
         /\ i # -1 => \E f \in t.filas : f.id = i /\ f.codigo = cod
         /\ (\E f \in t.filas : f.codigo = cod) => i # -1
<1>1. CASE \E f \in t.filas : f.codigo = cod
  <2>1. PICK f \in t.filas : f.codigo = cod /\ i = f.id
    BY <1>1 DEF db_aeropuerto_buscar_codigo
  <2>2. f.id \in Nat
    BY DEF Tabla, FilaDeAeropuerto
  <2> QED BY <2>1, <2>2
<1>2. CASE ~ \E f \in t.filas : f.codigo = cod
  BY <1>2 DEF db_aeropuerto_buscar_codigo
<1> QED BY <1>1, <1>2

\* The flight lookup returns the id of a flight with that code, or -1.
LEMMA BuscarVueloId ==
  ASSUME NEW t \in Tabla(FilaDeVuelo), NEW cod,
         NEW i, i = vuelo_buscar_codigo(t, cod)
  PROVE  /\ i \in Int
         /\ i # -1 => \E f \in t.filas : f.id = i /\ f.cod_vuelo = cod
<1> DEFINE S == {f.id : f \in {g \in t.filas : g.cod_vuelo = cod}}
<1>1. S \in SUBSET Nat
  BY DEF Tabla, FilaDeVuelo
<1>2. i = IF S = {} THEN -1 ELSE CHOOSE j \in S : \A k \in S : j <= k
  BY DEF vuelo_buscar_codigo
<1>3. CASE S = {}
  BY <1>2, <1>3
<1>4. CASE S # {}
  <2>1. i \in S
    <3> HIDE DEF S
    <3>1. \E j \in S : \A k \in S : j <= k
      BY <1>1, <1>4, MinimoNat
    <3> QED BY <1>2, <1>4, <3>1
  <2> QED BY <2>1, <1>1
<1> QED BY <1>3, <1>4

\* What the INSERTs keep of the type of a table.
LEMMA InsertarTipo ==
  ASSUME NEW Fila, NEW t \in Tabla(Fila)
  PROVE  /\ \A f \in Fila : Insertar(t, f) \in Tabla(Fila)
         /\ Ignorar(t) \in Tabla(Fila)
         /\ db_limpiar_billetes(t) \in Tabla(Fila)
BY DEF Tabla, Insertar, Ignorar, db_limpiar_billetes

----------------------------------------------------------------------------
\* Every variable keeps its type.
LEMMA TipoInit == Init => TypeOK
<1> SUFFICES ASSUME Init PROVE TypeOK
  OBVIOUS
<1>1. /\ TablaVacia \in Tabla(FilaDeAeropuerto)
      /\ TablaVacia \in Tabla(FilaDeVuelo)
      /\ TablaVacia \in Tabla(FilaDeUsuario)
      /\ TablaVacia \in Tabla(FilaDeEquipaje)
      /\ TablaVacia \in Tabla(FilaDeBillete)
  BY DEF TablaVacia, Tabla
<1>2. [p \in Procesos |-> "apagado"] \in [Procesos -> Fases]
  BY DEF Fases
<1>3. /\ [p \in Procesos |-> 0] \in [Procesos -> Nat]
      /\ [p \in Procesos |-> "origen"] \in [Procesos -> {"origen", "destino", "insertar"}]
      /\ [p \in Procesos |-> -1] \in [Procesos -> Int]
      /\ -1 \in Int /\ 0 \in Nat
  OBVIOUS
<1>4. [p \in Procesos |-> FALSE] \in [Procesos -> BOOLEAN]
  OBVIOUS
<1> QED BY <1>1, <1>2, <1>3, <1>4, Zenon DEF Init, TypeOK

LEMMA TipoNext == TypeOK /\ [Next]_vars => TypeOK'
<1> SUFFICES ASSUME TypeOK, [Next]_vars PROVE TypeOK'
  OBVIOUS
<1> USE DEF TypeOK
<1>1. ASSUME NEW p \in Procesos, Arrancar(p) PROVE TypeOK'
  BY <1>1, InsertarTipo DEF Arrancar, Fases, locales
<1>2. ASSUME NEW p \in Procesos, Caer(p) PROVE TypeOK'
  BY <1>2 DEF Caer, Fases, archivo
<1>3. ASSUME NEW p \in Procesos, EmpezarCarga(p) PROVE TypeOK'
  BY <1>3 DEF EmpezarCarga, Fases, Tablas, Minimo, archivo, locales
<1>4. ASSUME NEW p \in Procesos, AbrirCSV(p) PROVE TypeOK'
  BY <1>4 DEF AbrirCSV, archivo, locales
<1>5. ASSUME NEW p \in Procesos, FaltaCSV(p) PROVE TypeOK'
  BY <1>5 DEF FaltaCSV, archivo, locales, Siguiente, Fases, Tablas, Minimo
<1>6. ASSUME NEW p \in Procesos, CerrarCSV(p) PROVE TypeOK'
  BY <1>6 DEF CerrarCSV, archivo, locales, Siguiente, Fases, Tablas, Minimo
<1>7. ASSUME NEW p \in Procesos, SaltarLinea(p) PROVE TypeOK'
  BY <1>7 DEF SaltarLinea, Avanzar, archivo, locales
<1>8. ASSUME NEW p \in Procesos, FilaAeropuerto(p) PROVE TypeOK'
  <2>1. Actual(p)[1] \in Columna("aeropuertos", 1)
    BY <1>8, LineaValida, ColumnaDeLinea DEF FilaAeropuerto
  <2>2. db_aeropuerto_insertar(aeropuerto, Actual(p)[1]) \in Tabla(FilaDeAeropuerto)
    <3>1. [id |-> aeropuerto.seq + 1, codigo |-> Actual(p)[1]] \in FilaDeAeropuerto
      BY <2>1 DEF FilaDeAeropuerto, Tabla
    <3> QED BY <3>1, InsertarTipo DEF db_aeropuerto_insertar
  <2>3. aeropuerto' \in Tabla(FilaDeAeropuerto)
    BY <1>8, <2>2 DEF FilaAeropuerto
  <2>4. fallo' \in [Procesos -> BOOLEAN]
    BY <1>8 DEF FilaAeropuerto, Bloqueada
  <2>5. linea' \in [Procesos -> Nat]
    BY <1>8 DEF FilaAeropuerto, Avanzar
  <2>6. UNCHANGED <<vuelo, usuario, equipaje, billete, fase, paso, id_orig,
                 id_dest, id_vuelo, completa, cargas>>
    BY <1>8 DEF FilaAeropuerto, locales
  <2> QED BY <2>3, <2>4, <2>5, <2>6
<1>9. ASSUME NEW p \in Procesos, FilaUsuario(p) PROVE TypeOK'
  <2>1. /\ Actual(p)[1] \in Columna("usuarios", 1)
        /\ Actual(p)[4] \in Columna("usuarios", 4)
    BY <1>9, LineaValida, ColumnaDeLinea DEF FilaUsuario
  <2>2. db_usuario_insertar(usuario, Actual(p)[1], Actual(p)[4]) \in Tabla(FilaDeUsuario)
    <3>1. [id |-> usuario.seq + 1, dni |-> Actual(p)[1], email |-> Actual(p)[4]]
            \in FilaDeUsuario
      BY <2>1 DEF FilaDeUsuario, Tabla
    <3> QED BY <3>1, InsertarTipo DEF db_usuario_insertar
  <2>3. usuario' \in Tabla(FilaDeUsuario)
    BY <1>9, <2>2 DEF FilaUsuario
  <2>4. fallo' \in [Procesos -> BOOLEAN]
    BY <1>9 DEF FilaUsuario, Bloqueada
  <2>5. linea' \in [Procesos -> Nat]
    BY <1>9 DEF FilaUsuario, Avanzar
  <2>6. UNCHANGED <<aeropuerto, vuelo, equipaje, billete, fase, paso, id_orig,
                 id_dest, id_vuelo, completa, cargas>>
    BY <1>9 DEF FilaUsuario, locales
  <2> QED BY <2>3, <2>4, <2>5, <2>6
<1>10. ASSUME NEW p \in Procesos, FilaEquipaje(p) PROVE TypeOK'
  <2>1. /\ Actual(p)[1] \in Columna("equipajes", 1)
        /\ Actual(p)[2] \in Columna("equipajes", 2)
    BY <1>10, LineaValida, ColumnaDeLinea DEF FilaEquipaje
  <2>2. db_equipaje_insertar(equipaje, Actual(p)[1], Actual(p)[2], atoi(Actual(p)[3]))
          \in Tabla(FilaDeEquipaje)
    <3>1. [id |-> equipaje.seq + 1, codigo |-> Actual(p)[1], dni |-> Actual(p)[2],
           id_vuelo |-> atoi(Actual(p)[3])] \in FilaDeEquipaje
      BY <2>1, AtoiEntero DEF FilaDeEquipaje, Tabla
    <3> QED BY <3>1, InsertarTipo DEF db_equipaje_insertar
  <2>3. equipaje' \in Tabla(FilaDeEquipaje)
    BY <1>10, <2>2 DEF FilaEquipaje
  <2>4. fallo' \in [Procesos -> BOOLEAN]
    BY <1>10 DEF FilaEquipaje, Bloqueada
  <2>5. linea' \in [Procesos -> Nat]
    BY <1>10 DEF FilaEquipaje, Avanzar
  <2>6. UNCHANGED <<aeropuerto, vuelo, usuario, billete, fase, paso, id_orig,
                 id_dest, id_vuelo, completa, cargas>>
    BY <1>10 DEF FilaEquipaje, locales
  <2> QED BY <2>3, <2>4, <2>5, <2>6
<1>11. ASSUME NEW p \in Procesos, BuscarOrigen(p) PROVE TypeOK'
  <2>1. db_aeropuerto_buscar_codigo(aeropuerto, Actual(p)[3]) \in Int
    BY BuscarAeropuerto
  <2>2. id_orig' \in [Procesos -> Int]
    BY <1>11, <2>1 DEF BuscarOrigen, Bloqueada
  <2>3. /\ fallo' \in [Procesos -> BOOLEAN]
        /\ paso' \in [Procesos -> {"origen", "destino", "insertar"}]
    BY <1>11 DEF BuscarOrigen, Bloqueada
  <2>4. UNCHANGED <<aeropuerto, vuelo, usuario, equipaje, billete, fase, linea,
                    id_dest, id_vuelo, completa, cargas>>
    BY <1>11 DEF BuscarOrigen, archivo
  <2> QED BY <2>2, <2>3, <2>4
<1>12. ASSUME NEW p \in Procesos, BuscarDestino(p) PROVE TypeOK'
  <2>1. db_aeropuerto_buscar_codigo(aeropuerto, Actual(p)[4]) \in Int
    BY BuscarAeropuerto
  <2>2. id_dest' \in [Procesos -> Int]
    BY <1>12, <2>1 DEF BuscarDestino, Bloqueada
  <2>3. /\ fallo' \in [Procesos -> BOOLEAN]
        /\ paso' \in [Procesos -> {"origen", "destino", "insertar"}]
    BY <1>12 DEF BuscarDestino, Bloqueada
  <2>4. UNCHANGED <<aeropuerto, vuelo, usuario, equipaje, billete, fase, linea,
                    id_orig, id_vuelo, completa, cargas>>
    BY <1>12 DEF BuscarDestino, archivo
  <2> QED BY <2>2, <2>3, <2>4
<1>13. ASSUME NEW p \in Procesos, FilaVuelo(p) PROVE TypeOK'
  <2>1. Actual(p)[1] \in Columna("vuelos", 1)
    BY <1>13, LineaValida, ColumnaDeLinea DEF FilaVuelo
  <2>2. db_vuelo_insertar(vuelo, Actual(p)[1], id_orig[p], id_dest[p]) \in Tabla(FilaDeVuelo)
    <3>1. [id |-> vuelo.seq + 1, cod_vuelo |-> Actual(p)[1],
           id_origen |-> id_orig[p], id_destino |-> id_dest[p]] \in FilaDeVuelo
      BY <2>1 DEF FilaDeVuelo, Tabla
    <3> QED BY <3>1, InsertarTipo DEF db_vuelo_insertar
  <2>3. vuelo' \in Tabla(FilaDeVuelo)
    BY <1>13, <2>2 DEF FilaVuelo
  <2>4. fallo' \in [Procesos -> BOOLEAN]
    BY <1>13 DEF FilaVuelo, Bloqueada
  <2>5. /\ linea' \in [Procesos -> Nat]
        /\ paso' \in [Procesos -> {"origen", "destino", "insertar"}]
        /\ id_orig' \in [Procesos -> Int]
        /\ id_dest' \in [Procesos -> Int]
    BY <1>13 DEF FilaVuelo, Avanzar
  <2>6. UNCHANGED <<aeropuerto, usuario, equipaje, billete, fase, id_vuelo,
                    completa, cargas>>
    BY <1>13 DEF FilaVuelo
  <2> QED BY <2>3, <2>4, <2>5, <2>6
<1>14. ASSUME NEW p \in Procesos, EmpezarListado(p) PROVE TypeOK'
  BY <1>14 DEF EmpezarListado, Fases, archivo, locales
<1>15. ASSUME NEW p \in Procesos, TerminarListado(p) PROVE TypeOK'
  BY <1>15 DEF TerminarListado, Fases, archivo, locales
<1>16. CASE SegundoServidor
  BY <1>16, InsertarTipo DEF SegundoServidor, locales
<1>17. ASSUME NEW cod, BuscarVuelo(cod) PROVE TypeOK'
  <2>1. vuelo_buscar_codigo(vuelo, cod) \in Int
    BY BuscarVueloId
  <2>2. id_vuelo' \in Int
    BY <1>17, <2>1 DEF BuscarVuelo
  <2>3. fase' \in [Procesos -> Fases]
    BY <1>17 DEF BuscarVuelo, Fases
  <2> QED BY <1>17, <2>2, <2>3 DEF BuscarVuelo, archivo, locales
<1>18. CASE InsertarBillete
  <2>1. billete_insertar(billete, ID_PASAJERO, id_vuelo) \in Tabla(FilaDeBillete)
    <3>1. [id |-> billete.seq + 1, id_usuario |-> ID_PASAJERO, id_vuelo |-> id_vuelo]
            \in FilaDeBillete
      BY DEF FilaDeBillete, Tabla
    <3> QED BY <3>1, InsertarTipo DEF billete_insertar
  <2>2. billete' \in Tabla(FilaDeBillete)
    BY <1>18, <2>1 DEF InsertarBillete
  <2>3. fase' \in [Procesos -> Fases]
    BY <1>18 DEF InsertarBillete, Fases
  <2> QED BY <1>18, <2>2, <2>3 DEF InsertarBillete, locales
<1>19. CASE UNCHANGED vars
  BY <1>19 DEF vars, archivo, locales
<1> QED
  BY <1>1, <1>2, <1>3, <1>4, <1>5, <1>6, <1>7, <1>8, <1>9, <1>10, <1>11, <1>12,
     <1>13, <1>14, <1>15, <1>16, <1>17, <1>18, <1>19 DEF Next, PasoDeCarga

\* The variables have their types in every reachable state, whatever the
\* files hold.
THEOREM TipoCorrecto == Spec => []TypeOK
BY TipoInit, TipoNext, PTL DEF Spec

----------------------------------------------------------------------------
(* How the tables can change in one step *)

CambioAeropuerto ==
  \E cod : aeropuerto' = db_aeropuerto_insertar(aeropuerto, cod)
CambioUsuario ==
  \E dni, email : usuario' = db_usuario_insertar(usuario, dni, email)
CambioEquipaje ==
  \E cod, dni, id : equipaje' = db_equipaje_insertar(equipaje, cod, dni, id)
CambioVuelo ==
  \E p \in Procesos :
    /\ EnLinea(p, "vuelos") /\ paso[p] = "insertar"
    /\ id_orig[p] # -1 /\ id_dest[p] # -1
    /\ vuelo' = db_vuelo_insertar(vuelo, Actual(p)[1], id_orig[p], id_dest[p])
CambioBillete ==
  \/ billete' = db_limpiar_billetes(billete)
  \/ /\ id_vuelo # -1
     /\ billete' = billete_insertar(billete, ID_PASAJERO, id_vuelo)

\* A table changes by one INSERT, or, for the tickets, by a DELETE; at most
\* one of them changes in a step.
LEMMA Cambios ==
  ASSUME [Next]_vars
  PROVE  \/ UNCHANGED archivo
         \/ CambioAeropuerto /\ UNCHANGED <<usuario, equipaje, vuelo, billete>>
         \/ CambioUsuario /\ UNCHANGED <<aeropuerto, equipaje, vuelo, billete>>
         \/ CambioEquipaje /\ UNCHANGED <<aeropuerto, usuario, vuelo, billete>>
         \/ CambioVuelo /\ UNCHANGED <<aeropuerto, usuario, equipaje, billete>>
         \/ CambioBillete /\ UNCHANGED <<aeropuerto, usuario, equipaje, vuelo>>
<1> DEFINE Meta ==
         \/ UNCHANGED archivo
         \/ CambioAeropuerto /\ UNCHANGED <<usuario, equipaje, vuelo, billete>>
         \/ CambioUsuario /\ UNCHANGED <<aeropuerto, equipaje, vuelo, billete>>
         \/ CambioEquipaje /\ UNCHANGED <<aeropuerto, usuario, vuelo, billete>>
         \/ CambioVuelo /\ UNCHANGED <<aeropuerto, usuario, equipaje, billete>>
         \/ CambioBillete /\ UNCHANGED <<aeropuerto, usuario, equipaje, vuelo>>
<1>1. ASSUME NEW p \in Procesos, Arrancar(p) PROVE Meta
  BY <1>1 DEF Arrancar, CambioBillete, archivo
<1>2. ASSUME NEW p \in Procesos, FilaAeropuerto(p) PROVE Meta
  BY <1>2 DEF FilaAeropuerto, CambioAeropuerto, archivo
<1>3. ASSUME NEW p \in Procesos, FilaUsuario(p) PROVE Meta
  BY <1>3 DEF FilaUsuario, CambioUsuario, archivo
<1>4. ASSUME NEW p \in Procesos, FilaEquipaje(p) PROVE Meta
  BY <1>4 DEF FilaEquipaje, CambioEquipaje, archivo
<1>5. ASSUME NEW p \in Procesos, FilaVuelo(p) PROVE Meta
  BY <1>5 DEF FilaVuelo, CambioVuelo, archivo
<1>6. CASE SegundoServidor
  BY <1>6 DEF SegundoServidor, CambioBillete
<1>7. CASE InsertarBillete
  BY <1>7 DEF InsertarBillete, CambioBillete, archivo
<1>8. ASSUME NEW p \in Procesos,
             \/ Caer(p) \/ EmpezarCarga(p) \/ AbrirCSV(p) \/ FaltaCSV(p)
             \/ CerrarCSV(p) \/ SaltarLinea(p) \/ BuscarOrigen(p)
             \/ BuscarDestino(p) \/ EmpezarListado(p) \/ TerminarListado(p)
      PROVE  UNCHANGED archivo
  BY <1>8 DEF Caer, EmpezarCarga, AbrirCSV, FaltaCSV, CerrarCSV, SaltarLinea,
              BuscarOrigen, BuscarDestino, EmpezarListado, TerminarListado
<1>9. ASSUME NEW cod, BuscarVuelo(cod) PROVE UNCHANGED archivo
  BY <1>9 DEF BuscarVuelo
<1>10. CASE UNCHANGED vars
  BY <1>10 DEF vars
<1> QED
  BY <1>1, <1>2, <1>3, <1>4, <1>5, <1>6, <1>7, <1>8, <1>9, <1>10
  DEF Next, PasoDeCarga

----------------------------------------------------------------------------
(* Each key is stored once *)

LEMMA ClavesNext == ClavesUnicas /\ [Next]_vars => ClavesUnicas'
<1> SUFFICES ASSUME ClavesUnicas, [Next]_vars PROVE ClavesUnicas'
  OBVIOUS
<1>1. CASE CambioAeropuerto /\ UNCHANGED <<usuario, equipaje>>
  BY <1>1 DEF ClavesUnicas, CambioAeropuerto, db_aeropuerto_insertar, Insertar, Ignorar
<1>2. CASE CambioUsuario /\ UNCHANGED <<aeropuerto, equipaje>>
  BY <1>2 DEF ClavesUnicas, CambioUsuario, db_usuario_insertar, Insertar, Ignorar
<1>3. CASE CambioEquipaje /\ UNCHANGED <<aeropuerto, usuario>>
  BY <1>3 DEF ClavesUnicas, CambioEquipaje, db_equipaje_insertar, Insertar, Ignorar
<1>4. CASE UNCHANGED <<aeropuerto, usuario, equipaje>>
  BY <1>4 DEF ClavesUnicas
<1> QED BY <1>1, <1>2, <1>3, <1>4, Cambios DEF archivo

\* However many processes load however often, cut short or not, an airport,
\* a passenger and a piece of luggage are stored once.
THEOREM ClavesSiempreUnicas == Spec => []ClavesUnicas
<1>1. Init => ClavesUnicas
  BY DEF Init, ClavesUnicas, TablaVacia
<1> QED BY <1>1, ClavesNext, PTL DEF Spec

----------------------------------------------------------------------------
(* The inductive invariant behind the other properties *)

\* A process is inside a line of vuelos only while it has that line.
PasoEnLinea == \A p \in Procesos : paso[p] # "origen" => EnLinea(p, "vuelos")

\* The ids it has looked up are those of the airports the line names.
RutaLeida ==
  \A p \in Procesos :
    /\ paso[p] # "origen" /\ id_orig[p] # -1
         => TieneCodigo(id_orig[p], Actual(p)[3])
    /\ paso[p] = "insertar" /\ id_dest[p] # -1
         => TieneCodigo(id_dest[p], Actual(p)[4])

\* The flight a purchase has read is still there.
VueloLeido == id_vuelo # -1 => \E v \in vuelo.filas : id_vuelo = v.id

\* Every loadable line of t is in the database.
Hecha(t) == \A l \in Validas(t) : Cargable(t, l) => Llega(t, l)

Antes == [aeropuertos |-> {}, vuelos |-> {"aeropuertos"},
          usuarios |-> {"aeropuertos", "vuelos"},
          equipajes |-> {"aeropuertos", "vuelos", "usuarios"}]

\* Line i of t, if it can be stored at all, is in the database.
LineaLlegada(t, i) ==
  LET l == Campos(Fichero[t][i])
  IN  l \in Validas(t) /\ Cargable(t, l) => Llega(t, l)

\* A load that has lost nothing so far has brought in everything it has read.
Avance ==
  \A p \in Procesos : fase[p] \in Tablas /\ ~fallo[p] =>
    /\ \A t \in Antes[fase[p]] : Hecha(t)
    /\ \A i \in DOMAIN Fichero[fase[p]] :
         i < linea[p] => LineaLlegada(fase[p], i)

\* A process that is not loading has no file open.
LineaCero == \A p \in Procesos : fase[p] \notin Tablas => linea[p] = 0

\* ... and, inside a line of vuelos, has found its airports.
RutaHallada ==
  \A p \in Procesos :
    paso[p] # "origen" /\ ~fallo[p] /\ Cargable("vuelos", Actual(p)) =>
      /\ id_orig[p] # -1
      /\ paso[p] = "insertar" => id_dest[p] # -1

----------------------------------------------------------------------------
(* Lemmas on steps *)

\* Rows of the four loaded tables stay.
LEMMA Crecen ==
  ASSUME [Next]_vars
  PROVE  /\ aeropuerto.filas \subseteq aeropuerto'.filas
         /\ usuario.filas \subseteq usuario'.filas
         /\ equipaje.filas \subseteq equipaje'.filas
         /\ vuelo.filas \subseteq vuelo'.filas
<1>1. CASE CambioAeropuerto /\ UNCHANGED <<usuario, equipaje, vuelo>>
  BY <1>1 DEF CambioAeropuerto, db_aeropuerto_insertar, Insertar, Ignorar
<1>2. CASE CambioUsuario /\ UNCHANGED <<aeropuerto, equipaje, vuelo>>
  BY <1>2 DEF CambioUsuario, db_usuario_insertar, Insertar, Ignorar
<1>3. CASE CambioEquipaje /\ UNCHANGED <<aeropuerto, usuario, vuelo>>
  BY <1>3 DEF CambioEquipaje, db_equipaje_insertar, Insertar, Ignorar
<1>4. CASE CambioVuelo /\ UNCHANGED <<aeropuerto, usuario, equipaje>>
  BY <1>4 DEF CambioVuelo, db_vuelo_insertar, Insertar
<1> QED BY <1>1, <1>2, <1>3, <1>4, Cambios DEF archivo

LEMMA TieneCrece ==
  ASSUME [Next]_vars, NEW id, NEW cod, TieneCodigo(id, cod)
  PROVE  TieneCodigo(id, cod)'
BY Crecen DEF TieneCodigo

LEMMA LlegaCrece ==
  ASSUME [Next]_vars, NEW t \in Tablas, NEW l, Llega(t, l)
  PROVE  Llega(t, l)'
<1>1. CASE t = "aeropuertos"
  BY <1>1, Crecen DEF Llega
<1>2. CASE t = "usuarios"
  BY <1>2, Crecen DEF Llega
<1>3. CASE t = "equipajes"
  BY <1>3, Crecen DEF Llega
<1>4. CASE t = "vuelos"
  BY <1>4, Crecen, TieneCrece DEF Llega
<1> QED BY <1>1, <1>2, <1>3, <1>4 DEF Tablas, Minimo

\* Nothing of process p changes.
Quieto(p) ==
  /\ fase'[p] = fase[p] /\ linea'[p] = linea[p] /\ paso'[p] = paso[p]
  /\ id_orig'[p] = id_orig[p] /\ id_dest'[p] = id_dest[p]
  /\ fallo'[p] = fallo[p]

\* A step of p outside its load.
Ajeno(p) ==
  /\ \/ Arrancar(p) \/ EmpezarCarga(p) \/ EmpezarListado(p) \/ TerminarListado(p)
     \/ p = "servidor" /\ ((\E cod : BuscarVuelo(cod)) \/ InsertarBillete)
  /\ fase[p] \notin Tablas
  /\ fase'[p] \notin Tablas \ {"aeropuertos"}
  /\ linea'[p] = linea[p]
  /\ UNCHANGED locales

LEMMA PasosDeProceso ==
  ASSUME TypeOK, [Next]_vars, NEW p \in Procesos
  PROVE  Quieto(p) \/ Ajeno(p) \/ Caer(p) \/ PasoDeCarga(p)
<1> USE DEF TypeOK, Quieto
<1>1. ASSUME NEW q \in Procesos, Arrancar(q) PROVE Quieto(p) \/ Ajeno(p)
  BY <1>1 DEF Arrancar, Ajeno, Tablas, Minimo, locales
<1>2. ASSUME NEW q \in Procesos, EmpezarCarga(q) PROVE Quieto(p) \/ Ajeno(p)
  BY <1>2 DEF EmpezarCarga, Ajeno, Tablas, Minimo, locales
<1>3. ASSUME NEW q \in Procesos, EmpezarListado(q) \/ TerminarListado(q)
      PROVE  Quieto(p) \/ Ajeno(p)
  BY <1>3 DEF EmpezarListado, TerminarListado, Ajeno, Tablas, Minimo, locales
<1>4. ASSUME NEW cod, BuscarVuelo(cod) PROVE Quieto(p) \/ Ajeno(p)
  BY <1>4 DEF BuscarVuelo, Ajeno, Tablas, Minimo, locales
<1>5. CASE InsertarBillete
  BY <1>5 DEF InsertarBillete, Ajeno, Tablas, Minimo, locales
<1>6. ASSUME NEW q \in Procesos, Caer(q), q # p PROVE Quieto(p)
  BY <1>6 DEF Caer
<1>7. ASSUME NEW q \in Procesos, PasoDeCarga(q), q # p PROVE Quieto(p)
  <2>1. CASE AbrirCSV(q) \/ FaltaCSV(q) \/ CerrarCSV(q) \/ SaltarLinea(q)
    BY <1>7, <2>1 DEF AbrirCSV, FaltaCSV, CerrarCSV, SaltarLinea, Avanzar, locales
  <2>2. CASE FilaAeropuerto(q) \/ FilaUsuario(q) \/ FilaEquipaje(q)
    BY <1>7, <2>2 DEF FilaAeropuerto, FilaUsuario, FilaEquipaje, Avanzar, Bloqueada,
                      locales
  <2>3. CASE BuscarOrigen(q)
    BY <1>7, <2>3 DEF BuscarOrigen, Bloqueada
  <2>4. CASE BuscarDestino(q)
    BY <1>7, <2>4 DEF BuscarDestino, Bloqueada
  <2>5. CASE FilaVuelo(q)
    BY <1>7, <2>5 DEF FilaVuelo, Bloqueada, Avanzar
  <2> QED BY <1>7, <2>1, <2>2, <2>3, <2>4, <2>5 DEF PasoDeCarga
<1>8. CASE SegundoServidor
  BY <1>8 DEF SegundoServidor, locales
<1>9. CASE UNCHANGED vars
  BY <1>9 DEF vars, locales
<1> QED
  BY <1>1, <1>2, <1>3, <1>4, <1>5, <1>6, <1>7, <1>8, <1>9 DEF Next

----------------------------------------------------------------------------
(* Routes and references *)

LEMMA PasoNext == TypeOK /\ PasoEnLinea /\ [Next]_vars => PasoEnLinea'
<1> SUFFICES ASSUME TypeOK, PasoEnLinea, [Next]_vars,
                    NEW p \in Procesos, paso'[p] # "origen"
             PROVE  EnLinea(p, "vuelos")'
  BY DEF PasoEnLinea
<1> USE DEF TypeOK
<1>1. CASE Quieto(p)
  BY <1>1 DEF Quieto, PasoEnLinea, EnLinea, Actual
<1>2. CASE Ajeno(p)
  BY <1>2 DEF Ajeno, PasoEnLinea, EnLinea, locales, Tablas, Minimo
<1>3. CASE Caer(p)
  BY <1>3 DEF Caer
<1>4. CASE BuscarOrigen(p) \/ BuscarDestino(p)
  BY <1>4 DEF BuscarOrigen, BuscarDestino, EnLinea, Actual
<1>5. CASE FilaVuelo(p)
  BY <1>5 DEF FilaVuelo
<1>6. CASE FilaAeropuerto(p) \/ FilaUsuario(p) \/ FilaEquipaje(p)
  BY <1>6 DEF FilaAeropuerto, FilaUsuario, FilaEquipaje, EnLinea, PasoEnLinea, locales
<1>7. CASE AbrirCSV(p) \/ FaltaCSV(p) \/ CerrarCSV(p) \/ SaltarLinea(p)
  <2>1. Fichero["vuelos"] \in Seq(Seq(STRING))
    BY FicheroAssumption DEF Tablas, Minimo
  <2>2. paso[p] # "origen"
    BY <1>7 DEF AbrirCSV, FaltaCSV, CerrarCSV, SaltarLinea, locales
  <2>3. /\ fase[p] = "vuelos" /\ linea[p] \in 1..Len(Fichero["vuelos"])
        /\ Len(Actual(p)) >= Minimo["vuelos"]
    BY <2>1, <2>2 DEF PasoEnLinea, EnLinea
  <2> QED BY <1>7, <2>1, <2>3 DEF AbrirCSV, FaltaCSV, CerrarCSV, SaltarLinea
<1> QED BY <1>1, <1>2, <1>3, <1>4, <1>5, <1>6, <1>7, PasosDeProceso DEF PasoDeCarga

\* Outside BuscarOrigen, BuscarDestino and FilaVuelo, a process that ends a
\* step inside a line of vuelos has not moved.
LEMMA EnLineaQuieto ==
  ASSUME TypeOK, PasoEnLinea, [Next]_vars, NEW p \in Procesos, paso'[p] # "origen",
         ~ BuscarOrigen(p), ~ BuscarDestino(p)
  PROVE  /\ paso'[p] = paso[p] /\ id_orig'[p] = id_orig[p]
         /\ id_dest'[p] = id_dest[p] /\ Actual(p)' = Actual(p)
         /\ fallo'[p] = fallo[p]
<1> USE DEF TypeOK
<1>1. PasoEnLinea'
  BY PasoNext
<1>2. CASE Quieto(p)
  BY <1>2 DEF Quieto, Actual
<1>3. CASE Ajeno(p)
  BY <1>1, <1>3 DEF Ajeno, PasoEnLinea, EnLinea, Tablas, Minimo, locales
<1>4. CASE Caer(p) \/ FilaVuelo(p)
  BY <1>4 DEF Caer, FilaVuelo
<1>5. CASE \/ FilaAeropuerto(p) \/ FilaUsuario(p) \/ FilaEquipaje(p)
           \/ AbrirCSV(p) \/ FaltaCSV(p) \/ CerrarCSV(p) \/ SaltarLinea(p)
  <2>1. Fichero["vuelos"] \in Seq(Seq(STRING))
    BY FicheroAssumption DEF Tablas, Minimo
  <2>2. paso[p] # "origen"
    BY <1>5 DEF FilaAeropuerto, FilaUsuario, FilaEquipaje, AbrirCSV, FaltaCSV,
                CerrarCSV, SaltarLinea, locales
  <2>3. /\ fase[p] = "vuelos" /\ linea[p] \in 1..Len(Fichero["vuelos"])
        /\ Len(Actual(p)) >= Minimo["vuelos"]
    BY <2>1, <2>2 DEF PasoEnLinea, EnLinea
  <2> QED BY <1>5, <2>1, <2>3 DEF FilaAeropuerto, FilaUsuario, FilaEquipaje, EnLinea,
                AbrirCSV, FaltaCSV, CerrarCSV, SaltarLinea
<1> QED BY <1>2, <1>3, <1>4, <1>5, PasosDeProceso DEF PasoDeCarga

LEMMA RutaLeidaNext ==
  TypeOK /\ PasoEnLinea /\ RutaLeida /\ [Next]_vars => RutaLeida'
<1> SUFFICES ASSUME TypeOK, PasoEnLinea, RutaLeida, [Next]_vars,
                    NEW p \in Procesos, paso'[p] # "origen"
             PROVE  /\ (id_orig[p] # -1 => TieneCodigo(id_orig[p], Actual(p)[3]))'
                    /\ (paso[p] = "insertar" /\ id_dest[p] # -1
                          => TieneCodigo(id_dest[p], Actual(p)[4]))'
  BY DEF RutaLeida
<1> USE DEF TypeOK
<1>1. CASE BuscarOrigen(p)
  <2>1. Actual(p)' = Actual(p) /\ UNCHANGED aeropuerto /\ paso'[p] = "destino"
    BY <1>1 DEF BuscarOrigen, Actual, archivo
  <2>2. \/ id_orig'[p] = db_aeropuerto_buscar_codigo(aeropuerto, Actual(p)[3])
        \/ id_orig'[p] = -1
    BY <1>1 DEF BuscarOrigen
  <2>3. id_orig'[p] # -1 => TieneCodigo(id_orig'[p], Actual(p)[3])
    BY <2>2, BuscarAeropuerto DEF TieneCodigo
  <2> QED BY <2>1, <2>3 DEF TieneCodigo
<1>2. CASE BuscarDestino(p)
  <2>1. /\ Actual(p)' = Actual(p) /\ UNCHANGED <<aeropuerto, id_orig>>
        /\ paso[p] = "destino"
    BY <1>2 DEF BuscarDestino, Actual, archivo
  <2>2. \/ id_dest'[p] = db_aeropuerto_buscar_codigo(aeropuerto, Actual(p)[4])
        \/ id_dest'[p] = -1
    BY <1>2 DEF BuscarDestino
  <2>3. id_dest'[p] # -1 => TieneCodigo(id_dest'[p], Actual(p)[4])
    BY <2>2, BuscarAeropuerto DEF TieneCodigo
  <2>4. id_orig[p] # -1 => TieneCodigo(id_orig[p], Actual(p)[3])
    BY <2>1 DEF RutaLeida
  <2> QED BY <2>1, <2>3, <2>4 DEF TieneCodigo
<1>3. CASE ~ BuscarOrigen(p) /\ ~ BuscarDestino(p)
  <2>1. /\ paso'[p] = paso[p] /\ id_orig'[p] = id_orig[p]
        /\ id_dest'[p] = id_dest[p] /\ Actual(p)' = Actual(p)
    BY <1>3, EnLineaQuieto
  <2>2. aeropuerto.filas \subseteq aeropuerto'.filas
    BY Crecen
  <2> QED BY <2>1, <2>2 DEF RutaLeida, TieneCodigo
<1> QED BY <1>1, <1>2, <1>3

LEMMA RutaNext ==
  TypeOK /\ RutaLeida /\ RutaCorrecta /\ [Next]_vars => RutaCorrecta'
<1> SUFFICES ASSUME TypeOK, RutaLeida, RutaCorrecta, [Next]_vars, NEW v \in vuelo'.filas
             PROVE  \E l \in Validas("vuelos") :
                      /\ l[1] = v.cod_vuelo
                      /\ TieneCodigo(v.id_origen, l[3])'
                      /\ TieneCodigo(v.id_destino, l[4])'
  BY DEF RutaCorrecta
<1>1. CASE v \in vuelo.filas
  BY <1>1, TieneCrece DEF RutaCorrecta
<1>2. CASE v \notin vuelo.filas
  <2>1. CambioVuelo
    BY <1>2, Cambios DEF archivo
  <2>2. PICK p \in Procesos :
          /\ EnLinea(p, "vuelos") /\ paso[p] = "insertar"
          /\ id_orig[p] # -1 /\ id_dest[p] # -1
          /\ vuelo' = db_vuelo_insertar(vuelo, Actual(p)[1], id_orig[p], id_dest[p])
    BY <2>1 DEF CambioVuelo
  <2>3. /\ v.cod_vuelo = Actual(p)[1]
        /\ v.id_origen = id_orig[p] /\ v.id_destino = id_dest[p]
    BY <1>2, <2>2 DEF db_vuelo_insertar, Insertar
  <2>4. TieneCodigo(id_orig[p], Actual(p)[3]) /\ TieneCodigo(id_dest[p], Actual(p)[4])
    BY <2>2 DEF RutaLeida
  <2>5. Actual(p) \in Validas("vuelos")
    BY <2>2, LineaValida
  <2> QED BY <2>3, <2>4, <2>5, TieneCrece
<1> QED BY <1>1, <1>2

\* Every flight stored joins the airports its line of the CSV names, with any
\* interleaving of loads, and any statements lost.
THEOREM RutaSiempreCorrecta == Spec => []RutaCorrecta
<1> DEFINE IInv == TypeOK /\ PasoEnLinea /\ RutaLeida /\ RutaCorrecta
<1>1. Init => IInv
  BY TipoInit DEF Init, PasoEnLinea, RutaLeida, RutaCorrecta, TablaVacia
<1>2. IInv /\ [Next]_vars => IInv'
  BY TipoNext, PasoNext, RutaLeidaNext, RutaNext
<1>3. IInv => RutaCorrecta
  OBVIOUS
<1> QED BY <1>1, <1>2, <1>3, PTL DEF Spec

LEMMA VueloLeidoNext == TypeOK /\ VueloLeido /\ [Next]_vars => VueloLeido'
<1> SUFFICES ASSUME TypeOK, VueloLeido, [Next]_vars, id_vuelo' # -1
             PROVE  \E v \in vuelo'.filas : id_vuelo' = v.id
  BY DEF VueloLeido
<1>1. vuelo.filas \subseteq vuelo'.filas
  BY Crecen
<1>2. ASSUME NEW cod, BuscarVuelo(cod) PROVE \E v \in vuelo.filas : id_vuelo' = v.id
  <2>1. id_vuelo' = vuelo_buscar_codigo(vuelo, cod)
    BY <1>2 DEF BuscarVuelo
  <2> QED BY <2>1, BuscarVueloId DEF TypeOK
<1>3. CASE id_vuelo' = id_vuelo
  BY <1>1, <1>3 DEF VueloLeido
<1>4. CASE InsertarBillete
  BY <1>4 DEF InsertarBillete
<1>5. ASSUME NEW p \in Procesos, Caer(p) PROVE id_vuelo' = id_vuelo
  BY <1>5 DEF Caer
<1>6. (\E cod : BuscarVuelo(cod)) \/ InsertarBillete \/ (\E p \in Procesos : Caer(p))
        \/ id_vuelo' = id_vuelo
  BY DEF Next, PasoDeCarga, vars, Arrancar, EmpezarCarga, AbrirCSV, FaltaCSV, CerrarCSV,
         SaltarLinea, FilaAeropuerto, FilaUsuario, FilaEquipaje, BuscarOrigen,
         BuscarDestino, FilaVuelo, EmpezarListado, TerminarListado, SegundoServidor
<1> QED BY <1>1, <1>2, <1>3, <1>4, <1>5, <1>6

LEMMA BilleteNext ==
  TypeOK /\ VueloLeido /\ BilleteConVuelo /\ [Next]_vars => BilleteConVuelo'
<1> SUFFICES ASSUME TypeOK, VueloLeido, BilleteConVuelo, [Next]_vars, NEW b \in billete'.filas
             PROVE  \E v \in vuelo'.filas : b.id_vuelo = v.id
  BY DEF BilleteConVuelo
<1>1. vuelo.filas \subseteq vuelo'.filas
  BY Crecen
<1>2. CASE b \in billete.filas
  BY <1>1, <1>2 DEF BilleteConVuelo
<1>3. CASE b \notin billete.filas
  <2>1. CambioBillete
    BY <1>3, Cambios DEF archivo
  <2>2. id_vuelo # -1 /\ b.id_vuelo = id_vuelo
    BY <1>3, <2>1 DEF CambioBillete, db_limpiar_billetes, billete_insertar, Insertar,
                      TypeOK, Tabla
  <2> QED BY <1>1, <2>2 DEF VueloLeido
<1> QED BY <1>2, <1>3

\* No ticket ever points to a flight that is not there.
THEOREM BilletesConVuelo == Spec => []BilleteConVuelo
<1> DEFINE IInv == TypeOK /\ VueloLeido /\ BilleteConVuelo
<1>1. Init => IInv
  BY TipoInit DEF Init, VueloLeido, BilleteConVuelo, TablaVacia
<1>2. IInv /\ [Next]_vars => IInv'
  BY TipoNext, VueloLeidoNext, BilleteNext
<1>3. IInv => BilleteConVuelo
  OBVIOUS
<1> QED BY <1>1, <1>2, <1>3, PTL DEF Spec

----------------------------------------------------------------------------
(* A load without losses brings everything in *)

LEMMA LineaCeroNext == TypeOK /\ LineaCero /\ [Next]_vars => LineaCero'
<1> SUFFICES ASSUME TypeOK, LineaCero, [Next]_vars,
                    NEW p \in Procesos, fase'[p] \notin Tablas
             PROVE  linea'[p] = 0
  BY DEF LineaCero
<1> USE DEF TypeOK
<1>1. CASE Quieto(p)
  BY <1>1 DEF Quieto, LineaCero
<1>2. CASE Ajeno(p)
  BY <1>2 DEF Ajeno, LineaCero
<1>3. CASE Caer(p)
  BY <1>3 DEF Caer
<1>4. CASE FaltaCSV(p) \/ CerrarCSV(p)
  BY <1>4 DEF FaltaCSV, CerrarCSV
<1>5. CASE AbrirCSV(p) \/ SaltarLinea(p)
  BY <1>5 DEF AbrirCSV, SaltarLinea
<1>6. CASE \/ FilaAeropuerto(p) \/ FilaUsuario(p) \/ FilaEquipaje(p)
           \/ BuscarOrigen(p) \/ BuscarDestino(p) \/ FilaVuelo(p)
  BY <1>6 DEF FilaAeropuerto, FilaUsuario, FilaEquipaje, BuscarOrigen,
              BuscarDestino, FilaVuelo, EnLinea, Tablas, Minimo
<1> QED BY <1>1, <1>2, <1>3, <1>4, <1>5, <1>6, PasosDeProceso DEF PasoDeCarga

LEMMA HechaCrece ==
  ASSUME [Next]_vars, NEW t \in Tablas, Hecha(t)
  PROVE  Hecha(t)'
BY LlegaCrece DEF Hecha, Cargable

LEMMA LineaLlegadaCrece ==
  ASSUME [Next]_vars, NEW t \in Tablas, NEW i, LineaLlegada(t, i)
  PROVE  LineaLlegada(t, i)'
BY LlegaCrece DEF LineaLlegada

\* A lookup of an airport of the file of airports, once that file is in,
\* finds it.
LEMMA AeropuertoHallado ==
  ASSUME TypeOK, Hecha("aeropuertos"), NEW cod \in Columna("aeropuertos", 1)
  PROVE  db_aeropuerto_buscar_codigo(aeropuerto, cod) # -1
<1>1. PICK l \in Validas("aeropuertos") : l[1] = cod
  BY DEF Columna
<1>2. \E f \in aeropuerto.filas : f.codigo = cod
  BY <1>1 DEF Hecha, Cargable, Llega
<1> QED BY <1>2, BuscarAeropuerto DEF TypeOK

LEMMA RutaHalladaNext ==
  TypeOK /\ PasoEnLinea /\ Avance /\ RutaHallada /\ [Next]_vars => RutaHallada'
<1> SUFFICES ASSUME TypeOK, PasoEnLinea, Avance, RutaHallada, [Next]_vars,
                    NEW p \in Procesos, paso'[p] # "origen", ~fallo'[p],
                    Cargable("vuelos", Actual(p))'
             PROVE  id_orig'[p] # -1 /\ (paso'[p] = "insertar" => id_dest'[p] # -1)
  BY DEF RutaHallada
<1> USE DEF TypeOK
<1>1. ASSUME EnLinea(p, "vuelos"), ~fallo[p] PROVE Hecha("aeropuertos")
  BY <1>1 DEF EnLinea, Avance, Antes, Tablas, Minimo
<1>2. CASE BuscarOrigen(p)
  <2>1. /\ EnLinea(p, "vuelos") /\ Actual(p)' = Actual(p) /\ paso'[p] = "destino"
        /\ ~fallo[p]
        /\ id_orig'[p] = db_aeropuerto_buscar_codigo(aeropuerto, Actual(p)[3])
    BY <1>2 DEF BuscarOrigen, Bloqueada, Actual
  <2>2. Actual(p)[3] \in Columna("aeropuertos", 1)
    BY <2>1 DEF Cargable
  <2> QED BY <1>1, <2>1, <2>2, AeropuertoHallado
<1>3. CASE BuscarDestino(p)
  <2>1. /\ EnLinea(p, "vuelos") /\ Actual(p)' = Actual(p) /\ paso[p] = "destino"
        /\ ~fallo[p] /\ id_orig' = id_orig
        /\ id_dest'[p] = db_aeropuerto_buscar_codigo(aeropuerto, Actual(p)[4])
    BY <1>3 DEF BuscarDestino, Bloqueada, Actual
  <2>2. Actual(p)[4] \in Columna("aeropuertos", 1)
    BY <2>1 DEF Cargable
  <2>3. id_orig[p] # -1
    BY <2>1 DEF RutaHallada, Cargable
  <2> QED BY <1>1, <2>1, <2>2, <2>3, AeropuertoHallado
<1>4. CASE ~ BuscarOrigen(p) /\ ~ BuscarDestino(p)
  <2>1. /\ paso'[p] = paso[p] /\ id_orig'[p] = id_orig[p]
        /\ id_dest'[p] = id_dest[p] /\ Actual(p)' = Actual(p)
        /\ fallo'[p] = fallo[p]
    BY <1>4, EnLineaQuieto
  <2> QED BY <2>1 DEF RutaHallada, Cargable
<1> QED BY <1>2, <1>3, <1>4

\* After an INSERT [OR IGNORE] some row has the key it was given.
LEMMA InsertarPone ==
  ASSUME NEW Fila, NEW t \in Tabla(Fila)
  PROVE  /\ \A f : f \in Insertar(t, f).filas
         /\ Ignorar(t).filas = t.filas
BY DEF Tabla, Insertar, Ignorar

LEMMA AeropuertoPuesto ==
  ASSUME NEW t \in Tabla(FilaDeAeropuerto), NEW cod
  PROVE  \E f \in db_aeropuerto_insertar(t, cod).filas : f.codigo = cod
<1> DEFINE r == [id |-> t.seq + 1, codigo |-> cod]
<1>1. r.codigo = cod /\ r \in Insertar(t, r).filas
  BY InsertarPone
<1> QED BY <1>1, InsertarPone DEF db_aeropuerto_insertar

LEMMA UsuarioPuesto ==
  ASSUME NEW t \in Tabla(FilaDeUsuario), NEW dni, NEW email
  PROVE  \E f \in db_usuario_insertar(t, dni, email).filas :
           f.dni = dni \/ f.email = email
<1> DEFINE r == [id |-> t.seq + 1, dni |-> dni, email |-> email]
<1>1. r.dni = dni /\ r \in Insertar(t, r).filas
  BY InsertarPone
<1> QED BY <1>1, InsertarPone DEF db_usuario_insertar

LEMMA EquipajePuesto ==
  ASSUME NEW t \in Tabla(FilaDeEquipaje), NEW cod, NEW dni, NEW v
  PROVE  \E f \in db_equipaje_insertar(t, cod, dni, v).filas : f.codigo = cod
<1> DEFINE r == [id |-> t.seq + 1, codigo |-> cod, dni |-> dni, id_vuelo |-> v]
<1>1. r.codigo = cod /\ r \in Insertar(t, r).filas
  BY InsertarPone
<1> QED BY <1>1, InsertarPone DEF db_equipaje_insertar

LEMMA VueloPuesto ==
  ASSUME NEW t \in Tabla(FilaDeVuelo), NEW cod, NEW o, NEW d
  PROVE  \E f \in db_vuelo_insertar(t, cod, o, d).filas :
           f.cod_vuelo = cod /\ f.id_origen = o /\ f.id_destino = d
<1> DEFINE r == [id |-> t.seq + 1, cod_vuelo |-> cod, id_origen |-> o, id_destino |-> d]
<1>1. /\ r.cod_vuelo = cod /\ r.id_origen = o /\ r.id_destino = d
      /\ r \in Insertar(t, r).filas
  BY InsertarPone
<1> QED BY <1>1 DEF db_vuelo_insertar

\* The line p has just dealt with is in the database.
LEMMA FilaLlega ==
  ASSUME TypeOK, RutaLeida, RutaHallada, [Next]_vars, NEW p \in Procesos,
         \/ FilaAeropuerto(p) \/ FilaUsuario(p) \/ FilaEquipaje(p) \/ FilaVuelo(p),
         ~fallo'[p], NEW t, t = fase[p], NEW i, i = linea[p]
  PROVE  LineaLlegada(t, i)'
<1> DEFINE l == Campos(Fichero[t][i])
<1> SUFFICES ASSUME Cargable(t, l) PROVE Llega(t, l)'
  BY DEF LineaLlegada, Cargable
<1>0. l = Actual(p)
  BY DEF Actual
<1> HIDE DEF l
<1> USE DEF TypeOK
<1>1. CASE FilaAeropuerto(p)
  <2>1. /\ t = "aeropuertos"
        /\ aeropuerto' = db_aeropuerto_insertar(aeropuerto, l[1])
    BY <1>0, <1>1 DEF FilaAeropuerto, EnLinea, Bloqueada
  <2>2. \E f \in aeropuerto'.filas : f.codigo = l[1]
    BY <2>1, AeropuertoPuesto
  <2> QED BY <2>1, <2>2 DEF Llega
<1>2. CASE FilaUsuario(p)
  <2>1. /\ t = "usuarios"
        /\ usuario' = db_usuario_insertar(usuario, l[1], l[4])
    BY <1>0, <1>2 DEF FilaUsuario, EnLinea, Bloqueada
  <2>2. \E f \in usuario'.filas : f.dni = l[1] \/ f.email = l[4]
    BY <2>1, UsuarioPuesto
  <2> QED BY <2>1, <2>2 DEF Llega
<1>3. CASE FilaEquipaje(p)
  <2>1. /\ t = "equipajes"
        /\ equipaje' = db_equipaje_insertar(equipaje, l[1], l[2], atoi(l[3]))
    BY <1>0, <1>3 DEF FilaEquipaje, EnLinea, Bloqueada
  <2>2. \E f \in equipaje'.filas : f.codigo = l[1]
    BY <2>1, EquipajePuesto
  <2> QED BY <2>1, <2>2 DEF Llega
<1>4. CASE FilaVuelo(p)
  <2> DEFINE o == id_orig[p]
             d == id_dest[p]
  <2>1. t = "vuelos" /\ paso[p] = "insertar" /\ ~fallo[p]
    BY <1>4 DEF FilaVuelo, EnLinea, Bloqueada
  <2>2. o # -1 /\ d # -1
    BY <1>0, <2>1 DEF RutaHallada
  <2>3. vuelo' = db_vuelo_insertar(vuelo, l[1], o, d)
    BY <1>0, <1>4, <2>2 DEF FilaVuelo, Bloqueada
  <2>4. \E v \in vuelo'.filas : v.cod_vuelo = l[1] /\ v.id_origen = o /\ v.id_destino = d
    BY <2>3, VueloPuesto
  <2>5. TieneCodigo(o, l[3]) /\ TieneCodigo(d, l[4])
    BY <1>0, <2>1, <2>2 DEF RutaLeida
  <2>6. aeropuerto.filas \subseteq aeropuerto'.filas
    BY Crecen
  <2> QED BY <2>1, <2>4, <2>5, <2>6 DEF Llega, TieneCodigo
<1> QED BY <1>1, <1>2, <1>3, <1>4

LEMMA AvanceNext ==
  TypeOK /\ LineaCero /\ RutaLeida /\ RutaHallada /\ Avance /\ [Next]_vars => Avance'
<1> SUFFICES ASSUME TypeOK, LineaCero, RutaLeida, RutaHallada, Avance, [Next]_vars,
                    NEW p \in Procesos, fase'[p] \in Tablas, ~fallo'[p],
                    NEW u, u = fase'[p]
             PROVE  /\ \A t \in Antes[u] : Hecha(t)'
                    /\ \A i \in DOMAIN Fichero[u] : i < linea'[p] => LineaLlegada(u, i)'
  BY DEF Avance
<1> USE DEF TypeOK
<1>1. \A t \in Antes[u] : t \in Tablas
  BY DEF Antes, Tablas, Minimo
<1>2. ASSUME fase[p] = u, ~fallo[p]
      PROVE  /\ \A t \in Antes[u] : Hecha(t)'
             /\ \A i \in DOMAIN Fichero[u] : i < linea[p] => LineaLlegada(u, i)'
  BY <1>1, <1>2, HechaCrece, LineaLlegadaCrece DEF Avance
<1>3. CASE Quieto(p)
  BY <1>2, <1>3 DEF Quieto
<1>4. Fichero[u] \in Seq(Seq(STRING))
  BY FicheroAssumption
<1>5. CASE Ajeno(p)
  <2>1. u = "aeropuertos" /\ linea'[p] = 0
    BY <1>5 DEF Ajeno, LineaCero
  <2> QED BY <1>4, <2>1 DEF Antes
<1>6. CASE Caer(p)
  BY <1>6 DEF Caer, Tablas, Minimo
<1>7. CASE AbrirCSV(p)
  <2>1. fase[p] = u /\ ~fallo[p] /\ linea'[p] = 1
    BY <1>7 DEF AbrirCSV
  <2> QED BY <1>2, <1>4, <2>1
<1>8. CASE FaltaCSV(p)
  BY <1>8 DEF FaltaCSV
<1>9. CASE CerrarCSV(p)
  <2>1. /\ ~fallo[p] /\ fase[p] \in Tablas /\ u = Siguiente[fase[p]]
        /\ linea'[p] = 0 /\ linea[p] > Len(Fichero[fase[p]])
    BY <1>9 DEF CerrarCSV
  <2>2. Fichero[fase[p]] \in Seq(Seq(STRING))
    BY <2>1, FicheroAssumption
  <2>3. \A i \in DOMAIN Fichero[fase[p]] : LineaLlegada(fase[p], i)
    BY <2>1, <2>2 DEF Avance
  <2>4. Hecha(fase[p])
    BY <2>3 DEF Hecha, LineaLlegada, Validas, Lineas
  <2>5. \A t \in Antes[u] : t = fase[p] \/ t \in Antes[fase[p]]
    BY <2>1 DEF Antes, Siguiente, Tablas, Minimo
  <2>6. \A t \in Antes[u] : Hecha(t)
    BY <2>1, <2>4, <2>5 DEF Avance
  <2> QED BY <1>1, <1>4, <2>1, <2>6, HechaCrece
<1>10. CASE SaltarLinea(p)
  <2>1. /\ fase[p] = u /\ ~fallo[p] /\ linea'[p] = linea[p] + 1
        /\ ~ (Len(Actual(p)) >= Minimo[u])
    BY <1>10 DEF SaltarLinea, Avanzar
  <2>2. ASSUME NEW i \in DOMAIN Fichero[u], i = linea[p] PROVE LineaLlegada(u, i)'
    BY <2>1, <2>2 DEF LineaLlegada, Actual, Validas
  <2> QED BY <1>2, <1>4, <2>1, <2>2
<1>11. CASE BuscarOrigen(p) \/ BuscarDestino(p)
  <2>1. fase[p] = u /\ ~fallo[p] /\ linea'[p] = linea[p]
    BY <1>11 DEF BuscarOrigen, BuscarDestino, Bloqueada
  <2> QED BY <1>2, <2>1
<1>12. CASE FilaAeropuerto(p) \/ FilaUsuario(p) \/ FilaEquipaje(p) \/ FilaVuelo(p)
  <2>1. fase[p] = u /\ ~fallo[p] /\ linea'[p] = linea[p] + 1
    BY <1>12 DEF FilaAeropuerto, FilaUsuario, FilaEquipaje, FilaVuelo, Bloqueada, Avanzar
  <2>2. ASSUME NEW i \in DOMAIN Fichero[u], i = linea[p] PROVE LineaLlegada(u, i)'
    BY <1>12, <2>1, <2>2, FilaLlega
  <2> QED BY <1>2, <1>4, <2>1, <2>2
<1> QED
  BY <1>3, <1>5, <1>6, <1>7, <1>8, <1>9, <1>10, <1>11, <1>12, PasosDeProceso
  DEF PasoDeCarga

LEMMA CompletaNext ==
  TypeOK /\ Avance /\ CargaCompleta /\ [Next]_vars => CargaCompleta'
<1> SUFFICES ASSUME TypeOK, Avance, CargaCompleta, [Next]_vars, completa',
                    NEW t \in Tablas
             PROVE  Hecha(t)'
  BY DEF CargaCompleta, Hecha, Cargable
<1> USE DEF TypeOK
<1>1. CASE completa
  <2>1. Hecha(t)
    BY <1>1 DEF CargaCompleta, Hecha
  <2> QED BY <2>1, HechaCrece
<1>2. CASE ~completa
  <2>1. PICK p \in Procesos : CerrarCSV(p)
    BY <1>2 DEF Next, PasoDeCarga, vars, Arrancar, Caer, EmpezarCarga, AbrirCSV,
         FaltaCSV, SaltarLinea, FilaAeropuerto, FilaUsuario, FilaEquipaje,
         BuscarOrigen, BuscarDestino, FilaVuelo, EmpezarListado, TerminarListado,
         SegundoServidor, BuscarVuelo, InsertarBillete
  <2>2. /\ ~fallo[p] /\ fase[p] = "equipajes" /\ fase[p] \in Tablas
        /\ linea[p] > Len(Fichero["equipajes"])
    BY <1>2, <2>1 DEF CerrarCSV
  <2>3. Fichero["equipajes"] \in Seq(Seq(STRING))
    BY <2>2, FicheroAssumption
  <2>4. \A i \in DOMAIN Fichero["equipajes"] : LineaLlegada("equipajes", i)
    BY <2>2, <2>3 DEF Avance
  <2>5. Hecha("equipajes")
    BY <2>4 DEF Hecha, LineaLlegada, Validas, Lineas
  <2>6. Hecha(t)
    BY <2>2, <2>5 DEF Avance, Antes, Tablas, Minimo
  <2> QED BY <2>6, HechaCrece
<1> QED BY <1>1, <1>2

\* Once one load has ended without losing a statement or a file, all the
\* files hold is in the database, whatever happens afterwards.
THEOREM CargaSiempreCompleta == Spec => []CargaCompleta
<1> DEFINE IInv == /\ TypeOK /\ PasoEnLinea /\ RutaLeida /\ LineaCero
                   /\ RutaHallada /\ Avance /\ CargaCompleta
<1>1. Init => IInv
  BY TipoInit DEF Init, PasoEnLinea, RutaLeida, LineaCero, RutaHallada, Avance,
                  CargaCompleta, Tablas, Minimo
<1>2. IInv /\ [Next]_vars => IInv'
  BY TipoNext, PasoNext, RutaLeidaNext, LineaCeroNext, RutaHalladaNext, AvanceNext,
     CompletaNext
<1>3. IInv => CargaCompleta
  OBVIOUS
<1> QED BY <1>1, <1>2, <1>3, PTL DEF Spec

----------------------------------------------------------------------------
(* Ids *)

LEMMA IdsDeCambios ==
  ASSUME TypeOK, [Next]_vars
  PROVE  /\ IdsNuevos(aeropuerto, aeropuerto') /\ IdsNuevos(usuario, usuario')
         /\ IdsNuevos(vuelo, vuelo') /\ IdsNuevos(equipaje, equipaje')
         /\ IdsNuevos(billete, billete')
<1> USE DEF TypeOK
<1>1. ASSUME NEW Fila, NEW t \in Tabla(Fila)
      PROVE  /\ IdsNuevos(t, t) /\ IdsNuevos(t, Ignorar(t))
             /\ IdsNuevos(t, db_limpiar_billetes(t))
             /\ \A f : f.id = t.seq + 1 => IdsNuevos(t, Insertar(t, f))
  BY DEF Tabla, IdsNuevos, Ignorar, Insertar, db_limpiar_billetes
<1>2. /\ aeropuerto' = aeropuerto => IdsNuevos(aeropuerto, aeropuerto')
      /\ usuario' = usuario => IdsNuevos(usuario, usuario')
      /\ vuelo' = vuelo => IdsNuevos(vuelo, vuelo')
      /\ equipaje' = equipaje => IdsNuevos(equipaje, equipaje')
      /\ billete' = billete => IdsNuevos(billete, billete')
  BY <1>1
<1>3. CambioAeropuerto => IdsNuevos(aeropuerto, aeropuerto')
  BY <1>1 DEF CambioAeropuerto, db_aeropuerto_insertar
<1>4. CambioUsuario => IdsNuevos(usuario, usuario')
  BY <1>1 DEF CambioUsuario, db_usuario_insertar
<1>5. CambioEquipaje => IdsNuevos(equipaje, equipaje')
  BY <1>1 DEF CambioEquipaje, db_equipaje_insertar
<1>6. CambioVuelo => IdsNuevos(vuelo, vuelo')
  BY <1>1 DEF CambioVuelo, db_vuelo_insertar
<1>7. CambioBillete => IdsNuevos(billete, billete')
  BY <1>1 DEF CambioBillete, billete_insertar
<1> QED BY <1>2, <1>3, <1>4, <1>5, <1>6, <1>7, Cambios DEF archivo

\* No id is ever given to two rows of a table, cleared or not in between.
THEOREM IdsSinRepetir == Spec => IdsNuncaRepetidos
<1>1. TypeOK /\ [Next]_vars
        => [/\ IdsNuevos(aeropuerto, aeropuerto') /\ IdsNuevos(usuario, usuario')
            /\ IdsNuevos(vuelo, vuelo') /\ IdsNuevos(equipaje, equipaje')
            /\ IdsNuevos(billete, billete')]_vars
  BY IdsDeCambios
<1> QED BY <1>1, TipoCorrecto, PTL DEF Spec, IdsNuncaRepetidos

----------------------------------------------------------------------------
(* How long a load can last *)

\* At most the steps that opening, reading and closing the file of t take:
\* three for a line of vuelos.
Coste(t) == 3 * (Len(Fichero[t]) + 2)

\* The same for the files after that of t.
Detras ==
  [aeropuertos |-> Coste("vuelos") + Coste("usuarios") + Coste("equipajes"),
   vuelos |-> Coste("usuarios") + Coste("equipajes"),
   usuarios |-> Coste("equipajes"),
   equipajes |-> 0]

Hechos == [origen |-> 0, destino |-> 1, insertar |-> 2]

\* What p still has before it, 0 if it is not loading.
Falta(p) ==
  IF fase[p] \in Tablas
    THEN 3 * (Len(Fichero[fase[p]]) + 2 - linea[p]) - Hechos[paso[p]] + Detras[fase[p]]
    ELSE 0

\* A process that loads has a line of its file before it or is at its end.
LineaEnFichero ==
  \A p \in Procesos : fase[p] \in Tablas => linea[p] <= Len(Fichero[fase[p]]) + 1

AvanceInv == TypeOK /\ PasoEnLinea /\ LineaCero /\ LineaEnFichero

LEMMA Costes ==
  /\ Tablas = {"aeropuertos", "vuelos", "usuarios", "equipajes"}
  /\ \A t \in Tablas : Len(Fichero[t]) \in Nat /\ DOMAIN Fichero[t] = 1..Len(Fichero[t])
  /\ \A t \in Tablas : Detras[t] \in Nat
  /\ \A t \in Tablas : Siguiente[t] \in Tablas => Detras[t] = Coste(Siguiente[t]) + Detras[Siguiente[t]]
<1>1. Tablas = {"aeropuertos", "vuelos", "usuarios", "equipajes"}
  BY DEF Tablas, Minimo
<1>2. \A t \in Tablas : Fichero[t] \in Seq(Seq(STRING))
  BY FicheroAssumption
<1>3. \A t \in Tablas : Len(Fichero[t]) \in Nat /\ DOMAIN Fichero[t] = 1..Len(Fichero[t])
  BY <1>2
<1>4. \A t \in Tablas : Coste(t) \in Nat
  BY <1>3 DEF Coste
<1>5. \A t \in Tablas : Detras[t] \in Nat
  BY <1>1, <1>4 DEF Detras
<1>6. /\ Siguiente["aeropuertos"] = "vuelos" /\ Siguiente["vuelos"] = "usuarios"
      /\ Siguiente["usuarios"] = "equipajes" /\ Siguiente["equipajes"] = "reposo"
  BY DEF Siguiente
<1>7. \A t \in Tablas : Siguiente[t] \in Tablas => Detras[t] = Coste(Siguiente[t]) + Detras[Siguiente[t]]
  BY <1>1, <1>4, <1>6 DEF Detras
<1> QED BY <1>1, <1>3, <1>5, <1>7

\* What a step of a load does to its place in the files.
LEMMA PasosDeCarga ==
  ASSUME AvanceInv, NEW p \in Procesos, PasoDeCarga(p)
  PROVE  /\ fase[p] \in Tablas
         /\ \/ /\ fase'[p] = fase[p] /\ paso'[p] = paso[p]
               /\ linea'[p] = linea[p] + 1
               /\ linea[p] <= Len(Fichero[fase[p]])
            \/ /\ fase'[p] = fase[p] /\ linea'[p] = linea[p]
               /\ \/ paso[p] = "origen" /\ paso'[p] = "destino"
                  \/ paso[p] = "destino" /\ paso'[p] = "insertar"
            \/ /\ fase'[p] = fase[p] /\ paso[p] = "insertar" /\ paso'[p] = "origen"
               /\ linea'[p] = linea[p] + 1
               /\ linea[p] <= Len(Fichero[fase[p]])
            \/ /\ fase'[p] = Siguiente[fase[p]] /\ linea'[p] = 0
               /\ paso[p] = "origen" /\ paso'[p] = "origen"
<1> USE DEF AvanceInv, TypeOK
<1>0. /\ {"aeropuertos", "usuarios", "equipajes", "vuelos"} = Tablas
      /\ \A t \in Tablas : Len(Fichero[t]) \in Nat /\ DOMAIN Fichero[t] = 1..Len(Fichero[t])
  BY Costes
<1>1. CASE AbrirCSV(p)
  BY <1>0, <1>1 DEF AbrirCSV, locales
<1>2. CASE SaltarLinea(p)
  BY <1>0, <1>2 DEF SaltarLinea, Avanzar, locales
<1>3. CASE FilaAeropuerto(p) \/ FilaUsuario(p) \/ FilaEquipaje(p)
  BY <1>0, <1>3 DEF FilaAeropuerto, FilaUsuario, FilaEquipaje, EnLinea, Avanzar, locales
<1>4. CASE BuscarOrigen(p) \/ BuscarDestino(p)
  BY <1>0, <1>4 DEF BuscarOrigen, BuscarDestino, EnLinea
<1>5. CASE FilaVuelo(p)
  BY <1>0, <1>5 DEF FilaVuelo, EnLinea, Avanzar
<1>6. CASE FaltaCSV(p) \/ CerrarCSV(p)
  <2>1. fase[p] \in Tablas /\ linea[p] \notin DOMAIN Fichero[fase[p]]
    BY <1>0, <1>6 DEF FaltaCSV, CerrarCSV
  <2>2. paso[p] = "origen"
    BY <2>1 DEF PasoEnLinea, EnLinea
  <2>3. linea'[p] = 0
    BY <1>6 DEF FaltaCSV, CerrarCSV
  <2> QED BY <1>6, <2>1, <2>2, <2>3 DEF FaltaCSV, CerrarCSV, locales
<1> QED BY <1>1, <1>2, <1>3, <1>4, <1>5, <1>6 DEF PasoDeCarga

LEMMA AvancePaso == AvanceInv /\ [Next]_vars => AvanceInv'
<1> SUFFICES ASSUME AvanceInv, [Next]_vars PROVE AvanceInv'
  OBVIOUS
<1>1. TypeOK' /\ PasoEnLinea' /\ LineaCero'
  BY TipoNext, PasoNext, LineaCeroNext DEF AvanceInv
<1>2. ASSUME NEW p \in Procesos, fase'[p] \in Tablas
      PROVE  linea'[p] <= Len(Fichero[fase'[p]]) + 1
  <2>0. \A t \in Tablas : Len(Fichero[t]) \in Nat
    BY Costes
  <2>1. CASE Quieto(p)
    BY <1>2, <2>1 DEF Quieto, AvanceInv, LineaEnFichero
  <2>2. CASE Ajeno(p)
    BY <1>2, <2>0, <2>2 DEF Ajeno, AvanceInv, LineaCero
  <2>3. CASE Caer(p)
    BY <1>2, <2>3, Costes DEF Caer, AvanceInv, TypeOK
  <2>4. CASE PasoDeCarga(p)
    <3>1. /\ linea'[p] \in Nat /\ linea[p] \in Nat
      BY <1>1 DEF AvanceInv, TypeOK
    <3>2. \/ linea'[p] = 0
          \/ fase'[p] = fase[p] /\ linea'[p] = linea[p] + 1 /\ linea[p] <= Len(Fichero[fase[p]])
          \/ fase'[p] = fase[p] /\ linea'[p] = linea[p]
      BY <2>4, PasosDeCarga
    <3> QED BY <1>2, <2>0, <3>1, <3>2 DEF AvanceInv, LineaEnFichero
  <2> QED BY <2>1, <2>2, <2>3, <2>4, PasosDeProceso DEF AvanceInv
<1> QED BY <1>1, <1>2 DEF AvanceInv, LineaEnFichero

\* A step of a load brings its end nearer, and no other step moves it away,
\* but for the process that dies: at most Falta(p) steps are left, however the
\* files look and whatever the other process does.
CargaAcotada ==
  [][ \A p \in Procesos : fase[p] \in Tablas =>
        /\ Falta(p) \in Nat
        /\ \/ PasoDeCarga(p) /\ Falta(p)' < Falta(p)
           \/ Falta(p)' = Falta(p)
           \/ fase'[p] = "apagado" ]_vars

LEMMA FaltaNatural ==
  ASSUME AvanceInv, NEW p \in Procesos
  PROVE  Falta(p) \in Nat
<1>1. paso[p] \in DOMAIN Hechos /\ Hechos[paso[p]] \in 0..2 /\ linea[p] \in Nat
  BY DEF AvanceInv, TypeOK, Hechos
<1>2. CASE fase[p] \in Tablas
  <2>1. Len(Fichero[fase[p]]) \in Nat /\ Detras[fase[p]] \in Nat
    BY <1>2, Costes
  <2>2. linea[p] <= Len(Fichero[fase[p]]) + 1
    BY <1>2 DEF AvanceInv, LineaEnFichero
  <2>3. \A n \in Nat, l \in Nat, d \in Nat, h \in 0..2 :
          l <= n + 1 => 3 * (n + 2 - l) - h + d \in Nat
    OBVIOUS
  <2>4. 3 * (Len(Fichero[fase[p]]) + 2 - linea[p]) - Hechos[paso[p]] + Detras[fase[p]] \in Nat
    BY <1>1, <2>1, <2>2, <2>3
  <2> QED BY <1>2, <2>4 DEF Falta
<1>3. CASE fase[p] \notin Tablas
  BY <1>3 DEF Falta
<1> QED BY <1>2, <1>3

\* A load that starts takes a number of steps that its files bound.
THEOREM CargaSiempreAcotada == Spec => CargaAcotada
<1>1. Init => AvanceInv
  BY TipoInit DEF Init, AvanceInv, PasoEnLinea, LineaCero, LineaEnFichero, Tablas, Minimo
<1>2. AvanceInv /\ [Next]_vars =>
        [ \A p \in Procesos : fase[p] \in Tablas =>
            /\ Falta(p) \in Nat
            /\ \/ PasoDeCarga(p) /\ Falta(p)' < Falta(p)
               \/ Falta(p)' = Falta(p)
               \/ fase'[p] = "apagado" ]_vars
  <2> SUFFICES ASSUME AvanceInv, Next, NEW p \in Procesos, fase[p] \in Tablas
               PROVE  /\ Falta(p) \in Nat
                      /\ \/ PasoDeCarga(p) /\ Falta(p)' < Falta(p)
                         \/ Falta(p)' = Falta(p)
                         \/ fase'[p] = "apagado"
    OBVIOUS
  <2>1. Falta(p) \in Nat
    BY FaltaNatural
  <2>2. CASE Quieto(p)
    BY <2>1, <2>2 DEF Quieto, Falta
  <2>3. CASE Caer(p)
    BY <2>1, <2>3 DEF Caer, AvanceInv, TypeOK
  <2>4. CASE PasoDeCarga(p)
    <3> DEFINE t == fase[p]
               N == Len(Fichero[t])
    <3>1. /\ N \in Nat /\ Detras[t] \in Nat /\ linea[p] \in Nat
          /\ linea[p] <= N + 1 /\ paso[p] \in {"origen", "destino", "insertar"}
      BY Costes DEF AvanceInv, TypeOK, LineaEnFichero
    <3>2. Hechos["origen"] = 0 /\ Hechos["destino"] = 1 /\ Hechos["insertar"] = 2
      BY DEF Hechos
    <3>3. Falta(p) = 3 * (N + 2 - linea[p]) - Hechos[paso[p]] + Detras[t]
      BY DEF Falta
    <3>4. Falta(p)' = IF fase'[p] \in Tablas
                        THEN 3 * (Len(Fichero[fase'[p]]) + 2 - linea'[p]) - Hechos[paso'[p]]
                               + Detras[fase'[p]]
                        ELSE 0
      BY DEF Falta, Tablas, Minimo, Hechos, Detras, Coste
    <3>5. Hechos[paso[p]] \in 0..2
      BY <3>1, <3>2
    <3>6. CASE fase'[p] = t
      <4>1. \/ paso'[p] = paso[p] /\ linea'[p] = linea[p] + 1
            \/ linea'[p] = linea[p] /\ Hechos[paso'[p]] = Hechos[paso[p]] + 1
            \/ linea'[p] = linea[p] + 1 /\ Hechos[paso[p]] = 2 /\ Hechos[paso'[p]] = 0
            \/ fase'[p] = Siguiente[t]
        BY <2>4, <3>2, PasosDeCarga
      <4>2. Siguiente[t] # t
        BY Costes DEF Siguiente
      <4>3. Falta(p)' = 3 * (N + 2 - linea'[p]) - Hechos[paso'[p]] + Detras[t]
        BY <3>4, <3>6
      <4> HIDE DEF t, N
      <4>4. Falta(p)' < Falta(p)
        BY <3>1, <3>3, <3>5, <3>6, <4>1, <4>2, <4>3
      <4> QED BY <2>1, <2>4, <4>4
    <3>7. CASE fase'[p] # t
      <4>1. fase'[p] = Siguiente[t] /\ linea'[p] = 0 /\ paso[p] = "origen" /\ paso'[p] = "origen"
        BY <2>4, <3>7, PasosDeCarga
      <4>2. Falta(p) >= 3 + Detras[t]
        <5> HIDE DEF t, N
        <5> QED BY <3>1, <3>2, <3>3, <4>1
      <4>3. CASE Siguiente[t] \in Tablas
        <5>1. Detras[t] = Coste(Siguiente[t]) + Detras[Siguiente[t]]
          BY <4>3, Costes
        <5>2. Len(Fichero[Siguiente[t]]) \in Nat /\ Detras[Siguiente[t]] \in Nat
          BY <4>3, Costes
        <5>3. Falta(p)' = Coste(Siguiente[t]) + Detras[Siguiente[t]]
          BY <3>2, <3>4, <4>1, <4>3, <5>2 DEF Coste
        <5> HIDE DEF t, N
        <5>4. Falta(p)' < Falta(p)
          BY <2>1, <3>1, <4>2, <5>1, <5>3
        <5> QED BY <2>1, <2>4, <5>4
      <4>4. CASE Siguiente[t] \notin Tablas
        <5>1. Falta(p)' = 0
          BY <3>4, <4>1, <4>4
        <5> HIDE DEF t, N
        <5> QED BY <2>1, <2>4, <3>1, <4>2, <5>1
      <4> QED BY <4>3, <4>4
    <3> QED BY <3>6, <3>7
  <2>5. ~Ajeno(p)
    BY DEF Ajeno
  <2> QED BY <2>2, <2>3, <2>4, <2>5, PasosDeProceso DEF AvanceInv
<1> QED BY <1>1, <1>2, AvancePaso, PTL DEF Spec, CargaAcotada
===========================================================================
