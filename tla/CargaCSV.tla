----------------------------- MODULE CargaCSV -----------------------------
(***************************************************************************)
(* The server process (servidor.cpp) and the console process (main.c) on   *)
(* one SQLite file.  Each can run the four CSV loaders of db.c, one        *)
(* autocommitted statement at a time; the server also sells tickets.  No   *)
(* busy handler is installed, so a statement that meets the lock of the    *)
(* other process fails at once, and the loaders ignore that failure.       *)
(***************************************************************************)
EXTENDS BaseDatos, Sequences

CONSTANTS
  Fichero,      \* table name -> the lines of its CSV after the header, each a
                \* sequence of fields ("" for an empty one), as fgets cuts them
  Numero,       \* the fields that start with digits -> their atoi value
  MaxCargas,    \* bound: loads started by both processes together
  MaxBilletes   \* bound: tickets ever sold

Procesos == {"servidor", "consola"}

\* The four tables a load fills, and the fields a line of each must have.
Minimo == [aeropuertos |-> 3, vuelos |-> 5, usuarios |-> 4, equipajes |-> 3]
Tablas == DOMAIN Minimo

\* CARGAR_CSV calls the loaders in this order.
Siguiente == [aeropuertos |-> "vuelos", vuelos |-> "usuarios",
              usuarios |-> "equipajes", equipajes |-> "reposo"]

Fases == Tablas \cup {"apagado", "reposo", "listando", "comprando"}

\* strtok never returns an empty token: empty fields vanish and the ones
\* after them move to the left.
Campos(linea_csv) == SelectSeq(linea_csv, LAMBDA campo : campo # "")

atoi(campo) == IF campo \in DOMAIN Numero THEN Numero[campo] ELSE 0

\* servidor.cpp gives every passenger the id 1.
ID_PASAJERO == 1

Lineas(t) == {Campos(Fichero[t][i]) : i \in DOMAIN Fichero[t]}
Validas(t) == {l \in Lineas(t) : Len(l) >= Minimo[t]}

\* The values column k of table t can take from its file.
Columna(t, k) == {l[k] : l \in Validas(t)}

ASSUME FicheroAssumption == Fichero \in [Tablas -> Seq(Seq(STRING))]
ASSUME NumeroAssumption == \A campo \in DOMAIN Numero : Numero[campo] \in Int
ASSUME CotasAssumption == MaxCargas \in Nat /\ MaxBilletes \in Nat

VARIABLES
  aeropuerto, vuelo, usuario, equipaje, billete,  \* the file
  fase,      \* what each process is doing; a table name while it loads it
  linea,     \* 0 before fopen, else the next line to read
  paso,      \* where a process is inside a line of vuelos
  id_orig, id_dest,  \* the loader's locals
  id_vuelo,  \* local of db_comprar_billete_texto
  fallo,     \* history: the current load of p lost a statement or a file
  completa,  \* history: some load ran to its end without such a loss
  cargas     \* history: loads started, for MaxCargas

archivo == <<aeropuerto, vuelo, usuario, equipaje, billete>>
locales == <<paso, id_orig, id_dest>>
vars == <<archivo, fase, linea, locales, id_vuelo, fallo, completa, cargas>>

Init ==
  /\ aeropuerto = TablaVacia /\ vuelo = TablaVacia /\ usuario = TablaVacia
  /\ equipaje = TablaVacia /\ billete = TablaVacia
  /\ fase = [p \in Procesos |-> "apagado"]
  /\ linea = [p \in Procesos |-> 0]
  /\ paso = [p \in Procesos |-> "origen"]
  /\ id_orig = [p \in Procesos |-> -1]
  /\ id_dest = [p \in Procesos |-> -1]
  /\ id_vuelo = -1
  /\ fallo = [p \in Procesos |-> FALSE]
  /\ completa = FALSE
  /\ cargas = 0

\* Some other process may hold a lock on the file: SQLITE_BUSY is possible.
Ocupada(p) == \E q \in Procesos \ {p} : fase[q] \notin {"apagado", "reposo"}

\* A statement of p's load fails with SQLITE_BUSY and nobody looks.
Bloqueada(p) == Ocupada(p) /\ fallo' = [fallo EXCEPT ![p] = TRUE]

----------------------------------------------------------------------------
(* Starting and dying *)

\* main: open, create the tables if missing; the server also clears the
\* tickets, unless the file is locked (the result is not looked at).
Arrancar(p) ==
  /\ fase[p] = "apagado"
  /\ fase' = [fase EXCEPT ![p] = "reposo"]
  /\ \/ p = "servidor" /\ billete' = db_limpiar_billetes(billete)
     \/ (p = "consola" \/ Ocupada(p)) /\ UNCHANGED billete
  /\ UNCHANGED <<aeropuerto, vuelo, usuario, equipaje, linea, locales,
                 id_vuelo, fallo, completa, cargas>>

\* servidor.exe started again while one runs: the tickets go before bind fails.
SegundoServidor ==
  /\ fase["servidor"] # "apagado"
  /\ billete' = db_limpiar_billetes(billete)
  /\ UNCHANGED <<aeropuerto, vuelo, usuario, equipaje, fase, linea, locales,
                 id_vuelo, fallo, completa, cargas>>

\* The process is killed; what it committed stays.
Caer(p) ==
  /\ fase[p] # "apagado"
  /\ fase' = [fase EXCEPT ![p] = "apagado"]
  /\ linea' = [linea EXCEPT ![p] = 0]
  /\ paso' = [paso EXCEPT ![p] = "origen"]
  /\ id_orig' = [id_orig EXCEPT ![p] = -1]
  /\ id_dest' = [id_dest EXCEPT ![p] = -1]
  /\ id_vuelo' = IF p = "servidor" THEN -1 ELSE id_vuelo
  /\ UNCHANGED <<archivo, fallo, completa, cargas>>

----------------------------------------------------------------------------
(* Loading *)

EmpezarCarga(p) ==
  /\ fase[p] = "reposo"
  /\ cargas < MaxCargas
  /\ cargas' = cargas + 1
  /\ fase' = [fase EXCEPT ![p] = "aeropuertos"]
  /\ fallo' = [fallo EXCEPT ![p] = FALSE]
  /\ UNCHANGED <<archivo, linea, locales, id_vuelo, completa>>

\* A seeded bug: two lines are taken for the header.
AbrirCSV_dos_cabeceras(p) ==
  /\ fase[p] \in Tablas
  /\ linea[p] = 0
  /\ linea' = [linea EXCEPT ![p] = 2]
  /\ UNCHANGED <<archivo, fase, locales, id_vuelo, fallo, completa, cargas>>

\* fopen, and a first fgets for the header.
AbrirCSV(p) ==
  /\ fase[p] \in Tablas
  /\ linea[p] = 0
  /\ linea' = [linea EXCEPT ![p] = 1]
  /\ UNCHANGED <<archivo, fase, locales, id_vuelo, fallo, completa, cargas>>

\* fopen fails: the loader returns -1 and the next one is called all the same.
FaltaCSV(p) ==
  /\ fase[p] \in Tablas
  /\ linea[p] = 0
  /\ fase' = [fase EXCEPT ![p] = Siguiente[fase[p]]]
  /\ fallo' = [fallo EXCEPT ![p] = TRUE]
  /\ UNCHANGED <<archivo, linea, locales, id_vuelo, completa, cargas>>

CerrarCSV(p) ==
  /\ fase[p] \in Tablas
  /\ linea[p] > Len(Fichero[fase[p]])
  /\ fase' = [fase EXCEPT ![p] = Siguiente[fase[p]]]
  /\ linea' = [linea EXCEPT ![p] = 0]
  /\ completa' = (completa \/ (fase[p] = "equipajes" /\ ~fallo[p]))
  /\ UNCHANGED <<archivo, locales, id_vuelo, fallo, cargas>>

Actual(p) == Campos(Fichero[fase[p]][linea[p]])

\* The buffer holds a line of t with enough fields.
EnLinea(p, t) ==
  /\ fase[p] = t
  /\ linea[p] \in DOMAIN Fichero[t]
  /\ Len(Actual(p)) >= Minimo[t]

Avanzar(p) == linea' = [linea EXCEPT ![p] = @ + 1]

\* A seeded bug: a short line is left without reading the next one.
SaltarLinea_atascada(p) == FALSE

\* A line with too few fields: continue.
SaltarLinea(p) ==
  /\ fase[p] \in Tablas
  /\ linea[p] \in DOMAIN Fichero[fase[p]]
  /\ ~ (Len(Actual(p)) >= Minimo[fase[p]])
  /\ Avanzar(p)
  /\ UNCHANGED <<archivo, fase, locales, id_vuelo, fallo, completa, cargas>>

FilaAeropuerto(p) ==
  /\ EnLinea(p, "aeropuertos")
  /\ \/ /\ aeropuerto' = db_aeropuerto_insertar(aeropuerto, Actual(p)[1])
        /\ UNCHANGED fallo
     \/ Bloqueada(p) /\ UNCHANGED aeropuerto
  /\ Avanzar(p)
  /\ UNCHANGED <<vuelo, usuario, equipaje, billete, fase, locales, id_vuelo,
                 completa, cargas>>

FilaUsuario(p) ==
  /\ EnLinea(p, "usuarios")
  /\ \/ /\ usuario' = db_usuario_insertar(usuario, Actual(p)[1], Actual(p)[4])
        /\ UNCHANGED fallo
     \/ Bloqueada(p) /\ UNCHANGED usuario
  /\ Avanzar(p)
  /\ UNCHANGED <<aeropuerto, vuelo, equipaje, billete, fase, locales, id_vuelo,
                 completa, cargas>>

FilaEquipaje(p) ==
  /\ EnLinea(p, "equipajes")
  /\ \/ /\ equipaje' = db_equipaje_insertar(equipaje, Actual(p)[1], Actual(p)[2],
                                            atoi(Actual(p)[3]))
        /\ UNCHANGED fallo
     \/ Bloqueada(p) /\ UNCHANGED equipaje
  /\ Avanzar(p)
  /\ UNCHANGED <<aeropuerto, vuelo, usuario, billete, fase, locales, id_vuelo,
                 completa, cargas>>

\* A line of vuelos takes three statements: both airports are looked up and
\* only then is the row inserted.
BuscarOrigen(p) ==
  /\ EnLinea(p, "vuelos") /\ paso[p] = "origen"
  /\ \/ /\ id_orig' = [id_orig EXCEPT ![p] =
                         db_aeropuerto_buscar_codigo(aeropuerto, Actual(p)[3])]
        /\ UNCHANGED fallo
     \/ Bloqueada(p) /\ id_orig' = [id_orig EXCEPT ![p] = -1]
  /\ paso' = [paso EXCEPT ![p] = "destino"]
  /\ UNCHANGED <<archivo, fase, linea, id_dest, id_vuelo, completa, cargas>>

BuscarDestino(p) ==
  /\ EnLinea(p, "vuelos") /\ paso[p] = "destino"
  /\ \/ /\ id_dest' = [id_dest EXCEPT ![p] =
                         db_aeropuerto_buscar_codigo(aeropuerto, Actual(p)[4])]
        /\ UNCHANGED fallo
     \/ Bloqueada(p) /\ id_dest' = [id_dest EXCEPT ![p] = -1]
  /\ paso' = [paso EXCEPT ![p] = "insertar"]
  /\ UNCHANGED <<archivo, fase, linea, id_orig, id_vuelo, completa, cargas>>

FilaVuelo(p) ==
  /\ EnLinea(p, "vuelos") /\ paso[p] = "insertar"
  /\ IF id_orig[p] = -1 \/ id_dest[p] = -1
       THEN UNCHANGED <<vuelo, fallo>>
       ELSE \/ /\ vuelo' = db_vuelo_insertar(vuelo, Actual(p)[1],
                                             id_orig[p], id_dest[p])
               /\ UNCHANGED fallo
            \/ Bloqueada(p) /\ UNCHANGED vuelo
  /\ Avanzar(p)
  /\ paso' = [paso EXCEPT ![p] = "origen"]
  /\ id_orig' = [id_orig EXCEPT ![p] = -1]
  /\ id_dest' = [id_dest EXCEPT ![p] = -1]
  /\ UNCHANGED <<aeropuerto, usuario, equipaje, billete, fase, id_vuelo,
                 completa, cargas>>

----------------------------------------------------------------------------
(* The other uses of the file *)

\* A listing holds a read lock from its first row to its last.
EmpezarListado(p) ==
  /\ fase[p] = "reposo"
  /\ fase' = [fase EXCEPT ![p] = "listando"]
  /\ UNCHANGED <<archivo, linea, locales, id_vuelo, fallo, completa, cargas>>

TerminarListado(p) ==
  /\ fase[p] = "listando"
  /\ fase' = [fase EXCEPT ![p] = "reposo"]
  /\ UNCHANGED <<archivo, linea, locales, id_vuelo, fallo, completa, cargas>>

\* db_comprar_billete_texto, first statement: the flight of that code.
BuscarVuelo(cod) ==
  /\ fase["servidor"] = "reposo"
  /\ billete.seq < MaxBilletes
  /\ \/ id_vuelo' = vuelo_buscar_codigo(vuelo, cod)
     \/ Ocupada("servidor") /\ id_vuelo' = -1
  /\ fase' = [fase EXCEPT !["servidor"] = "comprando"]
  /\ UNCHANGED <<archivo, linea, locales, fallo, completa, cargas>>

\* ... and second statement: the ticket, if there was a flight.
InsertarBillete ==
  /\ fase["servidor"] = "comprando"
  /\ \/ /\ id_vuelo # -1
        /\ billete' = billete_insertar(billete, ID_PASAJERO, id_vuelo)
     \/ (id_vuelo = -1 \/ Ocupada("servidor")) /\ UNCHANGED billete
  /\ fase' = [fase EXCEPT !["servidor"] = "reposo"]
  /\ id_vuelo' = -1
  /\ UNCHANGED <<aeropuerto, vuelo, usuario, equipaje, linea, locales, fallo,
                 completa, cargas>>

----------------------------------------------------------------------------
PasoDeCarga(p) ==
  \/ AbrirCSV(p) \/ FaltaCSV(p) \/ CerrarCSV(p) \/ SaltarLinea(p)
  \/ FilaAeropuerto(p) \/ FilaUsuario(p) \/ FilaEquipaje(p)
  \/ BuscarOrigen(p) \/ BuscarDestino(p) \/ FilaVuelo(p)

Next ==
  \/ \E p \in Procesos :
       \/ Arrancar(p) \/ Caer(p)
       \/ EmpezarCarga(p) \/ PasoDeCarga(p)
       \/ EmpezarListado(p) \/ TerminarListado(p)
  \/ SegundoServidor
  \/ \E cod \in Columna("vuelos", 1) : BuscarVuelo(cod)
  \/ InsertarBillete

Spec == Init /\ [][Next]_vars

\* A process that is loading keeps running its statements.
SpecJusta == Spec /\ \A p \in Procesos : WF_vars(PasoDeCarga(p))

----------------------------------------------------------------------------
(* Properties *)

FilaDeAeropuerto == [id : Nat, codigo : Columna("aeropuertos", 1)]
FilaDeVuelo == [id : Nat, cod_vuelo : Columna("vuelos", 1),
                id_origen : Int, id_destino : Int]
FilaDeUsuario == [id : Nat, dni : Columna("usuarios", 1),
                  email : Columna("usuarios", 4)]
FilaDeEquipaje == [id : Nat, codigo : Columna("equipajes", 1),
                   dni : Columna("equipajes", 2), id_vuelo : Int]
FilaDeBillete == [id : Nat, id_usuario : {ID_PASAJERO}, id_vuelo : Int]

\* Every variable has its type.
TypeOK ==
  /\ aeropuerto \in Tabla(FilaDeAeropuerto)
  /\ vuelo \in Tabla(FilaDeVuelo)
  /\ usuario \in Tabla(FilaDeUsuario)
  /\ equipaje \in Tabla(FilaDeEquipaje)
  /\ billete \in Tabla(FilaDeBillete)
  /\ fase \in [Procesos -> Fases]
  /\ linea \in [Procesos -> Nat]
  /\ paso \in [Procesos -> {"origen", "destino", "insertar"}]
  /\ id_orig \in [Procesos -> Int]
  /\ id_dest \in [Procesos -> Int]
  /\ id_vuelo \in Int
  /\ fallo \in [Procesos -> BOOLEAN]
  /\ completa \in BOOLEAN
  /\ cargas \in Nat

\* An airport, a passenger and a piece of luggage are stored once, however
\* often and by however many processes the files are loaded, with loads cut
\* short and statements lost in between (UNIQUE in db_inicializar).
ClavesUnicas ==
  /\ \A f, g \in aeropuerto.filas : f.codigo = g.codigo => f = g
  /\ \A f, g \in usuario.filas : f.dni = g.dni \/ f.email = g.email => f = g
  /\ \A f, g \in equipaje.filas : f.codigo = g.codigo => f = g

TieneCodigo(id, cod) == \E a \in aeropuerto.filas : a.id = id /\ a.codigo = cod

\* Each flight stored joins the very airports its line of the CSV names,
\* although the ids come from two lookups made before the insert, with the
\* other process inserting airports in between, and no foreign key checks it.
RutaCorrecta ==
  \A v \in vuelo.filas : \E l \in Validas("vuelos") :
    /\ l[1] = v.cod_vuelo
    /\ TieneCodigo(v.id_origen, l[3])
    /\ TieneCodigo(v.id_destino, l[4])

\* No ticket points to a flight that is not there, although nothing but the
\* order of the two statements of a purchase protects the reference.
BilleteConVuelo ==
  \A b \in billete.filas : \E v \in vuelo.filas : b.id_vuelo = v.id

Llega(t, l) ==
  CASE t = "aeropuertos" -> \E f \in aeropuerto.filas : f.codigo = l[1]
    [] t = "usuarios" -> \E f \in usuario.filas : f.dni = l[1] \/ f.email = l[4]
    [] t = "equipajes" -> \E f \in equipaje.filas : f.codigo = l[1]
    [] t = "vuelos" -> \E v \in vuelo.filas :
                         /\ v.cod_vuelo = l[1]
                         /\ TieneCodigo(v.id_origen, l[3])
                         /\ TieneCodigo(v.id_destino, l[4])

\* The lines the loaders can store: those with all their fields and, for a
\* flight, with both airports in the file of airports.
Cargable(t, l) ==
  t = "vuelos" => {l[3], l[4]} \subseteq Columna("aeropuertos", 1)

\* Once one load has run to its end without losing a statement or a file,
\* every loadable line of the four files is in the database for good: later
\* loads, by either process, broken or not, take nothing away.
CargaCompleta ==
  completa => \A t \in Tablas : \A l \in Validas(t) : Cargable(t, l) => Llega(t, l)

IdsNuevos(t, t1) == (\A f \in t1.filas \ t.filas : f.id > t.seq) /\ t.seq <= t1.seq

\* A row that appears has an id no row of its table ever had, also after the
\* tickets are cleared: an id a client was shown never comes to mean another
\* ticket.
IdsNuncaRepetidos ==
  [][/\ IdsNuevos(aeropuerto, aeropuerto') /\ IdsNuevos(usuario, usuario')
     /\ IdsNuevos(vuelo, vuelo') /\ IdsNuevos(equipaje, equipaje')
     /\ IdsNuevos(billete, billete')]_vars

\* A load that starts ends, however the files look and whatever the other
\* process does to the lock (nothing waits for it).
CargaTermina ==
  \A p \in Procesos : fase[p] = "aeropuertos" ~> fase[p] \in {"reposo", "apagado"}

----------------------------------------------------------------------------
(* What airflow.db.sql says of the same tables *)

\* airflow.db.sql:33, COD_VUELO TEXT UNIQUE NOT NULL.
CodVueloUnico == \A v, w \in vuelo.filas : v.cod_vuelo = w.cod_vuelo => v = w

\* airflow.db.sql:72, FOREIGN KEY (ID_VUELO) REFERENCES Vuelo(ID_VUELO).
EquipajeConVuelo ==
  \A e \in equipaje.filas : \E v \in vuelo.filas : e.id_vuelo = v.id
===========================================================================
